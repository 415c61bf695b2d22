------------------------------ MODULE StoreProofs ------------------------------
(***************************************************************************)
(* Proofs about the stores around the match commands: the catalogue of     *)
(* players and teams, the migrations of the schema, the media library, the *)
(* images of the cards and the gate of the API.  They share nothing; each  *)
(* part proves one of them, for all values of its constants, and the last  *)
(* part puts them together.                                                *)
(***************************************************************************)
EXTENDS MCStores, Integers, FiniteSetTheorems, WellFoundedInduction, TLAPS

----------------------------------------------------------------------------
(***************************************************************************)
(* Numbers and rows.                                                       *)
(***************************************************************************)
\* A set of numbers has a least one.
Less == {xy \in Nat \X Nat : xy[1] < xy[2]}

LEMMA LeastNumber ==
  ASSUME NEW S \in SUBSET Nat, S # {}
  PROVE  \E n \in S : \A m \in S : n <= m
<1>1. IsWellFoundedOn(Less, Nat)
  BY NatLessThanWellFounded DEF OpToRel, Less
<1>2. PICK n \in S : \A m \in S : <<m, n>> \notin Less
  BY <1>1, WFMin
<1>3. ASSUME NEW m \in S PROVE n <= m
  <2>1. <<m, n>> \in Nat \X Nat /\ <<m, n>>[1] = m /\ <<m, n>>[2] = n
    OBVIOUS
  <2> QED BY <1>2, <2>1 DEF Less
<1> QED BY <1>3

\* Nothing is not a row, and not a document.
LEMMA NothingThere == NoRow \notin Row /\ NoRow \notin Document
<1>1. DOMAIN NoRow = {"id"}
  BY DEF NoRow
<1>2. \A r \in Row : "name" \in DOMAIN r
  BY DEF Row
<1>3. \A d \in Document : "name" \in DOMAIN d
  BY DEF Document
<1> QED BY <1>1, <1>2, <1>3

\* What the operators on documents and rows return.
LEMMA RowOfDocument ==
  ASSUME NEW doc \in Document
  PROVE  /\ RowOf(doc) \in Row /\ RowOf(doc).data = doc /\ RowOf(doc).name = doc.name
         /\ RowOf(doc) # NoRow
<1>1. /\ RowOf(doc) \in Row /\ RowOf(doc).data = doc /\ RowOf(doc).name = doc.name
  BY DEF RowOf, Row, Document
<1> QED BY <1>1, NothingThere

\* A registration adds its pair to the squad and changes nothing else.
LEMMA RegisteredDocument ==
  ASSUME NEW doc \in Document, NEW other \in Entities, NEW reg \in Nat
  PROVE  /\ Registered(doc, other, reg) \in Document
         /\ Registered(doc, other, reg).squad = doc.squad \cup {[other |-> other, reg |-> reg]}
BY DEF Registered, Document

\* A names backfill writes a document with a name, or none, and no squad.
LEMMA FreshIsDocument ==
  ASSUME NEW id \in Nat, NEW name \in Names \cup {NoName}
  PROVE  /\ FreshDocument(id, name) \in Document
         /\ FreshDocument(id, name).name = name /\ FreshDocument(id, name).squad = {}
BY DEF FreshDocument, Document, NoName

\* The upsert keeps a name that is there, and with it the document.
LEMMA UpsertIsConservative ==
  ASSUME NEW old \in Row \cup {NoRow}, NEW doc \in Document, doc.squad = {}
  PROVE  /\ Upsert(old, doc) \in Row
         /\ doc.name # NoName => Upsert(old, doc).name # NoName
         /\ old # NoRow /\ old.name # NoName =>
              Upsert(old, doc).name = old.name /\ Upsert(old, doc).data = old.data
         /\ old # NoRow => Upsert(old, doc).data.squad \subseteq old.data.squad
         /\ old = NoRow => Upsert(old, doc).data.squad = {}
<1>1. CASE old = NoRow
  BY <1>1, RowOfDocument DEF Upsert
<1>2. CASE old \in Row /\ old # NoRow
  BY <1>2 DEF Upsert, Row, Document
<1> QED BY <1>1, <1>2

\* A profile fills what is empty and leaves the squad alone.
LEMMA EnrichedDocument ==
  ASSUME NEW doc \in Document, NEW page \in [name : Names \cup {0}, bio : Bios \cup {0}]
  PROVE  /\ Enriched(doc, page) \in Document /\ Enriched(doc, page).squad = doc.squad
<1>1. doc.name \in Names \cup {NoName} /\ doc.bio \in Bios \cup {NoName}
      /\ page.name \in Names \cup {NoName} /\ page.bio \in Bios \cup {NoName}
  BY DEF Document, NoName
<1>2. PreferFuller(doc.name, page.name) \in Names \cup {NoName}
  BY <1>1 DEF PreferFuller
<1> QED BY <1>1, <1>2 DEF Enriched, Document

----------------------------------------------------------------------------
(***************************************************************************)
(* The invariant.                                                          *)
(***************************************************************************)
\* Two open transactions never hold the same row, and SQLite has one at a time.
Locks ==
  \A v, w \in Workers : v # w /\ ~work[v].aborted /\ ~work[w].aborted =>
    \A e \in Entities : work[v].writes[e] = NoRow \/ work[w].writes[e] = NoRow

Alone ==
  backend = "sqlite" =>
    \A v, w \in Workers : work[v].pc # "idle" /\ work[w].pc # "idle" => v = w

\* The control of a command: only where an error is swallowed does it go on in an
\* aborted transaction, the profile loop has a player in hand, and what will be
\* saved was read.
Control(c) ==
  /\ c.aborted => c.pc \in {"decide", "lookup", "commit"}
  /\ c.pc \in {"lookup", "saveBio"} => c.todo # {}
  /\ c.pc = "saveBio" => c.doc # NoRow
  /\ c.pc \in {"readTeam", "savePlayer", "saveTeam"} => c.docs[c.player] # NoRow
  /\ c.pc \in {"savePlayer", "saveTeam"} => c.docs[c.team] # NoRow

IsNames(c) == c.pc # "idle" /\ c.kind = "names"

\* What a names backfill has written over the stored rows `base` keeps their names,
\* gives nobody a registration and takes none from a named row.
NamesKept(c, base) ==
  IsNames(c) /\ ~c.aborted =>
    \A e \in Entities : c.writes[e] # NoRow =>
      /\ c.writes[e].data.squad \subseteq Squad(base[e])
      /\ base[e] # NoRow /\ base[e].name # NoName =>
           c.writes[e].name = base[e].name /\ c.writes[e].data.squad = base[e].data.squad

\* What it counted is written, or about to be, unless it counted an error.
CountedWritten(c) ==
  IsNames(c) =>
    /\ c.aborted => c.errors # {}
    /\ c.pc = "flush" => \A e \in Entities : c.batch[e] # NoRow =>
         c.batch[e].name = c.official[e] /\ c.batch[e].squad = {}
    /\ c.errors = {} /\ ~c.dry => \A e \in c.counted :
         \/ c.pc = "flush" /\ c.batch[e] # NoRow
         \/ c.writes[e] # NoRow /\ (c.official[e] # NoName => c.writes[e].name # NoName)

\* On SQLite a registration works on the documents that are stored, in which the
\* pair is not registered, and writes the two with the pair added.
RegistersPair(c, base) ==
  c.pc # "idle" /\ c.kind = "register" =>
    /\ c.pc \in {"readTeam", "savePlayer", "saveTeam", "commit"} =>
         base[c.player] # NoRow /\ c.docs[c.player] = base[c.player].data
    /\ c.pc \in {"savePlayer", "saveTeam", "commit"} =>
         /\ base[c.team] # NoRow /\ c.docs[c.team] = base[c.team].data
         /\ ~IsRegistered(c.docs[c.player], c.team)
         /\ ~IsRegistered(c.docs[c.team], c.player)
    /\ \A e \in Entities : c.writes[e] =
         IF e = c.player /\ c.pc \in {"saveTeam", "commit"}
         THEN RowOf(Registered(c.docs[e], c.team, c.uuid))
         ELSE IF e = c.team /\ c.pc = "commit"
         THEN RowOf(Registered(c.docs[e], c.player, c.uuid))
         ELSE NoRow

\* On SQLite a profile backfill writes the squads that are stored.
ProfilesKeepSquads(c, base) ==
  c.pc # "idle" /\ c.kind = "bio" =>
    /\ c.pc = "saveBio" =>
         /\ base[NextPlayer(c)] # NoRow
         /\ c.doc.squad = base[NextPlayer(c)].data.squad
    /\ \A e \in Entities : c.writes[e] # NoRow =>
         base[e] # NoRow /\ c.writes[e].data.squad = base[e].data.squad

CommandInv(c, base, host) ==
  /\ Control(c) /\ NamesKept(c, base) /\ CountedWritten(c)
  /\ host = "sqlite" => RegistersPair(c, base) /\ ProfilesKeepSquads(c, base)

CatalogInv == Locks /\ Alone /\ \A w \in Workers : CommandInv(work[w], rows, backend)

----------------------------------------------------------------------------
(***************************************************************************)
(* Steps.                                                                  *)
(***************************************************************************)
Works == {Idle} \cup RegisterWork \cup NamesWork \cup BioWork

\* The step of a command tells its kind and its fields.
LEMMA WorkShape ==
  ASSUME CatalogTypeOK, NEW w \in Workers
  PROVE  /\ work[w] \in Works /\ work[w].writes \in Changes /\ work[w].aborted \in BOOLEAN
         /\ work[w].pc = "idle" => work[w] = Idle
         /\ work[w].pc \in {"readPlayer", "readTeam", "savePlayer", "saveTeam"} =>
              work[w] \in RegisterWork
         /\ work[w].pc \in {"decide", "flush"} => work[w] \in NamesWork
         /\ work[w].pc \in {"lookup", "saveBio"} => work[w] \in BioWork
         /\ work[w].pc # "idle" => work[w] \in RegisterWork \cup NamesWork \cup BioWork
<1>1. work[w] \in Works
  BY DEF CatalogTypeOK, Works
<1>2. ASSUME work[w] = Idle
      PROVE  work[w].writes \in Changes /\ work[w].aborted \in BOOLEAN /\ work[w].pc = "idle"
  BY <1>2 DEF Idle, NoRows, Changes
<1>3. ASSUME work[w] \in RegisterWork
      PROVE  /\ work[w].writes \in Changes /\ work[w].aborted \in BOOLEAN
             /\ work[w].pc \in {"readPlayer", "readTeam", "savePlayer", "saveTeam", "commit"}
  BY <1>3 DEF RegisterWork
<1>4. ASSUME work[w] \in NamesWork
      PROVE  /\ work[w].writes \in Changes /\ work[w].aborted \in BOOLEAN
             /\ work[w].pc \in {"decide", "flush", "commit"}
  BY <1>4 DEF NamesWork
<1>5. ASSUME work[w] \in BioWork
      PROVE  /\ work[w].writes \in Changes /\ work[w].aborted \in BOOLEAN
             /\ work[w].pc \in {"lookup", "saveBio", "commit"}
  BY <1>5 DEF BioWork
<1> QED BY <1>1, <1>2, <1>3, <1>4, <1>5 DEF Works

\* A command that is at rest satisfies the invariant of a command.
LEMMA IdleInv ==
  ASSUME NEW base, NEW host
  PROVE  CommandInv(Idle, base, host)
BY DEF CommandInv, Idle, Control, IsNames, NamesKept, CountedWritten, RegistersPair,
   ProfilesKeepSquads

\* A step of one worker that leaves the stored rows alone.
LEMMA StepOfWorker ==
  ASSUME CatalogTypeOK, CatalogInv, NEW w \in Workers, NEW c,
         work' = [work EXCEPT ![w] = c], rows' = rows, backend' = backend,
         issued' \in 0..MaxCommands, c \in Works, c.aborted => backend = "pg",
         CommandInv(c, rows, backend),
         c.pc = "idle" \/ work[w].pc # "idle" \/ CanBegin(w),
         ~c.aborted => \A e \in Entities : c.writes[e] # NoRow =>
            e \notin LockedFor(w) \/ (~work[w].aborted /\ work[w].writes[e] # NoRow)
  PROVE  CatalogTypeOK' /\ CatalogInv'
<1>1. work'[w] = c /\ \A v \in Workers \ {w} : work'[v] = work[v]
  BY DEF CatalogTypeOK
<1>2. CatalogTypeOK'
  <2>1. work' \in [Workers -> {Idle} \cup RegisterWork \cup NamesWork \cup BioWork]
    BY DEF CatalogTypeOK, Works
  <2> QED BY <1>1, <2>1 DEF CatalogTypeOK
<1>3. Locks'
  <2>1. ASSUME NEW v \in Workers \ {w}, ~work[v].aborted, ~c.aborted, NEW e \in Entities
        PROVE  work[v].writes[e] = NoRow \/ c.writes[e] = NoRow
    <3> SUFFICES ASSUME work[v].writes[e] # NoRow, c.writes[e] # NoRow PROVE FALSE
      OBVIOUS
    <3>1. e \in LockedFor(w)
      BY <2>1 DEF LockedFor, Written
    <3> QED BY <2>1, <3>1 DEF CatalogInv, Locks
  <2> QED BY <1>1, <2>1 DEF CatalogInv, Locks
<1>4. Alone'
  <2>1. CASE c.pc = "idle" \/ work[w].pc # "idle"
    BY <1>1, <2>1 DEF CatalogInv, Alone
  <2>2. CASE CanBegin(w)
    BY <1>1, <2>2 DEF CanBegin, Running, Alone
  <2> QED BY <2>1, <2>2
<1>5. \A v \in Workers : CommandInv(work'[v], rows', backend')
  BY <1>1 DEF CatalogInv
<1> QED BY <1>2, <1>3, <1>4, <1>5 DEF CatalogInv

\* On SQLite nothing is locked by another command.
LEMMA NothingLocked ==
  ASSUME CatalogTypeOK, CatalogInv, backend = "sqlite", NEW w \in Workers, work[w].pc # "idle"
  PROVE  LockedFor(w) = {} /\ ~work[w].aborted
<1>1. \A v \in Workers \ {w} : work[v] = Idle
  BY WorkShape DEF CatalogInv, Alone
<1>2. \A v \in Workers \ {w} : Written(work[v].writes) = {}
  BY <1>1 DEF Idle, NoRows, Written
<1> QED BY <1>2 DEF LockedFor, CatalogTypeOK

\* A command that fails leaves nothing behind.
LEMMA RollbackStep ==
  ASSUME CatalogTypeOK, CatalogInv, NEW w \in Workers, Rollback(w),
         UNCHANGED <<backend, rows, issued>>
  PROVE  CatalogTypeOK' /\ CatalogInv'
<1>1. work' = [work EXCEPT ![w] = Idle] /\ Idle \in Works
  BY DEF Rollback, Works
<1>2. Idle.pc = "idle" /\ ~Idle.aborted /\ \A e \in Entities : Idle.writes[e] = NoRow
  BY DEF Idle, NoRows
<1>3. issued' \in 0..MaxCommands
  BY DEF CatalogTypeOK
<1> QED BY <1>1, <1>2, <1>3, IdleInv, StepOfWorker

\* A command begins with nothing written.
LEMMA BeginStep ==
  ASSUME CatalogTypeOK, CatalogInv, NEW w \in Workers, NEW c, CanBegin(w), issued < MaxCommands,
         issued' = issued + 1, work' = [work EXCEPT ![w] = c], UNCHANGED <<backend, rows>>,
         c \in Works, ~c.aborted, c.writes = NoRows, CommandInv(c, rows, backend)
  PROVE  CatalogTypeOK' /\ CatalogInv'
<1>1. issued' \in 0..MaxCommands
  BY CatalogAssumption DEF CatalogTypeOK
<1>2. \A e \in Entities : c.writes[e] = NoRow
  BY DEF NoRows
<1> QED BY <1>1, <1>2, StepOfWorker

\* The three commands begin.
LEMMA BeginRegisterStep ==
  ASSUME CatalogTypeOK, CatalogInv, NEW w \in Workers, NEW p \in Players, NEW t \in Teams,
         BeginRegister(w, p, t)
  PROVE  CatalogTypeOK' /\ CatalogInv'
<1> DEFINE c == [kind |-> "register", pc |-> "readPlayer", player |-> p, team |-> t,
                 uuid |-> issued + 1, docs |-> NoRows, writes |-> NoRows, aborted |-> FALSE]
<1>1. issued + 1 \in 1..MaxCommands
  BY CatalogAssumption DEF BeginRegister, CatalogTypeOK
<1>2. NoRows \in Changes /\ NoRows \in Documents
  BY DEF NoRows, Changes, Documents
<1>3. c \in Works
  BY <1>1, <1>2 DEF Works, RegisterWork
<1>4. CommandInv(c, rows, backend)
  BY DEF CommandInv, Control, IsNames, NamesKept, CountedWritten, RegistersPair,
         ProfilesKeepSquads, NoRows
<1>5. work' = [work EXCEPT ![w] = c] /\ c.writes = NoRows /\ ~c.aborted
  BY DEF BeginRegister
<1>6. CanBegin(w) /\ issued < MaxCommands /\ issued' = issued + 1 /\ UNCHANGED <<backend, rows>>
  BY DEF BeginRegister
<1> HIDE DEF c
<1> QED BY <1>3, <1>4, <1>5, <1>6, BeginStep

LEMMA BeginBackfillStep ==
  ASSUME CatalogTypeOK, CatalogInv, NEW w \in Workers, NEW es \in TableSets,
         NEW official \in OfficialNames, NEW dry \in BOOLEAN, BeginBackfill(w, es, official, dry)
  PROVE  CatalogTypeOK' /\ CatalogInv'
<1> DEFINE c == [kind |-> "names", pc |-> "decide", todo |-> es, official |-> official,
                 dry |-> dry, uuid |-> issued + 1, batch |-> NoRows, counted |-> {},
                 errors |-> {}, writes |-> NoRows, aborted |-> FALSE]
<1>1. issued + 1 \in 1..MaxCommands /\ es \in SUBSET {"players", "teams"}
  BY CatalogAssumption DEF BeginBackfill, CatalogTypeOK
<1>2. NoRows \in Changes /\ NoRows \in Documents
  BY DEF NoRows, Changes, Documents
<1>3. c \in Works
  BY <1>1, <1>2 DEF Works, NamesWork
<1>4. CommandInv(c, rows, backend)
  BY DEF CommandInv, Control, IsNames, NamesKept, CountedWritten, RegistersPair,
         ProfilesKeepSquads, NoRows
<1>5. work' = [work EXCEPT ![w] = c] /\ c.writes = NoRows /\ ~c.aborted
  BY DEF BeginBackfill
<1>6. CanBegin(w) /\ issued < MaxCommands /\ issued' = issued + 1 /\ UNCHANGED <<backend, rows>>
  BY DEF BeginBackfill
<1> HIDE DEF c
<1> QED BY <1>3, <1>4, <1>5, <1>6, BeginStep

LEMMA BeginBioStep ==
  ASSUME CatalogTypeOK, CatalogInv, NEW w \in Workers, NEW pages \in Profiles, BeginBio(w, pages)
  PROVE  CatalogTypeOK' /\ CatalogInv'
<1> DEFINE c == [kind |-> "bio", todo |-> Players, pages |-> pages,
                 pc |-> IF Players = {} THEN "commit" ELSE "lookup",
                 doc |-> NoRow, counted |-> {}, errors |-> {},
                 writes |-> NoRows, aborted |-> FALSE]
<1>1. NoRows \in Changes
  BY DEF NoRows, Changes
<1>2. c \in Works
  BY <1>1 DEF Works, BioWork
<1>3. CommandInv(c, rows, backend)
  BY DEF CommandInv, Control, IsNames, NamesKept, CountedWritten, RegistersPair,
         ProfilesKeepSquads, NoRows
<1>4. work' = [work EXCEPT ![w] = c] /\ c.writes = NoRows /\ ~c.aborted
  BY DEF BeginBio
<1>5. CanBegin(w) /\ issued < MaxCommands /\ issued' = issued + 1 /\ UNCHANGED <<backend, rows>>
  BY DEF BeginBio
<1> HIDE DEF c
<1> QED BY <1>2, <1>3, <1>4, <1>5, BeginStep

\* A registration reads the two documents; on SQLite they stay the stored ones.
LEMMA ReadForRegisterStep ==
  ASSUME CatalogTypeOK, CatalogInv, NEW w \in Workers, ReadForRegister(w)
  PROVE  CatalogTypeOK' /\ CatalogInv'
<1> DEFINE c == work[w]
           e == IF c.pc = "readPlayer" THEN c.player ELSE c.team
           r == Seen(w, e)
           next == IF c.pc = "readPlayer" THEN "readTeam" ELSE "savePlayer"
           d == [c EXCEPT !.pc = next, !.docs[e] = r.data]
<1>1. CASE Rollback(w)
  BY <1>1, RollbackStep DEF ReadForRegister
<1>2. CASE ~Rollback(w)
  <2>1. /\ c.pc \in {"readPlayer", "readTeam"} /\ r # NoRow
        /\ c.pc = "readTeam" => ~IsRegistered(r.data, c.player) /\ ~IsRegistered(c.docs[c.player], c.team)
        /\ work' = [work EXCEPT ![w].pc = next, ![w].docs[e] = r.data]
        /\ UNCHANGED <<backend, rows, issued>>
    BY <1>2 DEF ReadForRegister
  <2>2. c \in RegisterWork /\ c.pc # "idle"
    BY <2>1, WorkShape
  <2>3. /\ c.player \in Players /\ c.team \in Teams /\ c.player # c.team /\ e \in Entities
        /\ c.docs \in Documents /\ c.writes \in Changes /\ ~c.aborted /\ c.kind = "register"
    BY <2>2, CatalogAssumption DEF RegisterWork, Entities
  <2>4. work' = [work EXCEPT ![w] = d]
    BY <2>1
  <2>5. r \in Row
    BY <2>1, <2>3 DEF Seen, Changes, CatalogTypeOK
  <2>6. r.data \in Document
    BY <2>5 DEF Row
  <2>7. /\ d \in RegisterWork /\ d.pc = next /\ d.docs = [c.docs EXCEPT ![e] = r.data]
        /\ d.writes = c.writes /\ d.player = c.player /\ d.team = c.team /\ d.uuid = c.uuid
        /\ d.kind = "register" /\ ~d.aborted
    <3> HIDE DEF e, r
    <3> QED BY <2>2, <2>3, <2>6 DEF RegisterWork, Documents
  <2>8. CommandInv(c, rows, backend)
    BY DEF CatalogInv
  <2>9. CommandInv(d, rows, backend)
    <3>1. NamesKept(d, rows) /\ CountedWritten(d) /\ ProfilesKeepSquads(d, rows)
      BY <2>7 DEF IsNames, NamesKept, CountedWritten, ProfilesKeepSquads
    <3>3. Control(d)
      <4>1. d.docs[e] # NoRow /\ \A x \in Entities : x # e => d.docs[x] = c.docs[x]
        BY <2>3, <2>6, <2>7, NothingThere DEF Documents
      <4>2. c.pc = "readTeam" => c.docs[c.player] # NoRow
        BY <2>8 DEF CommandInv, Control
      <4>3. c.player \in Entities /\ c.team \in Entities
        BY <2>3 DEF Entities
      <4> QED BY <2>1, <2>3, <2>7, <4>1, <4>2, <4>3 DEF Control
    <3>2. ASSUME backend = "sqlite" PROVE RegistersPair(d, rows)
      <4>1. \A x \in Entities : c.writes[x] = NoRow
        BY <2>1, <2>2, <2>3, <2>8, <3>2 DEF CommandInv, RegistersPair
      <4>2. r = rows[e]
        BY <2>3, <4>1 DEF Seen, Written
      <4>3. d.docs[e] = rows[e].data /\ rows[e] # NoRow
            /\ \A x \in Entities : x # e => d.docs[x] = c.docs[x]
        BY <2>1, <2>3, <2>7, <4>2 DEF Documents
      <4>4. c.pc = "readTeam" => rows[c.player] # NoRow /\ c.docs[c.player] = rows[c.player].data
        BY <2>2, <2>3, <2>8, <3>2 DEF CommandInv, RegistersPair
      <4>5. CASE c.pc = "readPlayer"
        BY <2>3, <2>7, <4>1, <4>3, <4>5 DEF RegistersPair
      <4>6. CASE c.pc = "readTeam"
        <5>1. d.docs[c.player] = c.docs[c.player] /\ d.docs[c.team] = r.data
          BY <2>3, <4>2, <4>3, <4>6 DEF Entities
        <5>2. /\ rows[c.team] # NoRow /\ d.docs[c.team] = rows[c.team].data
              /\ rows[c.player] # NoRow /\ d.docs[c.player] = rows[c.player].data
          BY <4>2, <4>3, <4>4, <4>6, <5>1
        <5>3. ~IsRegistered(d.docs[c.player], c.team) /\ ~IsRegistered(d.docs[c.team], c.player)
          BY <2>1, <4>6, <5>1
        <5>4. d.pc = "savePlayer"
          BY <2>7, <4>6
        <5> QED BY <2>3, <2>7, <4>1, <5>2, <5>3, <5>4 DEF RegistersPair
      <4> QED BY <2>1, <4>5, <4>6
    <3> QED BY <3>1, <3>2, <3>3 DEF CommandInv
  <2>10. issued' \in 0..MaxCommands /\ d \in Works
    BY <2>1, <2>7 DEF CatalogTypeOK, Works
  <2> HIDE DEF d
  <2> QED BY <2>1, <2>2, <2>3, <2>4, <2>7, <2>9, <2>10, StepOfWorker
<1> QED BY <1>1, <1>2

\* A registration saves the player, then the team.
LEMMA SaveForRegisterStep ==
  ASSUME CatalogTypeOK, CatalogInv, NEW w \in Workers, SaveForRegister(w)
  PROVE  CatalogTypeOK' /\ CatalogInv'
<1> DEFINE c == work[w]
           e == IF c.pc = "savePlayer" THEN c.player ELSE c.team
           other == IF c.pc = "savePlayer" THEN c.team ELSE c.player
           new == RowOf(Registered(c.docs[e], other, c.uuid))
           next == IF c.pc = "savePlayer" THEN "saveTeam" ELSE "commit"
           d == [c EXCEPT !.writes[e] = new, !.pc = next]
<1>1. CASE Rollback(w)
  BY <1>1, RollbackStep DEF SaveForRegister
<1>2. CASE ~Rollback(w)
  <2>1. /\ c.pc \in {"savePlayer", "saveTeam"} /\ ~c.aborted /\ e \notin LockedFor(w)
        /\ work' = [work EXCEPT ![w].writes[e] = new, ![w].pc = next]
        /\ UNCHANGED <<backend, rows, issued>>
    BY <1>2 DEF SaveForRegister
  <2>2. c \in RegisterWork /\ c.pc # "idle"
    BY <2>1, WorkShape
  <2>3. /\ c.player \in Players /\ c.team \in Teams /\ c.player # c.team
        /\ c.player \in Entities /\ c.team \in Entities /\ c.uuid \in Nat
        /\ c.docs \in Documents /\ c.writes \in Changes /\ ~c.aborted /\ c.kind = "register"
    <3>1. c.player \in Players /\ c.team \in Teams /\ c.uuid \in 1..MaxCommands
      BY <2>2 DEF RegisterWork
    <3>2. c.docs \in Documents /\ c.writes \in Changes /\ ~c.aborted /\ c.kind = "register"
      BY <2>2 DEF RegisterWork
    <3>3. \A p \in Players, t \in Teams : p # t /\ p \in Entities /\ t \in Entities
      BY CatalogAssumption DEF Entities
    <3>4. 1..MaxCommands \subseteq Nat
      OBVIOUS
    <3> HIDE DEF c
    <3> QED BY <3>1, <3>2, <3>3, <3>4
  <2>4. /\ e \in Entities /\ other \in Entities
        /\ c.pc = "savePlayer" => e = c.player /\ other = c.team /\ next = "saveTeam"
        /\ c.pc = "saveTeam" => e = c.team /\ other = c.player /\ next = "commit"
    BY <2>1, <2>3
  <2>5. work' = [work EXCEPT ![w] = d]
    BY <2>1
  <2>6. CommandInv(c, rows, backend)
    BY DEF CatalogInv
  <2>7. c.docs[e] \in Document
    BY <2>1, <2>3, <2>4, <2>6 DEF CommandInv, Control, Documents
  <2>8. new \in Row /\ new # NoRow
    BY <2>3, <2>4, <2>7, RegisteredDocument, RowOfDocument
  <2>9. /\ d \in RegisterWork /\ d.pc = next /\ d.writes = [c.writes EXCEPT ![e] = new]
        /\ d.docs = c.docs /\ d.player = c.player /\ d.team = c.team /\ d.uuid = c.uuid
        /\ d.kind = "register" /\ ~d.aborted
    <3> HIDE DEF e, new
    <3> QED BY <2>2, <2>3, <2>8 DEF RegisterWork, Changes
  <2>10. CommandInv(d, rows, backend)
    <3>1. NamesKept(d, rows) /\ CountedWritten(d) /\ ProfilesKeepSquads(d, rows)
      BY <2>9 DEF IsNames, NamesKept, CountedWritten, ProfilesKeepSquads
    <3>2. Control(d)
      BY <2>1, <2>4, <2>6, <2>9 DEF CommandInv, Control
    <3>3. ASSUME backend = "sqlite" PROVE RegistersPair(d, rows)
      <4>1. /\ rows[c.player] # NoRow /\ c.docs[c.player] = rows[c.player].data
            /\ rows[c.team] # NoRow /\ c.docs[c.team] = rows[c.team].data
            /\ ~IsRegistered(c.docs[c.player], c.team)
            /\ ~IsRegistered(c.docs[c.team], c.player)
        BY <2>1, <2>2, <2>3, <2>6, <3>3 DEF CommandInv, RegistersPair
      <4>2. d.writes[e] = new /\ \A x \in Entities : x # e => d.writes[x] = c.writes[x]
        BY <2>3, <2>4, <2>9 DEF Changes
      <4>3. \A x \in Entities : c.writes[x] =
              IF x = c.player /\ c.pc = "saveTeam"
              THEN RowOf(Registered(c.docs[x], c.team, c.uuid)) ELSE NoRow
        BY <2>1, <2>2, <2>3, <2>6, <3>3 DEF CommandInv, RegistersPair
      <4>4. CASE c.pc = "savePlayer"
        <5>1. d.pc = "saveTeam" /\ e = c.player
              /\ new = RowOf(Registered(c.docs[c.player], c.team, c.uuid))
          BY <2>4, <2>9, <4>4
        <5> HIDE DEF new
        <5> QED BY <2>3, <2>9, <4>1, <4>2, <4>3, <4>4, <5>1 DEF RegistersPair
      <4>5. CASE c.pc = "saveTeam"
        <5>1. d.pc = "commit" /\ e = c.team
              /\ new = RowOf(Registered(c.docs[c.team], c.player, c.uuid))
          BY <2>4, <2>9, <4>5
        <5> HIDE DEF new
        <5> QED BY <2>3, <2>9, <4>1, <4>2, <4>3, <4>5, <5>1 DEF RegistersPair
      <4> QED BY <2>1, <4>4, <4>5
    <3> QED BY <3>1, <3>2, <3>3 DEF CommandInv
  <2>11. issued' \in 0..MaxCommands /\ d \in Works
    BY <2>1, <2>9 DEF CatalogTypeOK, Works
  <2>12. \A x \in Entities : x # e => d.writes[x] = c.writes[x]
    BY <2>3, <2>9 DEF Changes
  <2> HIDE DEF d, e
  <2> QED BY <2>1, <2>2, <2>3, <2>5, <2>9, <2>10, <2>11, <2>12, StepOfWorker
<1> QED BY <1>1, <1>2

\* The snapshot of a names backfill decides which documents are written.
LEMMA DecideBatch ==
  ASSUME NEW snapshot, NEW official \in OfficialNames, NEW ids \in SUBSET Entities, NEW uuid \in Nat,
         \A e \in ids : snapshot[e] \in Row \cup {NoRow}
  PROVE  LET batch == Decide(snapshot, official, ids, uuid) IN
         /\ batch \in Documents
         /\ \A e \in Entities : batch[e] # NoRow =>
              e \in ids /\ batch[e].name = official[e] /\ batch[e].squad = {}
<1> DEFINE new == {e \in ids : snapshot[e] = NoRow}
           fill == {e \in ids \ new : snapshot[e].data.name = NoName /\ official[e] # NoName}
           id(e) == IF e \in new THEN uuid ELSE snapshot[e].data.id
           batch == [e \in Entities |-> IF e \in new \cup fill
                                        THEN FreshDocument(id(e), official[e]) ELSE NoRow]
<1>1. batch = Decide(snapshot, official, ids, uuid)
  BY DEF Decide
<1>2. ASSUME NEW e \in new \cup fill
      PROVE  /\ e \in ids /\ FreshDocument(id(e), official[e]) \in Document
             /\ FreshDocument(id(e), official[e]).name = official[e]
             /\ FreshDocument(id(e), official[e]).squad = {}
  <2>1. e \in ids /\ (e \in new \/ snapshot[e] \in Row)
    OBVIOUS
  <2>2. id(e) \in Nat
    BY <2>1 DEF Row, Document
  <2>3. official[e] \in Names \cup {NoName}
    <3>1. e \in Entities /\ official \in [Entities -> Names \cup {NoName}]
      BY <2>1, CatalogAssumption DEF Entities, NoName
    <3> QED BY <3>1
  <2> HIDE DEF id, new, fill
  <2> QED BY <2>1, <2>2, <2>3, FreshIsDocument
<1> HIDE DEF new, fill, id
<1>3. batch \in Documents
  BY <1>2 DEF Documents
<1>4. \A e \in Entities : batch[e] # NoRow =>
        e \in ids /\ batch[e].name = official[e] /\ batch[e].squad = {}
  BY <1>2
<1> HIDE DEF batch
<1> QED BY <1>1, <1>3, <1>4

\* A names backfill decides on one snapshot, and counts what it will write.
LEMMA DecideBackfillStep ==
  ASSUME CatalogTypeOK, CatalogInv, NEW w \in Workers, DecideBackfill(w)
  PROVE  CatalogTypeOK' /\ CatalogInv'
<1> DEFINE c == work[w]
           ids == IdsOf(CurrentTable(c.todo))
           snapshot == [e \in ids |-> Seen(w, e)]
           batch == Decide(snapshot, c.official, ids, c.uuid)
           d == [c EXCEPT !.pc = "flush", !.batch = batch, !.counted = @ \cup Written(batch)]
<1>1. CASE c.aborted
  BY <1>1, RollbackStep DEF DecideBackfill
<1>2. CASE ~c.aborted
  <2>1. /\ c.pc = "decide" /\ UNCHANGED <<backend, rows, issued>>
        /\ work' = [work EXCEPT ![w].pc = "flush", ![w].batch = batch,
                                ![w].counted = @ \cup Written(batch)]
    BY <1>2 DEF DecideBackfill
  <2>2. c \in NamesWork
    BY <2>1, WorkShape
  <2>3. /\ c.kind = "names" /\ c.official \in OfficialNames /\ c.writes \in Changes
        /\ c.batch \in Documents /\ c.counted \in SUBSET Entities /\ c.uuid \in Nat
    <3>1. c.uuid \in 1..MaxCommands
      BY <2>2 DEF NamesWork
    <3>2. 1..MaxCommands \subseteq Nat
      OBVIOUS
    <3> HIDE DEF c
    <3> QED BY <2>2, <3>1, <3>2 DEF NamesWork
  <2>4. work' = [work EXCEPT ![w] = d]
    BY <2>1
  <2>5. ids \in SUBSET Entities
    BY DEF IdsOf, Entities
  <2>6. \A e \in ids : snapshot[e] \in Row \cup {NoRow}
    BY <2>3, <2>5 DEF Seen, Changes, CatalogTypeOK
  <2> HIDE DEF ids, snapshot
  <2>7. /\ batch \in Documents
        /\ \A e \in Entities : batch[e] # NoRow =>
              e \in ids /\ batch[e].name = c.official[e] /\ batch[e].squad = {}
    <3> HIDE DEF c
    <3> QED BY <2>3, <2>5, <2>6, DecideBatch
  <2> HIDE DEF batch
  <2>8. /\ d \in NamesWork /\ d.pc = "flush" /\ d.batch = batch /\ d.kind = "names"
        /\ d.counted = c.counted \cup Written(batch) /\ d.official = c.official
        /\ d.writes = c.writes /\ d.aborted = c.aborted /\ d.errors = c.errors /\ d.dry = c.dry
    <3>1. c.counted \cup Written(batch) \in SUBSET Entities
      BY <2>3 DEF Written
    <3> QED BY <2>2, <2>7, <3>1 DEF NamesWork
  <2>9. CommandInv(c, rows, backend)
    BY DEF CatalogInv
  <2>10. CommandInv(d, rows, backend)
    <3>1. Control(d) /\ RegistersPair(d, rows) /\ ProfilesKeepSquads(d, rows)
      BY <1>2, <2>8 DEF Control, RegistersPair, ProfilesKeepSquads
    <3>2. NamesKept(d, rows)
      BY <2>1, <2>3, <2>8, <2>9 DEF CommandInv, NamesKept, IsNames
    <3>3. CountedWritten(d)
      BY <1>2, <2>1, <2>3, <2>7, <2>8, <2>9 DEF CommandInv, CountedWritten, IsNames, Written
    <3> QED BY <3>1, <3>2, <3>3 DEF CommandInv
  <2>11. issued' \in 0..MaxCommands /\ d \in Works
    BY <2>1, <2>8 DEF CatalogTypeOK, Works
  <2> HIDE DEF d
  <2> QED BY <1>2, <2>1, <2>4, <2>8, <2>10, <2>11, StepOfWorker
<1> QED BY <1>1, <1>2

\* The batch is written over what the command sees, passed over or refused.
LEMMA FlushBackfillStep ==
  ASSUME CatalogTypeOK, CatalogInv, NEW w \in Workers, FlushBackfill(w)
  PROVE  CatalogTypeOK' /\ CatalogInv'
<1> DEFINE c == work[w]
           rest == c.todo \ {CurrentTable(c.todo)}
           step == IF rest = {} THEN "commit" ELSE "decide"
           next == [c EXCEPT !.pc = step, !.todo = rest]
           ids == Written(c.batch)
           after == [e \in Entities |-> IF e \in ids THEN Upsert(Seen(w, e), c.batch[e])
                                        ELSE c.writes[e]]
           flushed == [next EXCEPT !.writes = after]
           failed == [next EXCEPT !.aborted = TRUE, !.errors = @ \cup ids]
<1>1. /\ c.pc = "flush" /\ UNCHANGED <<backend, rows, issued>>
      /\ \/ (c.dry \/ ids = {}) /\ work' = [work EXCEPT ![w] = next]
         \/ ~c.dry /\ ids \cap LockedFor(w) = {} /\ work' = [work EXCEPT ![w] = flushed]
         \/ ids # {} /\ Refused(w, ids) /\ work' = [work EXCEPT ![w] = failed]
  BY DEF FlushBackfill
<1>2. c \in NamesWork
  BY <1>1, WorkShape
<1>3. CommandInv(c, rows, backend)
  BY DEF CatalogInv
<1>4. ~c.aborted
  BY <1>1, <1>3 DEF CommandInv, Control
<1>5. /\ c.kind = "names" /\ c.writes \in Changes /\ c.batch \in Documents
      /\ c.counted \in SUBSET Entities /\ c.errors \in SUBSET Entities /\ ids \in SUBSET Entities
      /\ rest \in SUBSET {"players", "teams"} /\ step \in {"commit", "decide"}
  BY <1>2 DEF NamesWork, Written
<1> HIDE DEF rest, step
<1>6. /\ next \in NamesWork /\ next.pc = step /\ next.kind = "names" /\ next.writes = c.writes
      /\ next.batch = c.batch /\ next.counted = c.counted /\ next.errors = c.errors
      /\ next.official = c.official /\ next.dry = c.dry /\ next.aborted = c.aborted
  BY <1>2, <1>5 DEF NamesWork
<1>7. ASSUME NEW d, d.kind = "names", d.pc \in {"commit", "decide"}
      PROVE  Control(d) /\ RegistersPair(d, rows) /\ ProfilesKeepSquads(d, rows)
  BY <1>7 DEF Control, RegistersPair, ProfilesKeepSquads
<1>8. issued' \in 0..MaxCommands
  BY <1>1 DEF CatalogTypeOK
<1>9. \A e \in ids : c.batch[e] \in Document /\ c.batch[e].name = c.official[e] /\ c.batch[e].squad = {}
  BY <1>1, <1>3, <1>5 DEF CommandInv, CountedWritten, IsNames, Written, Documents
<1>10. CASE (c.dry \/ ids = {}) /\ work' = [work EXCEPT ![w] = next]
  <2>1. CommandInv(next, rows, backend)
    <3>1. NamesKept(next, rows)
      BY <1>1, <1>3, <1>5, <1>6 DEF CommandInv, NamesKept, IsNames
    <3>2. CountedWritten(next)
      BY <1>1, <1>3, <1>4, <1>5, <1>6, <1>10 DEF CommandInv, CountedWritten, IsNames, Written
    <3> QED BY <1>5, <1>6, <1>7, <3>1, <3>2 DEF CommandInv
  <2>2. next \in Works /\ ~next.aborted
    BY <1>4, <1>6 DEF Works
  <2> HIDE DEF next
  <2> QED BY <1>1, <1>4, <1>6, <1>8, <1>10, <2>1, <2>2, StepOfWorker
<1>11. CASE ~c.dry /\ ids \cap LockedFor(w) = {} /\ work' = [work EXCEPT ![w] = flushed]
  <2>1. ASSUME NEW e \in ids
        PROVE  /\ after[e] \in Row /\ after[e] # NoRow
               /\ c.official[e] # NoName => after[e].name # NoName
               /\ c.writes[e] # NoRow /\ c.writes[e].name # NoName => after[e].name # NoName
               /\ after[e].data.squad \subseteq Squad(rows[e])
               /\ rows[e] # NoRow /\ rows[e].name # NoName =>
                    after[e].name = rows[e].name /\ after[e].data.squad = rows[e].data.squad
    <3> DEFINE old == Seen(w, e)
               doc == c.batch[e]
    <3>1. e \in Entities /\ after[e] = Upsert(old, doc)
      BY <1>5
    <3>2. /\ old \in Row \cup {NoRow}
          /\ c.writes[e] # NoRow => old = c.writes[e]
          /\ c.writes[e] = NoRow => old = rows[e]
      BY <1>5, <3>1 DEF Seen, Written, Changes, CatalogTypeOK
    <3>3. doc \in Document /\ doc.squad = {} /\ doc.name = c.official[e]
      BY <1>9
    <3>4. c.writes[e] # NoRow =>
            /\ c.writes[e].data.squad \subseteq Squad(rows[e])
            /\ rows[e] # NoRow /\ rows[e].name # NoName =>
                 c.writes[e].name = rows[e].name /\ c.writes[e].data.squad = rows[e].data.squad
      BY <1>1, <1>3, <1>4, <1>5, <3>1 DEF CommandInv, NamesKept, IsNames
    <3> HIDE DEF old, doc, after, c
    <3>5. /\ Upsert(old, doc) \in Row /\ Upsert(old, doc) # NoRow
          /\ doc.name # NoName => Upsert(old, doc).name # NoName
          /\ old # NoRow /\ old.name # NoName =>
               Upsert(old, doc).name = old.name /\ Upsert(old, doc).data = old.data
          /\ old # NoRow => Upsert(old, doc).data.squad \subseteq old.data.squad
          /\ old = NoRow => Upsert(old, doc).data.squad = {}
      BY <3>2, <3>3, UpsertIsConservative, NothingThere
    <3>6. after[e].data.squad \subseteq Squad(rows[e])
      BY <3>1, <3>2, <3>4, <3>5 DEF Squad
    <3>7. ASSUME rows[e] # NoRow, rows[e].name # NoName
          PROVE  after[e].name = rows[e].name /\ after[e].data.squad = rows[e].data.squad
      BY <3>1, <3>2, <3>4, <3>5, <3>7
    <3>8. c.writes[e] # NoRow /\ c.writes[e].name # NoName => after[e].name # NoName
      BY <3>1, <3>2, <3>5
    <3> QED BY <3>1, <3>3, <3>5, <3>6, <3>7, <3>8
  <2>2. /\ after \in Changes
        /\ \A e \in Entities : e \notin ids => after[e] = c.writes[e]
    BY <1>5, <2>1 DEF Changes
  <2> HIDE DEF after, next
  <2>3. /\ flushed \in NamesWork /\ flushed.pc = step /\ flushed.kind = "names"
        /\ flushed.writes = after /\ flushed.counted = c.counted /\ flushed.errors = c.errors
        /\ flushed.official = c.official /\ flushed.dry = c.dry /\ ~flushed.aborted
    BY <1>4, <1>6, <2>2 DEF NamesWork
  <2>4. CommandInv(flushed, rows, backend)
    <3>1. NamesKept(flushed, rows)
      BY <1>1, <1>3, <1>4, <1>5, <2>1, <2>2, <2>3 DEF CommandInv, NamesKept, IsNames
    <3>2. CountedWritten(flushed)
      <4>1. c.errors = {} => \A e \in c.counted :
              e \in ids \/ (c.writes[e] # NoRow /\ (c.official[e] # NoName => c.writes[e].name # NoName))
        BY <1>1, <1>3, <1>5, <1>11 DEF CommandInv, CountedWritten, IsNames, Written
      <4>2. \A e \in c.counted : e \in Entities
        BY <1>5
      <4>3. c.errors = {} => \A e \in c.counted :
              after[e] # NoRow /\ (c.official[e] # NoName => after[e].name # NoName)
        BY <2>1, <2>2, <4>1, <4>2
      <4> QED BY <1>5, <2>3, <4>3 DEF CountedWritten, IsNames
    <3> QED BY <1>5, <1>7, <2>3, <3>1, <3>2 DEF CommandInv
  <2>5. flushed \in Works
    BY <2>3 DEF Works
  <2>6. \A e \in Entities : after[e] # NoRow =>
          e \notin LockedFor(w) \/ (~work[w].aborted /\ work[w].writes[e] # NoRow)
    BY <1>4, <1>11, <2>2
  <2> HIDE DEF flushed
  <2> QED BY <1>1, <1>8, <1>11, <2>3, <2>4, <2>5, <2>6, StepOfWorker
<1>12. CASE ids # {} /\ Refused(w, ids) /\ work' = [work EXCEPT ![w] = failed]
  <2>1. backend = "pg"
    <3>1. backend # "sqlite"
      BY <1>1, <1>4, <1>12, NothingLocked DEF Refused
    <3> QED BY <3>1 DEF CatalogTypeOK
  <2> HIDE DEF next, ids
  <2>2. /\ failed \in NamesWork /\ failed.pc = step /\ failed.kind = "names"
        /\ failed.aborted /\ failed.errors = c.errors \cup ids
    BY <1>5, <1>6 DEF NamesWork
  <2>3. CommandInv(failed, rows, backend)
    <3>1. NamesKept(failed, rows)
      BY <2>2 DEF NamesKept
    <3>2. failed.errors # {} /\ failed.pc # "flush"
      BY <1>5, <1>12, <2>2
    <3>3. CountedWritten(failed)
      BY <2>2, <3>2 DEF CountedWritten
    <3> QED BY <1>5, <1>7, <2>2, <3>1, <3>3 DEF CommandInv
  <2>4. failed \in Works
    BY <2>2 DEF Works
  <2> HIDE DEF failed
  <2> QED BY <1>1, <1>8, <1>12, <2>1, <2>2, <2>3, <2>4, StepOfWorker
<1> QED BY <1>1, <1>10, <1>11, <1>12

\* The player that the profile loop has in hand is one of those left to do.
LEMMA PlayerInHand ==
  ASSUME NEW c \in BioWork, c.todo # {}
  PROVE  NextPlayer(c) \in c.todo /\ NextPlayer(c) \in Players /\ NextPlayer(c) \in Entities
<1>1. c.todo \in SUBSET Players
  BY DEF BioWork
<1>2. \E p \in c.todo : \A q \in c.todo : p <= q
  BY <1>1, LeastNumber, CatalogAssumption
<1>3. NextPlayer(c) \in c.todo
  BY <1>2 DEF NextPlayer
<1> QED BY <1>1, <1>3 DEF Entities

\* The loop goes on to the next player, or ends.
LEMMA SkippedPlayer ==
  ASSUME NEW c \in BioWork, NEW p \in c.todo
  PROVE  /\ Skip(c, p) \in BioWork /\ Skip(c, p).kind = "bio"
         /\ Skip(c, p).pc \in {"lookup", "commit"}
         /\ Skip(c, p).pc = "lookup" => Skip(c, p).todo # {}
         /\ Skip(c, p).writes = c.writes /\ Skip(c, p).aborted = c.aborted
         /\ Skip(c, p).errors = c.errors /\ Skip(c, p).counted = c.counted
<1> DEFINE pc == IF c.todo = {p} THEN "commit" ELSE "lookup"
           s == [c EXCEPT !.todo = @ \ {p}, !.pc = pc]
<1>1. Skip(c, p) = s
  BY DEF Skip
<1>2. pc \in {"commit", "lookup"} /\ (pc = "lookup" => c.todo \ {p} # {})
  OBVIOUS
<1> HIDE DEF pc
<1>3. s \in BioWork /\ s.kind = "bio" /\ s.pc = pc /\ s.todo = c.todo \ {p}
      /\ s.writes = c.writes /\ s.aborted = c.aborted /\ s.errors = c.errors
      /\ s.counted = c.counted
  BY <1>2 DEF BioWork
<1> HIDE DEF s
<1> QED BY <1>1, <1>2, <1>3

\* A profile is passed over, missed or decided; what will be saved is the document
\* the command sees with the empty fields filled.
LEMMA LookupBioStep ==
  ASSUME CatalogTypeOK, CatalogInv, NEW w \in Workers, LookupBio(w)
  PROVE  CatalogTypeOK' /\ CatalogInv'
<1> DEFINE c == work[w]
           p == NextPlayer(c)
           r == Seen(w, p)
           doc == Enriched(r.data, c.pages[p])
           missed == [Skip(c, p) EXCEPT !.errors = @ \cup {p}]
           saving == [c EXCEPT !.pc = "saveBio", !.doc = doc]
<1>1. /\ c.pc = "lookup" /\ UNCHANGED <<backend, rows, issued>>
      /\ \/ work' = [work EXCEPT ![w] = Skip(c, p)]
         \/ c.aborted /\ work' = [work EXCEPT ![w] = missed]
         \/ ~c.aborted /\ r # NoRow /\ work' = [work EXCEPT ![w] = saving]
  BY DEF LookupBio
<1>2. c \in BioWork
  BY <1>1, WorkShape
<1>3. CommandInv(c, rows, backend)
  BY DEF CatalogInv
<1>4. c.todo # {}
  BY <1>1, <1>3 DEF CommandInv, Control
<1>5. p \in c.todo /\ p \in Players /\ p \in Entities
  BY <1>2, <1>4, PlayerInHand
<1>6. /\ c.kind = "bio" /\ c.writes \in Changes /\ c.pages \in Profiles
      /\ c.errors \in SUBSET Players /\ c.aborted \in BOOLEAN
  BY <1>2 DEF BioWork
<1>7. issued' \in 0..MaxCommands /\ (c.aborted => backend = "pg")
  BY <1>1 DEF CatalogTypeOK
<1>8. backend = "sqlite" => ProfilesKeepSquads(c, rows)
  BY <1>3 DEF CommandInv
<1>9. ASSUME NEW d, d \in BioWork, d.kind = "bio", d.pc \in {"lookup", "commit"},
             d.pc = "lookup" => d.todo # {}, d.writes = c.writes, d.aborted = c.aborted,
             work' = [work EXCEPT ![w] = d]
      PROVE  CatalogTypeOK' /\ CatalogInv'
  <2>1. Control(d) /\ NamesKept(d, rows) /\ CountedWritten(d) /\ RegistersPair(d, rows)
    BY <1>9 DEF Control, IsNames, NamesKept, CountedWritten, RegistersPair
  <2>2. backend = "sqlite" => ProfilesKeepSquads(d, rows)
    BY <1>1, <1>6, <1>8, <1>9 DEF ProfilesKeepSquads
  <2>3. CommandInv(d, rows, backend)
    BY <2>1, <2>2 DEF CommandInv
  <2>4. d \in Works
    BY <1>9 DEF Works
  <2> QED BY <1>1, <1>7, <1>9, <2>3, <2>4, StepOfWorker
<1> DEFINE s == Skip(c, p)
<1>10. /\ s \in BioWork /\ s.kind = "bio" /\ s.pc \in {"lookup", "commit"}
       /\ s.pc = "lookup" => s.todo # {}
       /\ s.writes = c.writes /\ s.aborted = c.aborted /\ s.errors = c.errors
  <2> HIDE DEF c, p
  <2> QED BY <1>2, <1>5, SkippedPlayer
<1>11. CASE work' = [work EXCEPT ![w] = s]
  <2> HIDE DEF s
  <2> QED BY <1>9, <1>10, <1>11
<1>12. CASE work' = [work EXCEPT ![w] = missed]
  <2>1. missed = [s EXCEPT !.errors = s.errors \cup {p}]
    OBVIOUS
  <2> HIDE DEF s, p, missed
  <2>2. /\ missed \in BioWork /\ missed.kind = "bio" /\ missed.pc = s.pc
        /\ missed.todo = s.todo /\ missed.writes = s.writes /\ missed.aborted = s.aborted
    BY <1>5, <1>6, <1>10, <2>1 DEF BioWork
  <2> QED BY <1>9, <1>10, <1>12, <2>2
<1>13. CASE ~c.aborted /\ r # NoRow /\ work' = [work EXCEPT ![w] = saving]
  <2>1. r \in Row /\ ((r = c.writes[p] /\ c.writes[p] # NoRow) \/ r = rows[p])
    BY <1>5, <1>6, <1>13 DEF Seen, Written, Changes, CatalogTypeOK
  <2>2. r.data \in Document
    BY <2>1 DEF Row
  <2>3. c.pages[p] \in [name : Names \cup {0}, bio : Bios \cup {0}]
    <3> DEFINE Page == [name : Names \cup {0}, bio : Bios \cup {0}]
    <3>1. Profiles \subseteq [Players -> Page]
      BY Zenon, CatalogAssumption
    <3>2. c.pages \in Profiles /\ p \in Players
      BY <1>5, <1>6
    <3> HIDE DEF c, p, Page
    <3>3. c.pages[p] \in Page
      BY <3>1, <3>2
    <3> QED BY <3>3 DEF Page
  <2> HIDE DEF r, p
  <2>4. doc \in Document /\ doc.squad = r.data.squad
    BY <2>2, <2>3, EnrichedDocument
  <2>5. doc # NoRow
    BY <2>4, NothingThere
  <2> HIDE DEF doc
  <2>6. /\ saving \in BioWork /\ saving.pc = "saveBio" /\ saving.kind = "bio"
        /\ saving.doc = doc /\ saving.todo = c.todo /\ saving.writes = c.writes
        /\ saving.aborted = c.aborted
    BY <1>2, <2>4 DEF BioWork
  <2>7. Control(saving) /\ NamesKept(saving, rows) /\ CountedWritten(saving)
        /\ RegistersPair(saving, rows)
    BY <1>4, <1>13, <2>5, <2>6 DEF Control, IsNames, NamesKept, CountedWritten, RegistersPair
  <2>8. ASSUME backend = "sqlite" PROVE ProfilesKeepSquads(saving, rows)
    <3>1. \A e \in Entities : c.writes[e] # NoRow =>
            rows[e] # NoRow /\ c.writes[e].data.squad = rows[e].data.squad
      BY <1>1, <1>6, <1>8, <2>8 DEF ProfilesKeepSquads
    <3>2. rows[p] # NoRow /\ doc.squad = rows[p].data.squad
      BY <1>5, <1>13, <2>1, <2>4, <3>1
    <3>3. NextPlayer(saving) = p
      BY <2>6 DEF NextPlayer, p
    <3> HIDE DEF saving
    <3> QED BY <2>6, <3>1, <3>2, <3>3 DEF ProfilesKeepSquads
  <2>9. CommandInv(saving, rows, backend) /\ saving \in Works
    BY <2>6, <2>7, <2>8 DEF CommandInv, Works
  <2> HIDE DEF saving
  <2> QED BY <1>1, <1>7, <1>13, <2>6, <2>9, StepOfWorker
<1> QED BY <1>1, <1>11, <1>12, <1>13

\* The profile is saved over the row the command sees, or its transaction aborts.
LEMMA SaveBioStep ==
  ASSUME CatalogTypeOK, CatalogInv, NEW w \in Workers, SaveBio(w)
  PROVE  CatalogTypeOK' /\ CatalogInv'
<1> DEFINE c == work[w]
           p == NextPlayer(c)
           s == Skip(c, p)
           saved == [s EXCEPT !.writes[p] = RowOf(c.doc), !.counted = @ \cup {p}]
           failed == [s EXCEPT !.aborted = TRUE, !.errors = @ \cup {p}]
<1>1. /\ c.pc = "saveBio" /\ UNCHANGED <<backend, rows, issued>>
      /\ \/ p \notin LockedFor(w) /\ work' = [work EXCEPT ![w] = saved]
         \/ Refused(w, {p}) /\ work' = [work EXCEPT ![w] = failed]
  BY DEF SaveBio
<1>2. c \in BioWork
  BY <1>1, WorkShape
<1>3. CommandInv(c, rows, backend)
  BY DEF CatalogInv
<1>4. c.todo # {} /\ ~c.aborted /\ c.doc # NoRow
  BY <1>1, <1>3 DEF CommandInv, Control
<1>5. p \in c.todo /\ p \in Players /\ p \in Entities
  BY <1>2, <1>4, PlayerInHand
<1>6. /\ c.kind = "bio" /\ c.writes \in Changes /\ c.doc \in Document
      /\ c.errors \in SUBSET Players /\ c.counted \in SUBSET Players
  BY <1>2, <1>4 DEF BioWork
<1>7. issued' \in 0..MaxCommands
  BY <1>1 DEF CatalogTypeOK
<1>8. ASSUME backend = "sqlite"
      PROVE  /\ rows[p] # NoRow /\ c.doc.squad = rows[p].data.squad
             /\ \A e \in Entities : c.writes[e] # NoRow =>
                  rows[e] # NoRow /\ c.writes[e].data.squad = rows[e].data.squad
  BY <1>1, <1>3, <1>6, <1>8 DEF CommandInv, ProfilesKeepSquads
<1>9. /\ s \in BioWork /\ s.kind = "bio" /\ s.pc \in {"lookup", "commit"}
      /\ s.pc = "lookup" => s.todo # {}
      /\ s.writes = c.writes /\ s.aborted = c.aborted /\ s.errors = c.errors
      /\ s.counted = c.counted
  <2> HIDE DEF c, p
  <2> QED BY <1>2, <1>5, SkippedPlayer
<1>10. RowOf(c.doc) \in Row /\ RowOf(c.doc).data = c.doc /\ RowOf(c.doc) # NoRow
  BY <1>6, RowOfDocument
<1>11. ASSUME NEW d, d.kind = "bio", d.pc \in {"lookup", "commit"}, d.pc = "lookup" => d.todo # {}
       PROVE  Control(d) /\ NamesKept(d, rows) /\ CountedWritten(d) /\ RegistersPair(d, rows)
  BY <1>11 DEF Control, IsNames, NamesKept, CountedWritten, RegistersPair
<1>12. CASE p \notin LockedFor(w) /\ work' = [work EXCEPT ![w] = saved]
  <2> DEFINE after == [c.writes EXCEPT ![p] = RowOf(c.doc)]
  <2>1. saved = [s EXCEPT !.writes = after, !.counted = s.counted \cup {p}]
    BY <1>9
  <2>2. after \in Changes /\ after[p] = RowOf(c.doc)
        /\ \A e \in Entities : e # p => after[e] = c.writes[e]
    BY <1>5, <1>6, <1>10 DEF Changes
  <2>3. c.counted \cup {p} \in SUBSET Players
    BY <1>5, <1>6
  <2> HIDE DEF s, p, saved, after
  <2>4. /\ saved \in BioWork /\ saved.kind = "bio" /\ saved.pc = s.pc /\ saved.todo = s.todo
        /\ saved.writes = after /\ saved.aborted = s.aborted
    BY <1>9, <2>1, <2>2, <2>3 DEF BioWork
  <2>5. ASSUME backend = "sqlite" PROVE ProfilesKeepSquads(saved, rows)
    BY <1>8, <1>9, <1>10, <2>2, <2>4, <2>5 DEF ProfilesKeepSquads
  <2>6. CommandInv(saved, rows, backend)
    BY <1>9, <1>11, <2>4, <2>5 DEF CommandInv
  <2>7. saved \in Works /\ ~saved.aborted
    BY <1>4, <1>9, <2>4 DEF Works
  <2>8. \A e \in Entities : saved.writes[e] # NoRow =>
          e \notin LockedFor(w) \/ (~work[w].aborted /\ work[w].writes[e] # NoRow)
    BY <1>4, <1>12, <2>2, <2>4
  <2> QED BY <1>1, <1>7, <1>12, <2>6, <2>7, <2>8, StepOfWorker
<1>13. CASE Refused(w, {p}) /\ work' = [work EXCEPT ![w] = failed]
  <2>1. backend = "pg"
    <3>1. backend # "sqlite"
      BY <1>1, <1>4, <1>13, NothingLocked DEF Refused
    <3> QED BY <3>1 DEF CatalogTypeOK
  <2>2. failed = [s EXCEPT !.aborted = TRUE, !.errors = s.errors \cup {p}]
    OBVIOUS
  <2>3. c.errors \cup {p} \in SUBSET Players
    BY <1>5, <1>6
  <2> HIDE DEF s, p, failed
  <2>4. /\ failed \in BioWork /\ failed.kind = "bio" /\ failed.pc = s.pc /\ failed.todo = s.todo
        /\ failed.aborted
    BY <1>9, <2>2, <2>3 DEF BioWork
  <2>5. CommandInv(failed, rows, backend)
    BY <1>9, <1>11, <2>1, <2>4 DEF CommandInv
  <2>6. failed \in Works
    BY <2>4 DEF Works
  <2> QED BY <1>1, <1>7, <1>13, <2>1, <2>4, <2>5, <2>6, StepOfWorker
<1> QED BY <1>1, <1>12, <1>13

\* What a commit leaves in the tables: what the command wrote, where it wrote.
LEMMA CommittedRows ==
  ASSUME CatalogTypeOK, NEW w \in Workers, CommitUnit(w)
  PROVE  /\ rows' \in Changes
         /\ work[w].aborted => rows' = rows
         /\ ~work[w].aborted => \A e \in Entities :
              rows'[e] = IF work[w].writes[e] = NoRow THEN rows[e] ELSE work[w].writes[e]
<1>1. work[w].writes \in Changes /\ rows \in Changes
  BY WorkShape DEF CatalogTypeOK
<1>2. CASE work[w].aborted
  BY <1>1, <1>2 DEF CommitUnit
<1>3. CASE ~work[w].aborted
  <2>1. rows' = [e \in Entities |-> Seen(w, e)]
    BY <1>3 DEF CommitUnit
  <2>2. \A e \in Entities :
          Seen(w, e) = IF work[w].writes[e] = NoRow THEN rows[e] ELSE work[w].writes[e]
    BY DEF Seen, Written
  <2>3. rows' \in Changes
    BY <1>1, <2>1, <2>2 DEF Changes
  <2> QED BY <1>3, <2>1, <2>2, <2>3
<1> QED BY <1>2, <1>3

\* A commit disturbs no other command: what that one has written is its own.
LEMMA CommitStep ==
  ASSUME CatalogTypeOK, CatalogInv, NEW w \in Workers, Commit(w)
  PROVE  CatalogTypeOK' /\ CatalogInv'
<1>1. CommitUnit(w) /\ UNCHANGED <<backend, issued>> /\ work[w].pc = "commit"
      /\ work' = [work EXCEPT ![w] = Idle]
  BY DEF Commit, CommitUnit
<1>2. work'[w] = Idle /\ \A v \in Workers \ {w} : work'[v] = work[v]
  BY <1>1 DEF CatalogTypeOK
<1>3. Idle.pc = "idle" /\ ~Idle.aborted /\ \A e \in Entities : Idle.writes[e] = NoRow
  BY DEF Idle, NoRows
<1>4. CatalogTypeOK'
  <2>1. rows' \in Changes
    BY <1>1, CommittedRows
  <2>2. work' \in [Workers -> {Idle} \cup RegisterWork \cup NamesWork \cup BioWork]
    BY <1>1 DEF CatalogTypeOK
  <2> QED BY <1>1, <1>2, <1>3, <2>1, <2>2 DEF CatalogTypeOK
<1>5. Locks' /\ Alone'
  BY <1>1, <1>2, <1>3 DEF CatalogInv, Locks, Alone
<1>6. ASSUME NEW v \in Workers PROVE CommandInv(work'[v], rows', backend')
  <2>1. CASE v = w
    BY <1>2, <2>1, IdleInv
  <2>2. CASE v # w
    <3>1. work'[v] = work[v] /\ CommandInv(work[v], rows, backend) /\ work[v].aborted \in BOOLEAN
      BY <1>2, <2>2, WorkShape DEF CatalogInv
    <3>2. NamesKept(work[v], rows')
      <4>1. ASSUME ~work[v].aborted, NEW e \in Entities, work[v].writes[e] # NoRow
            PROVE  rows'[e] = rows[e]
        <5>1. work[w].aborted \/ work[w].writes[e] = NoRow
          BY <2>2, <4>1 DEF CatalogInv, Locks
        <5> QED BY <1>1, <5>1, CommittedRows
      <4>2. NamesKept(work[v], rows)
        BY <3>1 DEF CommandInv
      <4> QED BY <4>1, <4>2 DEF NamesKept, Squad
    <3>3. ASSUME backend = "sqlite"
          PROVE  RegistersPair(work[v], rows') /\ ProfilesKeepSquads(work[v], rows')
      <4>1. work[v].pc = "idle"
        BY <1>1, <2>2, <3>3 DEF CatalogInv, Alone
      <4> QED BY <4>1 DEF RegistersPair, ProfilesKeepSquads
    <3> QED BY <1>1, <3>1, <3>2, <3>3 DEF CommandInv
  <2> QED BY <2>1, <2>2
<1> QED BY <1>4, <1>5, <1>6 DEF CatalogInv

\* Nothing is stored and nobody works when the catalogue begins.
LEMMA InitCatalog == CatalogInit => CatalogTypeOK /\ CatalogInv
<1> SUFFICES ASSUME CatalogInit PROVE CatalogTypeOK /\ CatalogInv
  OBVIOUS
<1>1. \A w \in Workers : work[w] = Idle
  BY DEF CatalogInit
<1>2. Idle.pc = "idle" /\ ~Idle.aborted /\ \A e \in Entities : Idle.writes[e] = NoRow
  BY DEF Idle, NoRows
<1>3. rows \in Changes /\ issued \in 0..MaxCommands
  BY CatalogAssumption DEF CatalogInit, NoRows, Changes
<1>4. CatalogTypeOK
  BY <1>1, <1>2, <1>3 DEF CatalogTypeOK, CatalogInit
<1>5. Locks /\ Alone
  BY <1>1, <1>2 DEF Locks, Alone
<1>6. \A w \in Workers : CommandInv(work[w], rows, backend)
  BY <1>1, IdleInv
<1> QED BY <1>4, <1>5, <1>6 DEF CatalogInv

\* Every step of the catalogue keeps the invariant.
LEMMA NextCatalog == CatalogTypeOK /\ CatalogInv /\ [CatalogNext]_catalogVars
                       => CatalogTypeOK' /\ CatalogInv'
<1> SUFFICES ASSUME CatalogTypeOK, CatalogInv, [CatalogNext]_catalogVars
             PROVE  CatalogTypeOK' /\ CatalogInv'
  OBVIOUS
<1>1. CASE UNCHANGED catalogVars
  BY <1>1 DEF catalogVars, CatalogTypeOK, CatalogInv, Locks, Alone
<1>2. ASSUME NEW w \in Workers, NEW p \in Players, NEW t \in Teams, BeginRegister(w, p, t)
      PROVE  CatalogTypeOK' /\ CatalogInv'
  BY <1>2, BeginRegisterStep
<1>3. ASSUME NEW w \in Workers, NEW es \in TableSets, NEW official \in OfficialNames,
             NEW dry \in BOOLEAN, BeginBackfill(w, es, official, dry)
      PROVE  CatalogTypeOK' /\ CatalogInv'
  BY <1>3, BeginBackfillStep
<1>4. ASSUME NEW w \in Workers, NEW pages \in Profiles, BeginBio(w, pages)
      PROVE  CatalogTypeOK' /\ CatalogInv'
  BY <1>4, BeginBioStep
<1>5. ASSUME NEW w \in Workers,
             \/ ReadForRegister(w) \/ SaveForRegister(w)
             \/ DecideBackfill(w) \/ FlushBackfill(w)
             \/ LookupBio(w) \/ SaveBio(w)
             \/ Commit(w)
      PROVE  CatalogTypeOK' /\ CatalogInv'
  BY <1>5, ReadForRegisterStep, SaveForRegisterStep, DecideBackfillStep, FlushBackfillStep,
     LookupBioStep, SaveBioStep, CommitStep
<1> QED BY <1>1, <1>2, <1>3, <1>4, <1>5 DEF CatalogNext

\* The invariant of the catalogue.
LEMMA CatalogInvariant == CatalogSpec => [](CatalogTypeOK /\ CatalogInv)
BY InitCatalog, NextCatalog, PTL DEF CatalogSpec

----------------------------------------------------------------------------
(***************************************************************************)
(* What the catalogue promises.                                            *)
(***************************************************************************)
\* Only a commit changes the tables, and only its own worker ends a command.
LEMMA OnlyCommitsWrite ==
  ASSUME CatalogTypeOK, [CatalogNext]_catalogVars
  PROVE  /\ rows' = rows \/ \E w \in Workers : Commit(w)
         /\ \A w \in Workers : work[w].pc = "commit" /\ work'[w].pc = "idle" => Commit(w)
<1>1. CASE UNCHANGED catalogVars
  BY <1>1 DEF catalogVars
<1>2. ASSUME NEW x \in Workers, Commit(x)
      PROVE  \A w \in Workers : work[w].pc = "commit" /\ work'[w].pc = "idle" => Commit(w)
  BY <1>2 DEF Commit, CommitUnit, CatalogTypeOK
<1>3. ASSUME NEW x \in Workers, rows' = rows, work[x].pc # "commit",
             \A w \in Workers \ {x} : work'[w] = work[w]
      PROVE  /\ rows' = rows \/ \E w \in Workers : Commit(w)
             /\ \A w \in Workers : work[w].pc = "commit" /\ work'[w].pc = "idle" => Commit(w)
  BY <1>3
<1>4. ASSUME NEW x \in Workers, NEW p \in Players, NEW t \in Teams, BeginRegister(x, p, t)
      PROVE  rows' = rows /\ work[x].pc # "commit" /\ \A w \in Workers \ {x} : work'[w] = work[w]
  BY <1>4 DEF BeginRegister, CanBegin, CatalogTypeOK
<1>5. ASSUME NEW x \in Workers, NEW es \in TableSets, NEW official \in OfficialNames,
             NEW dry \in BOOLEAN, BeginBackfill(x, es, official, dry)
      PROVE  rows' = rows /\ work[x].pc # "commit" /\ \A w \in Workers \ {x} : work'[w] = work[w]
  BY <1>5 DEF BeginBackfill, CanBegin, CatalogTypeOK
<1>6. ASSUME NEW x \in Workers, NEW pages \in Profiles, BeginBio(x, pages)
      PROVE  rows' = rows /\ work[x].pc # "commit" /\ \A w \in Workers \ {x} : work'[w] = work[w]
  BY <1>6 DEF BeginBio, CanBegin, CatalogTypeOK
<1>7. ASSUME NEW x \in Workers, ReadForRegister(x)
      PROVE  rows' = rows /\ work[x].pc # "commit" /\ \A w \in Workers \ {x} : work'[w] = work[w]
  BY <1>7 DEF ReadForRegister, Rollback, CatalogTypeOK
<1>8. ASSUME NEW x \in Workers, SaveForRegister(x)
      PROVE  rows' = rows /\ work[x].pc # "commit" /\ \A w \in Workers \ {x} : work'[w] = work[w]
  BY <1>8 DEF SaveForRegister, Rollback, CatalogTypeOK
<1>9. ASSUME NEW x \in Workers, DecideBackfill(x)
      PROVE  rows' = rows /\ work[x].pc # "commit" /\ \A w \in Workers \ {x} : work'[w] = work[w]
  BY <1>9 DEF DecideBackfill, Rollback, CatalogTypeOK
<1>10. ASSUME NEW x \in Workers, FlushBackfill(x)
       PROVE  rows' = rows /\ work[x].pc # "commit" /\ \A w \in Workers \ {x} : work'[w] = work[w]
  BY <1>10 DEF FlushBackfill, CatalogTypeOK
<1>11. ASSUME NEW x \in Workers, LookupBio(x)
       PROVE  rows' = rows /\ work[x].pc # "commit" /\ \A w \in Workers \ {x} : work'[w] = work[w]
  BY <1>11 DEF LookupBio, CatalogTypeOK
<1>12. ASSUME NEW x \in Workers, SaveBio(x)
       PROVE  rows' = rows /\ work[x].pc # "commit" /\ \A w \in Workers \ {x} : work'[w] = work[w]
  BY <1>12 DEF SaveBio, CatalogTypeOK
<1> QED
  BY <1>1, <1>2, <1>3, <1>4, <1>5, <1>6, <1>7, <1>8, <1>9, <1>10, <1>11, <1>12 DEF CatalogNext

\* A names backfill that ends renamed nobody and, unless it counted an error, left
\* no gap that the source could fill.
LEMMA ConservativeStep ==
  ASSUME CatalogTypeOK, CatalogInv, [CatalogNext]_catalogVars, NEW w \in Workers, NamesCommit(w)
  PROVE  /\ \A e \in Entities : rows[e] # NoRow /\ rows[e].name # NoName =>
              rows'[e].name = rows[e].name
         /\ work[w].errors = {} /\ ~work[w].dry =>
              \A e \in work[w].counted : work[w].official[e] # NoName => rows'[e].name # NoName
<1> DEFINE c == work[w]
<1>1. c.pc = "commit" /\ c.kind = "names" /\ Commit(w) /\ CommitUnit(w)
  BY OnlyCommitsWrite DEF NamesCommit, Commit
<1>2. NamesKept(c, rows) /\ CountedWritten(c)
  BY DEF CatalogInv, CommandInv
<1>3. c.counted \in SUBSET Entities
  <2>1. c \notin RegisterWork /\ c \notin BioWork
    BY <1>1 DEF RegisterWork, BioWork
  <2>2. c \in NamesWork
    BY <1>1, <2>1, WorkShape
  <2> QED BY <2>2 DEF NamesWork
<1>4. CASE c.aborted
  <2>1. rows' = rows /\ c.errors # {}
    BY <1>1, <1>2, <1>4, CommittedRows DEF CountedWritten, IsNames
  <2> QED BY <2>1
<1>5. CASE ~c.aborted
  <2>1. \A e \in Entities : rows'[e] = IF c.writes[e] = NoRow THEN rows[e] ELSE c.writes[e]
    BY <1>1, <1>5, CommittedRows
  <2>2. \A e \in Entities : rows[e] # NoRow /\ rows[e].name # NoName =>
          rows'[e].name = rows[e].name
    BY <1>1, <1>2, <1>5, <2>1 DEF NamesKept, IsNames
  <2>3. c.errors = {} /\ ~c.dry => \A e \in c.counted :
          c.writes[e] # NoRow /\ (c.official[e] # NoName => c.writes[e].name # NoName)
    BY <1>1, <1>2 DEF CountedWritten, IsNames
  <2> QED BY <1>3, <2>1, <2>2, <2>3
<1> QED BY <1>4, <1>5

\* On SQLite a commit gives the player and the team the same registration, or
\* nobody any, and takes none from a named entity.
LEMMA SquadsStep ==
  ASSUME CatalogTypeOK, CatalogInv, backend = "sqlite", NEW w \in Workers, Commit(w)
  PROVE  /\ \A p \in Players, t \in Teams, n \in 1..MaxCommands :
              ([other |-> t, reg |-> n] \in Squad(rows'[p]) \ Squad(rows[p]))
                = ([other |-> p, reg |-> n] \in Squad(rows'[t]) \ Squad(rows[t]))
         /\ \A e \in Entities : rows[e] # NoRow /\ rows[e].name # NoName =>
              Squad(rows[e]) \subseteq Squad(rows'[e])
<1> DEFINE c == work[w]
<1>1. c.pc = "commit" /\ CommitUnit(w) /\ ~c.aborted
  BY NothingLocked DEF Commit
<1>2. \A e \in Entities : rows'[e] = IF c.writes[e] = NoRow THEN rows[e] ELSE c.writes[e]
  BY <1>1, CommittedRows
<1>3. NamesKept(c, rows) /\ RegistersPair(c, rows) /\ ProfilesKeepSquads(c, rows)
  BY DEF CatalogInv, CommandInv
<1>4. c \in RegisterWork \cup NamesWork \cup BioWork
  BY <1>1, WorkShape
<1>5. Players \subseteq Entities /\ Teams \subseteq Entities
  BY DEF Entities
<1>6. CASE c \in NamesWork \cup BioWork
  <2>1. ASSUME NEW e \in Entities
        PROVE  /\ Squad(rows'[e]) \subseteq Squad(rows[e])
               /\ rows[e] # NoRow /\ rows[e].name # NoName => Squad(rows'[e]) = Squad(rows[e])
    <3>1. CASE c \in NamesWork
      <4>1. c.kind = "names"
        BY <3>1 DEF NamesWork
      <4> QED BY <1>1, <1>2, <1>3, <4>1 DEF NamesKept, IsNames, Squad
    <3>2. CASE c \in BioWork
      <4>1. c.kind = "bio"
        BY <3>2 DEF BioWork
      <4> QED BY <1>1, <1>2, <1>3, <4>1 DEF ProfilesKeepSquads, Squad
    <3> QED BY <1>6, <3>1, <3>2
  <2> QED BY <1>5, <2>1
<1>7. CASE c \in RegisterWork
  <2>1. c.kind = "register" /\ c.player \in Players /\ c.team \in Teams /\ c.uuid \in 1..MaxCommands
    BY <1>7 DEF RegisterWork
  <2>2. c.player # c.team /\ c.player \in Entities /\ c.team \in Entities
    BY <2>1, <1>5, CatalogAssumption
  <2>3. /\ rows[c.player] # NoRow /\ c.docs[c.player] = rows[c.player].data
        /\ rows[c.team] # NoRow /\ c.docs[c.team] = rows[c.team].data
        /\ ~IsRegistered(rows[c.player].data, c.team)
        /\ ~IsRegistered(rows[c.team].data, c.player)
        /\ c.writes[c.player] = RowOf(Registered(c.docs[c.player], c.team, c.uuid))
        /\ c.writes[c.team] = RowOf(Registered(c.docs[c.team], c.player, c.uuid))
        /\ \A e \in Entities : e # c.player /\ e # c.team => c.writes[e] = NoRow
    BY <1>1, <1>3, <2>1, <2>2 DEF RegistersPair
  <2>4. \A e \in Entities : rows[e] \in Row \cup {NoRow}
    BY DEF CatalogTypeOK, Changes
  <2>5. ASSUME NEW e \in Entities, NEW other \in Entities, rows[e] # NoRow,
               c.writes[e] = RowOf(Registered(rows[e].data, other, c.uuid))
        PROVE  Squad(rows'[e]) = Squad(rows[e]) \cup {[other |-> other, reg |-> c.uuid]}
    <3>1. rows[e].data \in Document /\ c.uuid \in Nat
      BY <2>1, <2>4, <2>5 DEF Row
    <3>2. /\ c.writes[e] # NoRow
          /\ c.writes[e].data.squad = rows[e].data.squad \cup {[other |-> other, reg |-> c.uuid]}
      BY <2>5, <3>1, RegisteredDocument, RowOfDocument
    <3> HIDE DEF c
    <3> QED BY <1>2, <2>5, <3>2 DEF Squad
  <2>6. /\ Squad(rows'[c.player]) =
             Squad(rows[c.player]) \cup {[other |-> c.team, reg |-> c.uuid]}
        /\ Squad(rows'[c.team]) =
             Squad(rows[c.team]) \cup {[other |-> c.player, reg |-> c.uuid]}
    BY <2>2, <2>3, <2>5
  <2>7. \A e \in Entities : e # c.player /\ e # c.team => Squad(rows'[e]) = Squad(rows[e])
    BY <1>2, <2>3
  <2>8. /\ \A n : [other |-> c.team, reg |-> n] \notin Squad(rows[c.player])
        /\ \A n : [other |-> c.player, reg |-> n] \notin Squad(rows[c.team])
    BY <2>3 DEF Squad, IsRegistered
  <2>9. ASSUME NEW p \in Players, NEW t \in Teams, NEW n \in 1..MaxCommands
        PROVE  /\ [other |-> t, reg |-> n] \in Squad(rows'[p]) \ Squad(rows[p])
                    <=> p = c.player /\ t = c.team /\ n = c.uuid
               /\ [other |-> p, reg |-> n] \in Squad(rows'[t]) \ Squad(rows[t])
                    <=> p = c.player /\ t = c.team /\ n = c.uuid
    <3>1. p \in Entities /\ t \in Entities /\ p # c.team /\ t # c.player
      BY <1>5, <2>1, CatalogAssumption
    <3>2. /\ [other |-> t, reg |-> n] = [other |-> c.team, reg |-> c.uuid]
               <=> t = c.team /\ n = c.uuid
          /\ [other |-> p, reg |-> n] = [other |-> c.player, reg |-> c.uuid]
               <=> p = c.player /\ n = c.uuid
      OBVIOUS
    <3> HIDE DEF c
    <3> QED BY <2>6, <2>7, <2>8, <3>1, <3>2
  <2>10. \A e \in Entities : Squad(rows[e]) \subseteq Squad(rows'[e])
    BY <2>6, <2>7
  <2> HIDE DEF c
  <2> QED BY <2>9, <2>10
<1> QED BY <1>4, <1>6, <1>7

\* Rows keep their columns and commands their fields.
THEOREM CatalogTyped == CatalogSpec => []CatalogTypeOK
BY CatalogInvariant, PTL

\* A names backfill renames nobody, on either engine, although another transaction
\* may have written since its snapshot; and what it counted without an error has a
\* name whenever the source has one (catalog_backfill_service.py).
THEOREM BackfillConserves == CatalogSpec => BackfillIsConservative
<1> DEFINE Step == \A w \in Workers : NamesCommit(w) =>
             /\ \A e \in Entities : rows[e] # NoRow /\ rows[e].name # NoName =>
                  rows'[e].name = rows[e].name
             /\ work[w].errors = {} /\ ~work[w].dry => \A e \in work[w].counted :
                  work[w].official[e] # NoName => rows'[e].name # NoName
<1>1. CatalogTypeOK /\ CatalogInv /\ [CatalogNext]_catalogVars => [Step]_catalogVars
  BY ConservativeStep
<1>2. BackfillIsConservative <=> [][Step]_catalogVars
  BY DEF BackfillIsConservative
<1> HIDE DEF Step
<1> QED BY <1>1, <1>2, CatalogInvariant, PTL DEF CatalogSpec

\* On SQLite the squad of a player and the squad of a team gain a registration in
\* one step under one id, and no command takes one from an entity that has a name.
THEOREM SquadsStayPaired == CatalogSpec => SquadsGrowTogether
<1> DEFINE Step == backend = "sqlite" =>
             /\ \A p \in Players, t \in Teams, n \in 1..MaxCommands :
                  ([other |-> t, reg |-> n] \in Squad(rows'[p]) \ Squad(rows[p]))
                    = ([other |-> p, reg |-> n] \in Squad(rows'[t]) \ Squad(rows[t]))
             /\ \A e \in Entities : rows[e] # NoRow /\ rows[e].name # NoName =>
                  Squad(rows[e]) \subseteq Squad(rows'[e])
<1>1. CatalogTypeOK /\ CatalogInv /\ [CatalogNext]_catalogVars => [Step]_catalogVars
  <2> SUFFICES ASSUME CatalogTypeOK, CatalogInv, [CatalogNext]_catalogVars, backend = "sqlite"
               PROVE  Step
    OBVIOUS
  <2>1. CASE rows' = rows
    BY <2>1
  <2>2. ASSUME NEW w \in Workers, Commit(w) PROVE Step
    BY <2>2, SquadsStep
  <2> QED BY <2>1, <2>2, OnlyCommitsWrite
<1>2. SquadsGrowTogether <=> [][Step]_catalogVars
  BY DEF SquadsGrowTogether
<1> HIDE DEF Step
<1> QED BY <1>1, <1>2, CatalogInvariant, PTL DEF CatalogSpec

----------------------------------------------------------------------------
(***************************************************************************)
(* Schema migrations.                                                      *)
(***************************************************************************)

\* The versions are those that some binary knows.
LEMMA VersionsKnown ==
  /\ Versions \subseteq Nat \ {0}
  /\ \A p \in Processes : Known[p] \in Nat \ {0} /\ 1..Known[p] \subseteq Versions
BY MigrationAssumption DEF Versions

\* Processes and databases start with their shape.
LEMMA InitMigrationType == MigrationInit => MigrationTypeOK
BY MigrationAssumption DEF MigrationInit, MigrationTypeOK, Databases, Empty, Stopped

\* What a process that migrates goes to next is a version.
NextIsVersion ==
  \A p \in Processes :
    proc[p].pc \in {"migrate", "backedUp"} => proc[p].next \in Nat \ {0}

\* Every step keeps the shape.
LEMMA NextMigrationType ==
  MigrationTypeOK /\ NextIsVersion /\ [MigrationNext]_migrationVars
    => MigrationTypeOK' /\ NextIsVersion'
<1> SUFFICES ASSUME MigrationTypeOK, NextIsVersion, [MigrationNext]_migrationVars
             PROVE  MigrationTypeOK' /\ NextIsVersion'
  OBVIOUS
<1> USE DEF MigrationTypeOK, NextIsVersion
<1>1. ASSUME NEW p \in Processes, proc[p].pc \in {"migrate", "backedUp"}, proc[p].next <= Known[p]
      PROVE  proc[p].next \in Versions
  <2>1. proc[p].next \in 1..Known[p]
    BY <1>1, VersionsKnown
  <2> QED BY <2>1, VersionsKnown
<1>2. ASSUME NEW p \in Processes, StartProcess(p) PROVE MigrationTypeOK' /\ NextIsVersion'
  BY <1>2, MigrationAssumption DEF StartProcess, Stopped
<1>3. ASSUME NEW p \in Processes, ReadVersion(p) PROVE MigrationTypeOK' /\ NextIsVersion'
  BY <1>3, VersionsKnown DEF ReadVersion, Databases
<1>4. ASSUME NEW p \in Processes, BackUp(p) PROVE MigrationTypeOK' /\ NextIsVersion'
  BY <1>4 DEF BackUp
<1>5. ASSUME NEW p \in Processes, FailMigration(p) PROVE MigrationTypeOK' /\ NextIsVersion'
  BY <1>5 DEF FailMigration
<1>6. ASSUME NEW p \in Processes, ApplySqlite(p) PROVE MigrationTypeOK' /\ NextIsVersion'
  BY <1>1, <1>6 DEF ApplySqlite, ReadyToApply, Databases
<1>7. ASSUME NEW p \in Processes, ApplyPg(p) PROVE MigrationTypeOK' /\ NextIsVersion'
  BY <1>1, <1>7 DEF ApplyPg, ReadyToApply, Databases
<1>8. ASSUME NEW p \in Processes, Serve(p) PROVE MigrationTypeOK' /\ NextIsVersion'
  BY <1>8 DEF Serve
<1>9. ASSUME NEW p \in Processes, StopProcess(p) PROVE MigrationTypeOK' /\ NextIsVersion'
  BY <1>9 DEF StopProcess, Stopped
<1>10. ASSUME NEW v \in Versions, Restore(v) PROVE MigrationTypeOK' /\ NextIsVersion'
  BY <1>10 DEF Restore
<1>11. CASE UNCHANGED migrationVars
  BY <1>11 DEF migrationVars
<1> QED
  BY <1>2, <1>3, <1>4, <1>5, <1>6, <1>7, <1>8, <1>9, <1>10, <1>11 DEF MigrationNext

\* A database, the stored one or a backup, has every migration up to its version.
NoGap(d) == 1..d.version \subseteq d.schema

\* ServingHasSchema, with why it stays: the backups that a restore may bring back
\* have no gap either, and a process that migrates has passed no migration over.
MigrationInv ==
  /\ ServingHasSchema
  /\ \A v \in DOMAIN backups : NoGap(backups[v])
  /\ \A p \in Processes :
       proc[p].pc \in {"migrate", "backedUp"} => 1..(proc[p].next - 1) \subseteq db.schema

\* An empty database has no gap.
LEMMA InitMigration == MigrationInit => MigrationInv
BY DEF MigrationInit, MigrationInv, ServingHasSchema, Stopped, Empty

\* Every step keeps the databases without a gap.
LEMMA NextMigration ==
  MigrationTypeOK /\ NextIsVersion /\ MigrationInv /\ [MigrationNext]_migrationVars
    => MigrationInv'
<1> SUFFICES ASSUME MigrationTypeOK, NextIsVersion, MigrationInv,
                    [MigrationNext]_migrationVars
             PROVE  MigrationInv'
  OBVIOUS
<1>0. db.version \in Nat
  <2>1. db \in Databases
    BY DEF MigrationTypeOK
  <2>2. db.version \in Versions \cup {0}
    BY <2>1 DEF Databases
  <2>3. \A v \in Versions : v \in Nat
    BY VersionsKnown
  <2> QED BY <2>2, <2>3
<1> USE DEF MigrationTypeOK, NextIsVersion, MigrationInv, ServingHasSchema, NoGap
<1>1. ASSUME NEW p \in Processes, StartProcess(p) PROVE MigrationInv'
  BY <1>1 DEF StartProcess, Stopped
<1>2. ASSUME NEW p \in Processes, ReadVersion(p) PROVE MigrationInv'
  <2>1. /\ UNCHANGED <<engine, db, backups>>
        /\ \A q \in Processes \ {p} : proc'[q] = proc[q]
        /\ \/ proc'[p].pc = "failed"
           \/ proc'[p].next = db.version + 1 /\ proc'[p].pc = "migrate"
    BY <1>2 DEF ReadVersion
  <2>2. \A q \in Processes : proc'[q].pc \in {"migrate", "backedUp"} =>
          1..(proc'[q].next - 1) \subseteq db'.schema
    <3> SUFFICES ASSUME NEW q \in Processes, proc'[q].pc \in {"migrate", "backedUp"}
                 PROVE  1..(proc'[q].next - 1) \subseteq db.schema
      BY <2>1
    <3>1. CASE q = p
      <4>1. proc'[q].next = db.version + 1
        BY <2>1, <3>1
      <4>2. proc'[q].next - 1 = db.version
        BY <1>0, <4>1
      <4>3. 1..db.version \subseteq db.schema
        OBVIOUS
      <4> QED BY <4>2, <4>3
    <3>2. CASE q # p
      BY <2>1, <3>2
    <3> QED BY <3>1, <3>2
  <2>3. \A q \in Processes : proc'[q].pc = "serving" => 1..Known[q] \subseteq db'.schema
    <3>1. \A q \in Processes : proc[q].pc = "serving" => 1..Known[q] \subseteq db.schema
      OBVIOUS
    <3> QED BY <2>1, <3>1
  <2> QED BY <2>1, <2>2, <2>3
<1>3. ASSUME NEW p \in Processes, BackUp(p) PROVE MigrationInv'
  <2>1. \A u \in DOMAIN backups' :
          backups'[u] = db \/ (u \in DOMAIN backups /\ backups'[u] = backups[u])
    BY <1>3 DEF BackUp
  <2> QED BY <1>3, <2>1 DEF BackUp
<1>4. ASSUME NEW p \in Processes, FailMigration(p) PROVE MigrationInv'
  BY <1>4 DEF FailMigration
\* A migration that is applied is the next one of a process that passed none over.
<1>5. ASSUME NEW p \in Processes, NEW v, v = proc[p].next,
             proc[p].pc \in {"migrate", "backedUp"},
             db'.schema = db.schema \cup {v}, NoGap(db)',
             engine = "pg" => db'.schema = 1..db'.version,
             proc' = [proc EXCEPT ![p].pc = "migrate", ![p].next = @ + 1],
             UNCHANGED <<engine, backups>>
      PROVE  MigrationInv'
  <2>1. v \in Nat \ {0} /\ 1..(v - 1) \subseteq db.schema
    BY <1>5
  <2>2. 1..v \subseteq db'.schema
    BY <1>5, <2>1
  <2>3. /\ proc'[p].pc = "migrate" /\ proc'[p].next = v + 1 /\ v + 1 - 1 = v
        /\ \A q \in Processes \ {p} : proc'[q] = proc[q]
    BY <1>5, <2>1
  <2> QED BY <1>5, <2>2, <2>3
<1>6. ASSUME NEW p \in Processes, ReadyToApply(p)
      PROVE  /\ proc[p].pc \in {"migrate", "backedUp"} /\ proc[p].next \in Nat \ {0}
             /\ 1..(proc[p].next - 1) \subseteq db.schema
  BY <1>6 DEF ReadyToApply
<1>7. ASSUME NEW p \in Processes, ApplySqlite(p) PROVE MigrationInv'
  <2> DEFINE v == proc[p].next
  <2>1. /\ ReadyToApply(p) /\ engine = "sqlite"
        /\ db'.version = v /\ db'.schema = db.schema \cup {v}
        /\ proc' = [proc EXCEPT ![p].pc = "migrate", ![p].next = @ + 1]
        /\ UNCHANGED <<engine, backups>>
    BY <1>7 DEF ApplySqlite
  <2>2. NoGap(db)'
    BY <1>6, <2>1
  <2> QED BY <1>5, <1>6, <2>1, <2>2
<1>8. ASSUME NEW p \in Processes, ApplyPg(p) PROVE MigrationInv'
  <2> DEFINE v == proc[p].next
  <2>1. /\ ReadyToApply(p) /\ engine = "pg" /\ v \notin db.schema
        /\ db'.version = IF v > db.version THEN v ELSE db.version
        /\ db'.schema = db.schema \cup {v}
        /\ proc' = [proc EXCEPT ![p].pc = "migrate", ![p].next = @ + 1]
        /\ UNCHANGED <<engine, backups>>
    BY <1>8 DEF ApplyPg
  <2>2. db.version \in Nat /\ v \in Nat \ {0} /\ db.schema = 1..db.version
    BY <1>0, <1>6, <2>1
  <2>3. v = db.version + 1
    <3>1. v > db.version
      BY <2>1, <2>2
    <3>2. v - 1 <= db.version
      <4>1. v = 1 \/ v - 1 \in 1..(v - 1)
        BY <2>2
      <4> QED BY <1>6, <2>1, <2>2, <4>1
    <3> QED BY <2>2, <3>1, <3>2
  <2>4. db'.version = v /\ db'.schema = 1..v
    BY <2>1, <2>2, <2>3
  <2> QED BY <1>5, <1>6, <2>1, <2>4
<1>9. ASSUME NEW p \in Processes, Serve(p) PROVE MigrationInv'
  <2>1. 1..Known[p] \subseteq db.schema
    <3>1. proc[p].next > Known[p] /\ proc[p].next \in Nat /\ Known[p] \in Nat
      BY <1>9, VersionsKnown DEF Serve
    <3>2. 1..Known[p] \subseteq 1..(proc[p].next - 1)
      BY <3>1
    <3> QED BY <1>9, <3>2 DEF Serve
  <2> QED BY <1>9, <2>1 DEF Serve
<1>10. ASSUME NEW p \in Processes, StopProcess(p) PROVE MigrationInv'
  BY <1>10 DEF StopProcess, Stopped
<1>11. ASSUME NEW v \in Versions, Restore(v) PROVE MigrationInv'
  BY <1>11 DEF Restore
<1>12. CASE UNCHANGED migrationVars
  BY <1>12 DEF migrationVars
<1> QED
  BY <1>1, <1>2, <1>3, <1>4, <1>7, <1>8, <1>9, <1>10, <1>11, <1>12 DEF MigrationNext

\* A process that serves runs on every migration its binary knows, whatever
\* binaries start together, die between two migrations or are restored under;
\* on PostgreSQL the version never goes back.
THEOREM ServersHaveTheirSchema == MigrationSpec => [](MigrationTypeOK /\ ServingHasSchema)
<1>1. MigrationInit => MigrationTypeOK /\ NextIsVersion /\ MigrationInv
  BY InitMigrationType, InitMigration DEF MigrationInit, NextIsVersion, Stopped
<1>2. MigrationTypeOK /\ NextIsVersion /\ MigrationInv /\ [MigrationNext]_migrationVars
        => MigrationTypeOK' /\ NextIsVersion' /\ MigrationInv'
  BY NextMigrationType, NextMigration
<1>3. MigrationInv => ServingHasSchema
  BY DEF MigrationInv
<1> QED BY <1>1, <1>2, <1>3, PTL DEF MigrationSpec

----------------------------------------------------------------------------
(***************************************************************************)
(* The rate limit.                                                         *)
(***************************************************************************)
\* What a history of requests says: the hit that one of them left, the requests
\* of a client that passed the limiter, and those of them within a window before
\* another one.
HitOf(asked, i) == [at |-> asked[i].at, request |-> i]

PassedOf(asked, client) ==
  {i \in 1..Len(asked) : asked[i].client = client /\ asked[i].status \notin {413, 429}}

PassedIn(asked, i) ==
  {j \in 1..(i - 1) : /\ asked[j].client = asked[i].client
                      /\ asked[j].status \notin {413, 429}
                      /\ asked[i].at - asked[j].at < WindowLength}

\* What the limiter remembers of a client are requests of that client that passed,
\* and all of those that still count.
HitsAreRequests(asked, remembered, time) ==
  \A c \in Clients :
    /\ \A t \in remembered[c] : \E i \in PassedOf(asked, c) : t = HitOf(asked, i)
    /\ \A i \in PassedOf(asked, c) :
         time - asked[i].at < WindowLength => HitOf(asked, i) \in remembered[c]

GateInv == HitsAreRequests(requests, hits, now) /\ LimitIsExact

\* The requests that answer a command: their fields.
Answers(time) ==
  [client : Clients, at : 0..time, status : {200, 400, 401, 403, 404, 413, 429}]

\* The limit, said of the history alone.
LEMMA LimitOfHistory ==
  LimitIsExact <=>
    \A i \in DOMAIN requests : requests[i].status # 413 =>
      (requests[i].status = 429) = (Cardinality(PassedIn(requests, i)) >= Limit)
BY DEF LimitIsExact, PassedBefore, PassedIn

\* The principal of a key and the address of a host are clients.
LEMMA ClientType ==
  ASSUME NEW host \in Hosts, NEW key
  PROVE  ClientOf(host, key) \in Clients
BY DEF ClientOf, Clients

\* The clock starts, and nobody has asked.
LEMMA InitGate == GateInit => GateTypeOK /\ GateInv
BY GateAssumption DEF GateInit, GateTypeOK, GateInv, HitsAreRequests, LimitIsExact, PassedOf

\* The hits that still count are, one for one, the requests of the client that
\* passed less than a window ago.
LEMMA RecentAreRequests ==
  ASSUME GateTypeOK, GateInv, NEW c \in Clients
  PROVE  LET passed == {i \in PassedOf(requests, c) : now - requests[i].at < WindowLength} IN
         /\ IsFiniteSet(passed)
         /\ Cardinality(Recent(hits[c])) = Cardinality(passed)
<1> DEFINE passed == {i \in PassedOf(requests, c) : now - requests[i].at < WindowLength}
           f == [i \in passed |-> HitOf(requests, i)]
<1>1. IsFiniteSet(passed)
  <2>1. Len(requests) \in Nat
    BY DEF GateTypeOK
  <2>2. IsFiniteSet(1..Len(requests))
    BY <2>1, FS_Interval
  <2> QED BY <2>2, FS_Subset DEF PassedOf
<1>2. \A i \in passed : HitOf(requests, i) \in Recent(hits[c])
  BY DEF GateInv, HitsAreRequests, Recent, HitOf
<1>3. \A t \in Recent(hits[c]) : \E i \in passed : t = HitOf(requests, i)
  BY DEF GateInv, HitsAreRequests, Recent, HitOf
<1>4. \A i, j : HitOf(requests, i) = HitOf(requests, j) => i = j
  BY DEF HitOf
<1> HIDE DEF passed
<1>5. f \in Bijection(passed, Recent(hits[c]))
  BY <1>2, <1>3, <1>4 DEF Bijection, Injection, Surjection, IsInjective
<1>6. ExistsBijection(passed, Recent(hits[c]))
  BY <1>5 DEF ExistsBijection
<1> QED BY <1>1, <1>6, FS_Bijection DEF passed

\* A request that is answered is the next of the history, and no other changes.
LEMMA RequestAnswered ==
  ASSUME GateTypeOK, NEW r, NEW asked, asked = Append(requests, r)
  PROVE  /\ Len(requests) \in Nat /\ Len(asked) = Len(requests) + 1
         /\ DOMAIN asked = 1..(Len(requests) + 1) /\ DOMAIN requests = 1..Len(requests)
         /\ \A i \in 1..Len(requests) : asked[i] = requests[i]
         /\ asked[Len(requests) + 1] = r
BY DEF GateTypeOK

\* What the gate answers.
LEMMA RouteStatusType ==
  ASSUME NEW key, NEW command, NEW wellFormed \in BOOLEAN
  PROVE  RouteStatus(key, command, wellFormed) \in {200, 400, 401, 403, 404}
BY DEF RouteStatus

\* A request is answered with a status, and the limiter's state keeps its shape.
LEMMA PostType ==
  ASSUME GateTypeOK, NEW client \in Clients, NEW status,
         status \in {200, 400, 401, 403, 404, 413, 429}, Len(requests) < MaxRequests,
         requests' = Append(requests, [client |-> client, at |-> now, status |-> status]),
         now' = now, hits' = hits \/ Allow(client)
  PROVE  GateTypeOK'
<1> DEFINE r == [client |-> client, at |-> now, status |-> status]
<1>1. now \in Nat /\ now \in 0..now /\ now \in 0..MaxTime
  BY GateAssumption DEF GateTypeOK
<1>2. r \in [client : Clients, at : 0..now, status : {200, 400, 401, 403, 404, 413, 429}]
  BY <1>1
<1>3. Len(requests) \in Nat /\ Len(requests') = Len(requests) + 1
  BY RequestAnswered
<1>4. \A c \in Clients : hits[c] \subseteq [at : 0..now, request : 1..(Len(requests) + 1)]
  BY <1>3 DEF GateTypeOK
<1>5. [at |-> now, request |-> Len(requests) + 1]
        \in [at : 0..now, request : 1..(Len(requests) + 1)]
  BY <1>1, <1>3
<1>6. hits' \in [Clients -> SUBSET [at : 0..now, request : 1..(Len(requests) + 1)]]
  BY <1>4, <1>5 DEF Allow, Recent, GateTypeOK
<1>7. requests' \in Seq([client : Clients, at : 0..now,
                         status : {200, 400, 401, 403, 404, 413, 429}])
  BY <1>2 DEF GateTypeOK
<1>8. Len(requests') <= MaxRequests
  BY <1>3, GateAssumption
<1> QED BY <1>1, <1>3, <1>6, <1>7, <1>8 DEF GateTypeOK

\* A request that passes adds itself to those of its client, and no other does.
LEMMA PassedGrows ==
  ASSUME GateTypeOK, NEW r, NEW asked, asked = Append(requests, r)
  PROVE  /\ \A c : c # r.client \/ r.status \in {413, 429} =>
                     PassedOf(asked, c) = PassedOf(requests, c)
         /\ r.status \notin {413, 429} =>
              PassedOf(asked, r.client) = PassedOf(requests, r.client) \cup {Len(requests) + 1}
         /\ \A i \in 1..Len(requests) : /\ HitOf(asked, i) = HitOf(requests, i)
                                        /\ PassedIn(asked, i) = PassedIn(requests, i)
         /\ HitOf(asked, Len(requests) + 1) = [at |-> r.at, request |-> Len(requests) + 1]
<1> DEFINE n == Len(requests) + 1
<1>1. /\ Len(requests) \in Nat /\ Len(asked) = n /\ 1..n = (1..Len(requests)) \cup {n}
      /\ n \notin 1..Len(requests)
      /\ \A i \in 1..Len(requests) : asked[i] = requests[i]
      /\ asked[n] = r
  BY RequestAnswered
<1>2. ASSUME NEW i \in 1..Len(requests)
      PROVE  /\ HitOf(asked, i) = HitOf(requests, i)
             /\ PassedIn(asked, i) = PassedIn(requests, i)
  <2>1. i \in 1..Len(requests) /\ 1..(i - 1) \subseteq 1..Len(requests)
    BY <1>1
  <2> QED BY <1>1, <2>1 DEF HitOf, PassedIn
<1>3. HitOf(asked, n) = [at |-> r.at, request |-> n]
  BY <1>1 DEF HitOf
<1> HIDE DEF n
<1>4. \A c : c # r.client \/ r.status \in {413, 429} => PassedOf(asked, c) = PassedOf(requests, c)
  BY <1>1 DEF PassedOf
<1>5. r.status \notin {413, 429} =>
        PassedOf(asked, r.client) = PassedOf(requests, r.client) \cup {n}
  BY <1>1 DEF PassedOf
<1> QED BY <1>2, <1>3, <1>4, <1>5 DEF n

\* The limiter remembers the requests that count after each answer.
LEMMA PostKeepsHits ==
  ASSUME GateTypeOK, GateInv, NEW client \in Clients, NEW status, NEW asked, NEW remembered,
         asked = Append(requests, [client |-> client, at |-> now, status |-> status]),
         \/ status = 413 /\ remembered = hits
         \/ status = 429 /\ remembered = [hits EXCEPT ![client] = Recent(@)]
         \/ /\ status \notin {413, 429}
            /\ remembered = [hits EXCEPT ![client] =
                  Recent(@) \cup {[at |-> now, request |-> Len(requests) + 1]}]
  PROVE  HitsAreRequests(asked, remembered, now)
<1> DEFINE n == Len(requests) + 1
           new == [at |-> now, request |-> n]
<1>1. /\ \A i \in 1..Len(requests) : asked[i] = requests[i]
      /\ asked[n].at = now /\ \A c : PassedOf(requests, c) \subseteq 1..Len(requests)
  BY RequestAnswered DEF PassedOf
<1>2. /\ \A c : c # client \/ status \in {413, 429} => PassedOf(asked, c) = PassedOf(requests, c)
      /\ status \notin {413, 429} => PassedOf(asked, client) = PassedOf(requests, client) \cup {n}
      /\ \A i \in 1..Len(requests) : HitOf(asked, i) = HitOf(requests, i)
      /\ HitOf(asked, n) = new
  <2> DEFINE r == [client |-> client, at |-> now, status |-> status]
  <2>1. r.client = client /\ r.status = status /\ r.at = now
    OBVIOUS
  <2>2. asked = Append(requests, r)
    OBVIOUS
  <2> HIDE DEF r
  <2>3. /\ \A c : c # r.client \/ r.status \in {413, 429} =>
                    PassedOf(asked, c) = PassedOf(requests, c)
        /\ r.status \notin {413, 429} =>
             PassedOf(asked, r.client) = PassedOf(requests, r.client) \cup {Len(requests) + 1}
        /\ \A i \in 1..Len(requests) : /\ HitOf(asked, i) = HitOf(requests, i)
                                       /\ PassedIn(asked, i) = PassedIn(requests, i)
        /\ HitOf(asked, Len(requests) + 1) = [at |-> r.at, request |-> Len(requests) + 1]
    BY <2>2, PassedGrows, Zenon
  <2> QED BY <2>1, <2>3
<1>3. hits \in [Clients -> SUBSET [at : 0..now, request : 1..Len(requests)]]
  BY DEF GateTypeOK
<1>4. \A i : HitOf(requests, i).at = requests[i].at
  BY DEF HitOf
<1> HIDE DEF n, new
<1> SUFFICES ASSUME NEW c \in Clients
             PROVE  /\ \A t \in remembered[c] : \E i \in PassedOf(asked, c) : t = HitOf(asked, i)
                    /\ \A i \in PassedOf(asked, c) :
                         now - asked[i].at < WindowLength => HitOf(asked, i) \in remembered[c]
  BY DEF HitsAreRequests
<1>5. /\ \A t \in hits[c] : \E i \in PassedOf(requests, c) : t = HitOf(requests, i)
      /\ \A i \in PassedOf(requests, c) :
           now - requests[i].at < WindowLength => HitOf(requests, i) \in hits[c]
  BY DEF GateInv, HitsAreRequests
<1>6. CASE c # client \/ status = 413
  <2>1. remembered[c] = hits[c]
    BY <1>3, <1>6
  <2> QED BY <1>1, <1>2, <1>5, <1>6, <2>1
<1>7. CASE c = client /\ status = 429
  <2>1. remembered[c] = Recent(hits[c])
    BY <1>3, <1>7
  <2>2. Recent(hits[c]) \subseteq hits[c]
    BY DEF Recent
  <2>3. \A i \in PassedOf(requests, c) :
          now - requests[i].at < WindowLength => HitOf(requests, i) \in Recent(hits[c])
    BY <1>4, <1>5 DEF Recent
  <2> QED BY <1>1, <1>2, <1>5, <1>7, <2>1, <2>2, <2>3
<1>8. CASE c = client /\ status \notin {413, 429}
  <2>1. remembered[c] = Recent(hits[c]) \cup {new}
    BY <1>3, <1>8 DEF new, n
  <2>2. Recent(hits[c]) \subseteq hits[c]
    BY DEF Recent
  <2>3. \A i \in PassedOf(requests, c) :
          now - requests[i].at < WindowLength => HitOf(requests, i) \in Recent(hits[c])
    BY <1>4, <1>5 DEF Recent
  <2> QED BY <1>1, <1>2, <1>5, <1>8, <2>1, <2>2, <2>3
<1> QED BY <1>6, <1>7, <1>8

\* A request that the limiter sees is refused exactly when its client has passed
\* Limit times in the window.
LEMMA PostKeepsLimit ==
  ASSUME GateTypeOK, GateInv, NEW client \in Clients, NEW status,
         requests' = Append(requests, [client |-> client, at |-> now, status |-> status]),
         status # 413 => (status = 429) = ~Allowed(client)
  PROVE  LimitIsExact'
<1> DEFINE n == Len(requests) + 1
           passed == {j \in PassedOf(requests, client) : now - requests[j].at < WindowLength}
<1>1. /\ Len(requests) \in Nat /\ DOMAIN requests' = (1..Len(requests)) \cup {n}
      /\ DOMAIN requests = 1..Len(requests)
      /\ \A i \in 1..Len(requests) : requests'[i] = requests[i]
      /\ requests'[n].client = client /\ requests'[n].at = now /\ requests'[n].status = status
  BY RequestAnswered
<1>2. \A i \in 1..Len(requests) : PassedIn(requests', i) = PassedIn(requests, i)
  BY PassedGrows, ZenonT(60)
<1>3. PassedIn(requests', n) = passed
  <2>1. n - 1 = Len(requests)
    BY <1>1
  <2> HIDE DEF n
  <2> QED BY <1>1, <2>1 DEF PassedIn, PassedOf
<1>4. Cardinality(Recent(hits[client])) = Cardinality(passed) /\ Cardinality(passed) \in Nat
  BY RecentAreRequests, FS_CardinalityType
<1> HIDE DEF n, passed
<1>5. status # 413 => (status = 429) = (Cardinality(passed) >= Limit)
  BY <1>4, GateAssumption DEF Allowed
<1>6. \A i \in DOMAIN requests' : requests'[i].status # 413 =>
        (requests'[i].status = 429) = (Cardinality(PassedIn(requests', i)) >= Limit)
  BY <1>1, <1>2, <1>3, <1>5, LimitOfHistory DEF GateInv
<1> QED BY <1>6 DEF LimitIsExact, PassedBefore, PassedIn

\* Time passing forgets nothing that still counts.
LEMMA TickKeepsLimit == GateTypeOK /\ GateInv /\ Tick => GateTypeOK' /\ GateInv'
<1> SUFFICES ASSUME GateTypeOK, GateInv, Tick PROVE GateTypeOK' /\ GateInv'
  OBVIOUS
<1>1. /\ now \in Nat /\ now' = now + 1 /\ now' \in 0..MaxTime
      /\ requests' = requests /\ hits' = hits
  BY GateAssumption DEF Tick, GateTypeOK
<1>2. requests \in Seq(Answers(now))
  BY DEF GateTypeOK, Answers
<1>3. GateTypeOK'
  <2>1. Answers(now) \subseteq Answers(now')
    BY <1>1 DEF Answers
  <2>2. requests' \in Seq(Answers(now'))
    BY <1>1, <1>2, <2>1
  <2>3. hits' \in [Clients -> SUBSET [at : 0..now', request : 1..Len(requests')]]
    BY <1>1 DEF GateTypeOK
  <2> QED BY <1>1, <2>2, <2>3 DEF GateTypeOK, Answers
<1>4. \A i \in 1..Len(requests) : requests[i].at \in Nat
  <2>1. \A i \in 1..Len(requests) : requests[i] \in Answers(now)
    BY <1>2
  <2> QED BY <1>1, <2>1 DEF Answers
<1>5. \A i \in 1..Len(requests) :
        now' - requests[i].at < WindowLength => now - requests[i].at < WindowLength
  BY <1>1, <1>4, GateAssumption
<1>6. HitsAreRequests(requests', hits', now')
  BY <1>1, <1>5 DEF GateInv, HitsAreRequests, PassedOf
<1>7. LimitIsExact'
  BY <1>1 DEF GateInv, LimitIsExact, PassedBefore
<1> QED BY <1>3, <1>6, <1>7 DEF GateInv

\* The limit is exact for every client, whatever the order of the requests and
\* the ticks, and whichever key each of them presents.
THEOREM RateLimitIsExact == GateSpec => [](GateTypeOK /\ LimitIsExact)
<1>1. ASSUME GateTypeOK, GateInv, NEW host \in Hosts, NEW key \in Credentials,
             NEW command \in Commands, NEW tooLarge \in BOOLEAN, NEW wellFormed \in BOOLEAN,
             PostCommand(host, key, command, tooLarge, wellFormed)
      PROVE  GateTypeOK' /\ GateInv'
  <2> DEFINE client == ClientOf(host, key)
             status == IF tooLarge THEN 413
                       ELSE IF ~Allowed(client) THEN 429
                       ELSE RouteStatus(key, command, wellFormed)
  <2>1. client \in Clients
    BY ClientType
  <2>2. /\ Len(requests) < MaxRequests /\ now' = now
        /\ requests' = Append(requests, [client |-> client, at |-> now, status |-> status])
        /\ IF tooLarge THEN hits' = hits ELSE Allow(client)
    BY <1>1 DEF PostCommand
  <2>3. /\ status \in {200, 400, 401, 403, 404, 413, 429}
        /\ status # 413 => (status = 429) = ~Allowed(client)
        /\ \/ status = 413 /\ hits' = hits
           \/ status = 429 /\ hits' = [hits EXCEPT ![client] = Recent(@)]
           \/ /\ status \notin {413, 429}
              /\ hits' = [hits EXCEPT ![client] =
                    Recent(@) \cup {[at |-> now, request |-> Len(requests) + 1]}]
    BY <2>2, RouteStatusType DEF Allow
  <2>4. hits' = hits \/ Allow(client)
    BY <2>2
  <2> HIDE DEF client, status
  <2>5. GateTypeOK'
    BY <1>1, <2>1, <2>2, <2>3, <2>4, PostType
  <2>6. HitsAreRequests(requests', hits', now)
    BY <1>1, <2>1, <2>2, <2>3, PostKeepsHits
  <2>7. LimitIsExact'
    BY <1>1, <2>1, <2>2, <2>3, PostKeepsLimit
  <2> QED BY <2>2, <2>5, <2>6, <2>7 DEF GateInv
<1>2. GateTypeOK /\ GateInv /\ [GateNext]_gateVars => GateTypeOK' /\ GateInv'
  <2>1. UNCHANGED gateVars /\ GateTypeOK /\ GateInv => GateTypeOK' /\ GateInv'
    BY DEF gateVars, GateTypeOK, GateInv, LimitIsExact, PassedBefore
  <2> QED BY <1>1, <2>1, TickKeepsLimit DEF GateNext
<1>3. GateInv => LimitIsExact
  BY DEF GateInv
<1> QED BY <1>2, <1>3, InitGate, PTL DEF GateSpec

----------------------------------------------------------------------------
(***************************************************************************)
(* The images of the cards.                                                *)
(***************************************************************************)
\* The subjects cached as missing, the renders that fetch, and those that raced
\* with the fetch that found their subject missing.
MissingIn(known) == {s \in Subjects : known[s] = "missing"}
FetchingIn(at) == {r \in Renders : at[r].pc = "fetching"}
RacingIn(at, known) == {r \in FetchingIn(at) : known[at[r].subject] = "missing"}

\* Every failure counted, and every fetch that can only confirm a cached absence,
\* belongs to a subject cached as missing, one per render.
FailuresAreCached ==
  failures + Cardinality(RacingIn(renders, cache))
    <= Cardinality(Renders) * Cardinality(MissingIn(cache))

BudgetHolds ==
  failures + Cardinality(FetchingIn(renders)) <= FailureBudget + Cardinality(Renders) - 1

ImageInv == BudgetHolds /\ FailuresAreCached

\* Sets of renders are finite and never larger than Renders; so are those of subjects.
LEMMA RendersAreFinite ==
  /\ Cardinality(Renders) \in Nat
  /\ \A at : /\ IsFiniteSet(FetchingIn(at)) /\ Cardinality(FetchingIn(at)) \in Nat
             /\ Cardinality(FetchingIn(at)) <= Cardinality(Renders)
  /\ \A at, known : /\ IsFiniteSet(RacingIn(at, known)) /\ Cardinality(RacingIn(at, known)) \in Nat
                    /\ Cardinality(RacingIn(at, known)) <= Cardinality(Renders)
  /\ \A known : IsFiniteSet(MissingIn(known)) /\ Cardinality(MissingIn(known)) \in Nat
<1>1. IsFiniteSet(Renders) /\ IsFiniteSet(Subjects)
  BY ImageAssumption
<1>2. \A at : FetchingIn(at) \in SUBSET Renders
  BY DEF FetchingIn
<1>3. \A at, known : RacingIn(at, known) \in SUBSET Renders
  BY DEF FetchingIn, RacingIn
<1>4. \A known : MissingIn(known) \in SUBSET Subjects
  BY DEF MissingIn
<1>5. \A T \in SUBSET Renders : /\ IsFiniteSet(T) /\ Cardinality(T) \in Nat
                                /\ Cardinality(T) <= Cardinality(Renders)
  BY <1>1, FS_Subset, FS_CardinalityType
<1>6. \A T \in SUBSET Subjects : IsFiniteSet(T) /\ Cardinality(T) \in Nat
  BY <1>1, FS_Subset, FS_CardinalityType
<1> QED BY <1>1, <1>2, <1>3, <1>4, <1>5, <1>6, FS_CardinalityType

\* The provider starts empty, and no render has begun.
LEMMA InitImages == ImageInit => ImageTypeOK /\ ImageInv
<1> SUFFICES ASSUME ImageInit PROVE ImageTypeOK /\ ImageInv
  OBVIOUS
<1>1. ImageTypeOK
  BY DEF ImageInit, ImageTypeOK, AtStart, Pictures
<1>2. FetchingIn(renders) = {} /\ RacingIn(renders, cache) = {} /\ MissingIn(cache) = {}
  BY DEF ImageInit, AtStart, FetchingIn, RacingIn, MissingIn
<1>3. failures = 0 /\ Cardinality({}) = 0
  BY FS_EmptySet DEF ImageInit
<1> QED
  BY <1>1, <1>2, <1>3, RendersAreFinite, ImageAssumption DEF ImageInv, BudgetHolds, FailuresAreCached

\* The provider's state keeps its shape.
LEMMA NextImageType == ImageTypeOK /\ [ImageNext]_imageVars => ImageTypeOK'
<1> SUFFICES ASSUME ImageTypeOK, [ImageNext]_imageVars PROVE ImageTypeOK'
  OBVIOUS
<1> USE DEF ImageTypeOK
<1>1. ASSUME NEW r \in Renders, FetchReturns(r) PROVE ImageTypeOK'
  <2>1. renders[r].subject \in Subjects
    BY <1>1 DEF FetchReturns
  <2> QED BY <1>1, <2>1 DEF FetchReturns, Resting, Pictures
<1>2. ASSUME NEW r \in Renders, NEW s \in Subjects, StartRender(r, s) PROVE ImageTypeOK'
  BY <1>2 DEF StartRender, Resting, Pictures
<1>3. ASSUME NEW s \in Subjects, PutOverride(s) \/ DeleteOverride(s) PROVE ImageTypeOK'
  BY <1>3 DEF PutOverride, DeleteOverride
<1>4. ASSUME NEW images \in SUBSET Subjects, HostChanges(images) PROVE ImageTypeOK'
  BY <1>4 DEF HostChanges
<1>5. CASE UNCHANGED imageVars
  BY <1>5 DEF imageVars
<1> QED BY <1>1, <1>2, <1>3, <1>4, <1>5 DEF ImageNext

\* A render that starts a fetch found the circuit closed and its subject unknown.
LEMMA StartKeepsBudget ==
  ASSUME ImageTypeOK, ImageInv, NEW r \in Renders, NEW s \in Subjects, StartRender(r, s)
  PROVE  ImageInv'
<1>1. failures' = failures /\ cache' = cache /\ failures \in Nat
  BY DEF StartRender, ImageTypeOK
<1>2. RacingIn(renders', cache) = RacingIn(renders, cache)
  BY DEF StartRender, ImageTypeOK, Resting, RacingIn, FetchingIn
<1>3. \/ FetchingIn(renders') = FetchingIn(renders)
      \/ failures < FailureBudget
  BY ImageAssumption DEF StartRender, ImageTypeOK, Resting, FetchingIn, OpenCircuit
<1>4. BudgetHolds'
  <2>1. failures + Cardinality(FetchingIn(renders')) <= FailureBudget + Cardinality(Renders) - 1
    BY <1>1, <1>3, RendersAreFinite, ImageAssumption DEF ImageInv, BudgetHolds
  <2> QED BY <1>1, <2>1 DEF BudgetHolds
<1>5. FailuresAreCached'
  BY <1>1, <1>2 DEF ImageInv, FailuresAreCached
<1> QED BY <1>4, <1>5 DEF ImageInv

\* The arithmetic of one more subject per render.
LEMMA OneMoreSubject ==
  ASSUME NEW n \in Nat, NEW m \in Nat
  PROVE  n * m \in Nat /\ n * (m + 1) = n * m + n
OBVIOUS

\* A fetch that ends leaves one render less on its way; a failure is counted once
\* and a success starts the count afresh.
LEMMA FetchKeepsBudget ==
  ASSUME ImageTypeOK, ImageInv, NEW r \in Renders, FetchReturns(r)
  PROVE  ImageInv'
<1> DEFINE s == renders[r].subject
           F == FetchingIn(renders)
           W == RacingIn(renders, cache)
           M == MissingIn(cache)
           R == Cardinality(Renders)
<1>1. r \in F /\ s \in Subjects /\ failures \in Nat
  BY DEF FetchReturns, ImageTypeOK, FetchingIn
<1>2. FetchingIn(renders') = F \ {r} /\ \A q \in F \ {r} : renders'[q] = renders[q]
  BY DEF FetchReturns, ImageTypeOK, FetchingIn, Resting
<1>3. failures' = 0 \/ failures' = failures + 1
  BY DEF FetchReturns
<1>4. R \in Nat /\ F \subseteq Renders
  BY RendersAreFinite DEF FetchingIn
<1>5. /\ Cardinality(F) \in Nat /\ Cardinality(W) \in Nat /\ Cardinality(M) \in Nat
      /\ IsFiniteSet(F) /\ IsFiniteSet(W) /\ IsFiniteSet(M)
  BY RendersAreFinite
<1>6. BudgetHolds'
  <2>1. Cardinality(F \ {r}) = Cardinality(F) - 1
    BY <1>1, <1>5, FS_RemoveElement
  <2>2. failures' + Cardinality(F \ {r}) <= FailureBudget + R - 1
    BY <1>1, <1>3, <1>4, <1>5, <2>1, ImageAssumption DEF ImageInv, BudgetHolds
  <2> QED BY <1>2, <2>2 DEF BudgetHolds
<1>7. failures + Cardinality(W) <= R * Cardinality(M)
  BY DEF ImageInv, FailuresAreCached
<1>8. failures' + Cardinality(RacingIn(renders', cache')) <= R * Cardinality(MissingIn(cache'))
  <2> DEFINE W2 == RacingIn(renders', cache')
             M2 == MissingIn(cache')
  <2>1. /\ Cardinality(W2) \in Nat /\ Cardinality(W2) <= R /\ IsFiniteSet(W2)
        /\ Cardinality(M2) \in Nat /\ IsFiniteSet(M2)
    BY RendersAreFinite
  <2>2. cache \in [Subjects -> {"absent", "missing", "image"}]
    BY DEF ImageTypeOK
  <2>3. \A q \in F : renders[q].subject \in Subjects
    BY DEF ImageTypeOK, FetchingIn
  <2>4. CASE s \in served
    <3>1. failures' = 0
      BY <2>4 DEF FetchReturns
    <3>2. CASE M2 = {}
      <4>1. W2 = {}
        BY <1>2, <2>3, <3>2 DEF RacingIn, MissingIn
      <4> QED BY <1>4, <2>1, <3>1, <3>2, <4>1, FS_EmptySet
    <3>3. CASE M2 # {}
      <4>1. Cardinality(M2) \in Nat \ {0}
        BY <2>1, <3>3, FS_EmptySet
      <4>2. PICK m \in Nat : Cardinality(M2) = m + 1
        BY <4>1
      <4>3. R * (m + 1) = R * m + R /\ R * m \in Nat
        BY <1>4, OneMoreSubject
      <4> QED BY <1>4, <2>1, <3>1, <4>2, <4>3
    <3> QED BY <3>2, <3>3
  <2>5. CASE s \notin served
    <3>1. failures' = failures + 1 /\ cache' = [cache EXCEPT ![s] = "missing"]
      BY <2>5 DEF FetchReturns
    <3>2. CASE cache[s] = "missing"
      <4>1. cache' = cache
        BY <1>1, <2>2, <3>1, <3>2
      <4>2. W2 = W \ {r} /\ r \in W
        BY <1>1, <1>2, <3>2, <4>1 DEF RacingIn
      <4>3. Cardinality(W2) = Cardinality(W) - 1
        BY <1>5, <4>2, FS_RemoveElement
      <4> QED BY <1>1, <1>4, <1>5, <1>7, <3>1, <4>1, <4>3, OneMoreSubject
    <3>3. CASE cache[s] # "missing"
      <4>1. M2 = M \cup {s} /\ s \notin M
        BY <1>1, <2>2, <3>1, <3>3 DEF MissingIn
      <4>2. Cardinality(M2) = Cardinality(M) + 1
        BY <1>5, <4>1, FS_AddElement
      <4>3. W2 \subseteq W \cup (Renders \ {r})
        BY <1>2, <1>4 DEF RacingIn
      <4>4. IsFiniteSet(Renders \ {r}) /\ Cardinality(Renders \ {r}) = R - 1
        BY ImageAssumption, FS_RemoveElement
      <4>5. \A q \in W2 : q \in W \/ q \in Renders \ {r}
        BY <4>3
      <4>6. Cardinality(W \cup (Renders \ {r})) <= Cardinality(W) + (R - 1)
        <5>1. IsFiniteSet(W \cap (Renders \ {r}))
          BY <1>5, FS_Subset
        <5>2. Cardinality(W \cap (Renders \ {r})) \in Nat
          BY <5>1, FS_CardinalityType
        <5>3. Cardinality(W \cup (Renders \ {r}))
                = Cardinality(W) + Cardinality(Renders \ {r}) - Cardinality(W \cap (Renders \ {r}))
          BY <1>5, <4>4, FS_Union
        <5> HIDE DEF W, R
        <5> QED BY <1>4, <1>5, <4>4, <5>2, <5>3
      <4>7. Cardinality(W2) <= Cardinality(W \cup (Renders \ {r}))
        <5>1. IsFiniteSet(W \cup (Renders \ {r}))
          BY <1>5, <4>4, FS_Union
        <5> QED BY <4>3, <5>1, FS_Subset
      <4>8. Cardinality(W \cup (Renders \ {r})) \in Nat
        BY <1>5, <4>4, FS_Union, FS_CardinalityType
      <4>9. R * Cardinality(M2) = R * Cardinality(M) + R /\ R * Cardinality(M) \in Nat
        BY <1>4, <1>5, <4>2, OneMoreSubject
      <4>10. failures + 1 + Cardinality(W2) <= R * Cardinality(M) + R
        <5> HIDE DEF W, W2, M, M2, R
        <5> QED BY <1>1, <1>4, <1>5, <1>7, <2>1, <4>6, <4>7, <4>8, <4>9
      <4> QED BY <3>1, <4>9, <4>10
    <3> QED BY <3>2, <3>3
  <2> QED BY <2>4, <2>5
<1>9. FailuresAreCached'
  BY <1>8 DEF FailuresAreCached
<1> QED BY <1>6, <1>9 DEF ImageInv

\* The budget holds and bounds the fetches, whatever else the processes do or not.
LEMMA TimeoutsInvariant ==
  ImageInit /\ [][ImageNext]_imageVars => [](ImageTypeOK /\ TimeoutsAreBounded)
<1>1. ImageTypeOK /\ ImageInv /\ [ImageNext]_imageVars => ImageInv'
  <2> SUFFICES ASSUME ImageTypeOK, ImageInv, [ImageNext]_imageVars PROVE ImageInv'
    OBVIOUS
  <2>1. ASSUME UNCHANGED <<cache, failures, renders>> PROVE ImageInv'
    BY <2>1 DEF ImageInv, BudgetHolds, FailuresAreCached
  <2>2. ASSUME NEW s \in Subjects, PutOverride(s) \/ DeleteOverride(s)
        PROVE  UNCHANGED <<cache, failures, renders>>
    BY <2>2 DEF PutOverride, DeleteOverride
  <2>3. ASSUME NEW images \in SUBSET Subjects, HostChanges(images)
        PROVE  UNCHANGED <<cache, failures, renders>>
    BY <2>3 DEF HostChanges
  <2>4. UNCHANGED imageVars => UNCHANGED <<cache, failures, renders>>
    BY DEF imageVars
  <2> QED BY <2>1, <2>2, <2>3, <2>4, StartKeepsBudget, FetchKeepsBudget DEF ImageNext
<1>2. ImageTypeOK /\ ImageInv => TimeoutsAreBounded
  <2> SUFFICES ASSUME ImageTypeOK, ImageInv PROVE TimeoutsAreBounded
    OBVIOUS
  <2>1. FetchingIn(renders) = Fetching /\ MissingIn(cache) = {s \in Subjects : cache[s] = "missing"}
    BY DEF FetchingIn, Fetching, MissingIn
  <2>2. /\ Cardinality(RacingIn(renders, cache)) \in Nat /\ Cardinality(MissingIn(cache)) \in Nat
        /\ Cardinality(Renders) \in Nat /\ failures \in Nat
    BY RendersAreFinite DEF ImageTypeOK
  <2>3. Cardinality(Renders) * Cardinality(MissingIn(cache)) \in Nat
    BY <2>2, OneMoreSubject
  <2>4. failures <= Cardinality(Renders) * Cardinality(MissingIn(cache))
    BY <2>2, <2>3 DEF ImageInv, FailuresAreCached
  <2> QED BY <2>1, <2>4 DEF ImageInv, BudgetHolds, TimeoutsAreBounded
<1> QED BY <1>1, <1>2, InitImages, NextImageType, PTL

\* The fetches that time out are bounded for every number of renders and every
\* budget, whatever the host serves and whenever it changes.
THEOREM TimeoutsStayBounded == ImageSpec => [](ImageTypeOK /\ TimeoutsAreBounded)
BY TimeoutsInvariant, PTL DEF ImageSpec

----------------------------------------------------------------------------
(***************************************************************************)
(* The media library.                                                      *)
(***************************************************************************)
\* A promotion remembers a photo that was uploaded, and its owner.
PromotesOwnPhoto ==
  \A q \in Operators : ops[q].pc \in {"demote", "promote"} =>
    /\ ops[q].photo <= uploads
    /\ photos[ops[q].photo] # NoPhoto => photos[ops[q].photo].owner = ops[q].owner

\* What the owner's requests may rely on as long as no two of them overlapped: at
\* most one primary; an upload that will insert a primary is the owner's first
\* photo; after the first UPDATE of a promotion only its photo can be primary.
Orderly(table, asked, o) ==
  /\ \A a, b \in PrimariesOf(table, o) : a = b
  /\ \A q \in Operators : asked[q].pc = "insert" /\ asked[q].owner = o /\ asked[q].role = "primary"
        => PhotosOf(table, o) = {}
  /\ \A q \in Operators : asked[q].pc = "promote" /\ asked[q].owner = o
        => PrimariesOf(table, o) \subseteq {asked[q].photo}

MediaInv == PromotesOwnPhoto /\ \A o \in Owners \ raced : Orderly(photos, ops, o)

\* A row that is a photo is not the absent row.
LEMMA PhotosArePhotos ==
  /\ \A x \in Photo : x # NoPhoto /\ x.role # "none" /\ x.owner \in Owners /\ x.role \in Roles
  /\ NoPhoto.role = "none" /\ NoPhoto \notin Photo
BY DEF Photo, NoPhoto, Roles

\* The requests at rest are exactly the idle ones.
LEMMA RequestShape ==
  ASSUME MediaTypeOK, NEW q \in Operators
  PROVE  /\ ops[q] = AtRest <=> ops[q].pc = "idle"
         /\ ops[q].pc = "insert" =>
              /\ ops[q].owner \in Owners /\ ops[q].role \in Roles /\ ops[q].approved \in BOOLEAN
         /\ ops[q].pc \in {"demote", "promote"} =>
              /\ ops[q] \in [pc : {"demote", "promote"}, owner : Owners, photo : PhotoIds]
              /\ ops[q].owner \in Owners /\ ops[q].photo \in PhotoIds
BY DEF MediaTypeOK, AtRest

\* The library starts empty.
LEMMA InitMedia == MediaInit => MediaTypeOK /\ MediaInv
BY MediaAssumption DEF MediaInit, MediaTypeOK, MediaInv, PromotesOwnPhoto, Orderly,
   PhotosOf, PrimariesOf, AtRest, NoPhoto

\* The rows and the requests keep their shape.
LEMMA NextMediaType == MediaTypeOK /\ [MediaNext]_mediaVars => MediaTypeOK'
<1> SUFFICES ASSUME MediaTypeOK, [MediaNext]_mediaVars PROVE MediaTypeOK'
  OBVIOUS
<1>1. /\ photos \in [PhotoIds -> Photo \cup {NoPhoto}] /\ uploads \in 0..MaxPhotos
      /\ \A a \in PhotoIds : a > uploads => photos[a] = NoPhoto
      /\ raced \subseteq Owners /\ MaxPhotos \in Nat
  BY MediaAssumption DEF MediaTypeOK
<1>2. ASSUME NEW q \in Operators, NEW o \in Owners, NEW approved \in BOOLEAN,
             BeginUpload(q, o, approved)
      PROVE  MediaTypeOK'
  BY <1>2 DEF BeginUpload, RoleOfUpload, MediaTypeOK, Roles
<1>3. ASSUME NEW q \in Operators, InsertPhoto(q) PROVE MediaTypeOK'
  <2>1. /\ ops[q].owner \in Owners /\ ops[q].role \in Roles /\ ops[q].approved \in BOOLEAN
        /\ uploads < MaxPhotos
    BY <1>3, RequestShape DEF InsertPhoto
  <2>2. uploads + 1 \in PhotoIds
    BY <1>1, <2>1 DEF PhotoIds
  <2>3. [owner |-> ops[q].owner, role |-> ops[q].role, approved |-> ops[q].approved] \in Photo
    BY <2>1 DEF Photo
  <2>4. photos' \in [PhotoIds -> Photo \cup {NoPhoto}]
    BY <1>1, <1>3, <2>2, <2>3 DEF InsertPhoto
  <2>5. uploads' \in 0..MaxPhotos /\ uploads' = uploads + 1
    BY <1>1, <1>3, <2>1 DEF InsertPhoto
  <2>6. \A a \in PhotoIds : a > uploads' => photos'[a] = NoPhoto
    BY <1>1, <1>3, <2>2, <2>5 DEF InsertPhoto, PhotoIds
  <2>7. raced' \subseteq Owners
    BY <1>1, <1>3, <2>1 DEF InsertPhoto, Races
  <2>8. ops' = [ops EXCEPT ![q] = AtRest]
    BY <1>3 DEF InsertPhoto
  <2> QED BY <2>4, <2>5, <2>6, <2>7, <2>8 DEF MediaTypeOK
<1>4. ASSUME NEW q \in Operators, NEW a \in PhotoIds, BeginPromote(q, a) PROVE MediaTypeOK'
  <2>1. photos[a].owner \in Owners
    BY <1>1, <1>4, PhotosArePhotos DEF BeginPromote
  <2> QED BY <1>4, <2>1 DEF BeginPromote, MediaTypeOK
<1>5. ASSUME NEW q \in Operators, Demote(q) PROVE MediaTypeOK'
  <2>1. ops[q] \in [pc : {"demote", "promote"}, owner : Owners, photo : PhotoIds]
    BY <1>5, RequestShape DEF Demote
  <2>2. \A a \in PhotoIds : /\ photos'[a] \in Photo \cup {NoPhoto}
                            /\ photos[a] = NoPhoto => photos'[a] = NoPhoto
    BY <1>1, <1>5 DEF Demote, Photo, Roles, NoPhoto, PrimariesOf, PhotosOf
  <2>3. photos' \in [PhotoIds -> Photo \cup {NoPhoto}]
    BY <1>5, <2>2 DEF Demote
  <2>4. ops' \in [Operators -> {AtRest}
          \cup [pc : {"insert"}, owner : Owners, role : Roles, approved : BOOLEAN]
          \cup [pc : {"demote", "promote"}, owner : Owners, photo : PhotoIds]]
    BY <1>5, <2>1 DEF Demote, MediaTypeOK
  <2>5. raced' \subseteq Owners
    BY <1>1, <1>5, <2>1 DEF Demote, Races
  <2> QED BY <1>1, <1>5, <2>2, <2>3, <2>4, <2>5 DEF Demote, MediaTypeOK
<1>6. ASSUME NEW q \in Operators, Promote(q) PROVE MediaTypeOK'
  <2>1. ops[q].owner \in Owners /\ ops[q].photo \in PhotoIds
    BY <1>6, RequestShape DEF Promote
  <2>2. \A a \in PhotoIds : /\ photos'[a] \in Photo \cup {NoPhoto}
                            /\ photos[a] = NoPhoto => photos'[a] = NoPhoto
    BY <1>1, <1>6, <2>1 DEF Promote, Photo, Roles
  <2>3. photos' \in [PhotoIds -> Photo \cup {NoPhoto}]
    <3>1. photos' = [a \in PhotoIds |-> photos'[a]]
      BY <1>1, <1>6, <2>1 DEF Promote
    <3> QED BY <2>2, <3>1
  <2>4. ops' = [ops EXCEPT ![q] = AtRest] /\ uploads' = uploads
    BY <1>6 DEF Promote
  <2>5. raced' \subseteq Owners
    BY <1>1, <1>6, <2>1 DEF Promote, Races
  <2> QED BY <1>1, <2>2, <2>3, <2>4, <2>5 DEF MediaTypeOK
<1>7. ASSUME NEW q \in Operators, AbandonRequest(q) PROVE MediaTypeOK'
  BY <1>7 DEF AbandonRequest, MediaTypeOK
<1>8. ASSUME NEW q \in Operators, NEW a \in PhotoIds, NEW approved \in BOOLEAN,
             SetApproved(q, a, approved)
      PROVE  MediaTypeOK'
  <2>1. photos[a] \in Photo
    BY <1>1, <1>8 DEF SetApproved
  <2>2. [photos[a] EXCEPT !.approved = approved] \in Photo
    BY <2>1 DEF Photo
  <2> QED BY <1>8, <2>1, <2>2, PhotosArePhotos DEF SetApproved, MediaTypeOK
<1>9. ASSUME NEW q \in Operators, NEW a \in PhotoIds, DeletePhoto(q, a) PROVE MediaTypeOK'
  BY <1>9 DEF DeletePhoto, MediaTypeOK
<1>10. CASE UNCHANGED mediaVars
  BY <1>10 DEF mediaVars, MediaTypeOK
<1> QED BY <1>2, <1>3, <1>4, <1>5, <1>6, <1>7, <1>8, <1>9, <1>10 DEF MediaNext

\* A photo that a step leaves alone, or of another owner, changes no owner's lists.
LEMMA SameLists ==
  ASSUME MediaTypeOK, NEW table, NEW o, NEW c,
         \A a \in PhotoIds : a # c => table[a] = photos[a],
         photos[c] # NoPhoto => photos[c].owner # o,
         table[c] # NoPhoto => table[c].owner # o
  PROVE  PhotosOf(table, o) = PhotosOf(photos, o) /\ PrimariesOf(table, o) = PrimariesOf(photos, o)
<1>1. PhotosOf(table, o) = PhotosOf(photos, o)
  BY DEF PhotosOf
<1> QED BY <1>1 DEF PrimariesOf, PhotosOf

\* Requests that keep nothing, or a promotion that has not written yet, rely on nothing.
LEMMA FewerRequests ==
  ASSUME NEW table, NEW asked, NEW kept, NEW o, Orderly(table, asked, o),
         \A q \in Operators : kept[q] = asked[q] \/ kept[q].pc \in {"idle", "demote"}
  PROVE  Orderly(table, kept, o)
BY DEF Orderly

\* A write that does not race is the only request for its owner.
LEMMA AloneUnlessRaced ==
  ASSUME MediaTypeOK, NEW q \in Operators, NEW w, Races(q, w)
  PROVE  /\ raced \subseteq raced'
         /\ w \notin raced' => \A r \in Operators \ {q} : ops[r].pc = "idle" \/ ops[r].owner # w
BY DEF Races, Busy

\* An upload ends: the photo is new, and primary only if the owner had none.
LEMMA InsertKeepsOrder ==
  ASSUME MediaTypeOK, MediaInv, NEW q \in Operators, InsertPhoto(q)
  PROVE  MediaInv'
<1> DEFINE n == uploads + 1
           w == ops[q].owner
<1>1. /\ n \in PhotoIds /\ uploads \in Nat /\ uploads' = n /\ photos[n] = NoPhoto
      /\ ops[q].pc = "insert" /\ w \in Owners /\ ops[q].role \in Roles
      /\ ops[q].approved \in BOOLEAN
  BY MediaAssumption, RequestShape DEF InsertPhoto, MediaTypeOK, PhotoIds
<1>2. /\ \A a \in PhotoIds : a # n => photos'[a] = photos[a]
      /\ photos'[n] \in Photo /\ photos'[n].owner = w /\ photos'[n].role = ops[q].role
  BY <1>1 DEF InsertPhoto, MediaTypeOK, Photo
<1>3. /\ \A r \in Operators \ {q} : ops'[r] = ops[r]
      /\ ops'[q].pc = "idle"
  BY DEF InsertPhoto, MediaTypeOK, AtRest
<1>4. /\ raced \subseteq raced'
      /\ w \notin raced' => \A r \in Operators \ {q} : ops[r].pc = "idle" \/ ops[r].owner # w
  BY AloneUnlessRaced DEF InsertPhoto
<1> HIDE DEF n, w
<1>5. PromotesOwnPhoto'
  <2> SUFFICES ASSUME NEW r \in Operators, ops'[r].pc \in {"demote", "promote"}
               PROVE  /\ ops'[r].photo <= uploads'
                      /\ photos'[ops'[r].photo] # NoPhoto =>
                           photos'[ops'[r].photo].owner = ops'[r].owner
    BY DEF PromotesOwnPhoto
  <2>1. r # q /\ ops'[r] = ops[r] /\ ops[r].photo \in PhotoIds
    BY <1>3, RequestShape
  <2>2. ops[r].photo <= uploads /\ ops[r].photo # n /\ ops[r].photo \in Nat
    BY <1>1, <2>1 DEF MediaInv, PromotesOwnPhoto, PhotoIds, n
  <2>3. uploads' = uploads + 1
    BY <1>1 DEF n
  <2> QED BY <1>1, <1>2, <2>1, <2>2, <2>3 DEF MediaInv, PromotesOwnPhoto
<1>6. ASSUME NEW o \in Owners \ raced' PROVE Orderly(photos', ops', o)
  <2>1. Orderly(photos, ops, o)
    BY <1>4, <1>6 DEF MediaInv
  <2>2. CASE o # w
    <3>1. PhotosOf(photos', o) = PhotosOf(photos, o) /\ PrimariesOf(photos', o) = PrimariesOf(photos, o)
      BY <1>1, <1>2, <2>2, SameLists
    <3> QED BY <1>3, <2>1, <3>1 DEF Orderly
  <2>3. CASE o = w
    <3>1. \A r \in Operators : ops'[r].pc = "idle" \/ ops'[r].owner # o
      BY <1>3, <1>4, <2>3
    <3>2. \A a, b \in PrimariesOf(photos', o) : a = b
      <4>1. CASE ops[q].role = "primary"
        <5>1. PhotosOf(photos, o) = {}
          BY <1>1, <2>1, <2>3, <4>1 DEF Orderly, w
        <5>2. \A a \in PhotosOf(photos', o) : a = n
          BY <1>2, <5>1 DEF PhotosOf
        <5> QED BY <5>2 DEF PrimariesOf
      <4>2. CASE ops[q].role # "primary"
        <5>1. \A a \in PrimariesOf(photos', o) : a # n
          BY <1>2, <4>2 DEF PrimariesOf
        <5>2. \A a \in PrimariesOf(photos', o) : a \in PrimariesOf(photos, o)
          BY <1>2, <5>1 DEF PrimariesOf, PhotosOf
        <5> QED BY <2>1, <5>2 DEF Orderly
      <4> QED BY <4>1, <4>2
    <3> QED BY <3>1, <3>2 DEF Orderly
  <2> QED BY <2>2, <2>3
<1> QED BY <1>5, <1>6 DEF MediaInv

\* The first UPDATE of a promotion leaves no other primary.
LEMMA DemoteKeepsOrder ==
  ASSUME MediaTypeOK, MediaInv, NEW q \in Operators, Demote(q)
  PROVE  MediaInv'
<1> DEFINE w == ops[q].owner
           p == ops[q].photo
<1>1. /\ ops[q].pc = "demote" /\ w \in Owners /\ p \in PhotoIds /\ uploads' = uploads
      /\ ops[q] \in [pc : {"demote", "promote"}, owner : Owners, photo : PhotoIds]
  BY RequestShape DEF Demote
<1>2. \A a \in PhotoIds :
        /\ a \in PrimariesOf(photos, w) \ {p} =>
             /\ photos'[a] \in Photo /\ photos'[a].role = "alternate"
             /\ photos'[a].owner = photos[a].owner /\ photos[a] # NoPhoto
        /\ a \notin PrimariesOf(photos, w) \ {p} => photos'[a] = photos[a]
  <2>1. \A a \in PrimariesOf(photos, w) : photos[a] \in Photo
    BY DEF MediaTypeOK, PrimariesOf, PhotosOf
  <2>2. \A a \in PhotoIds :
          photos'[a] = IF a \in PrimariesOf(photos, w) \ {p}
                       THEN [photos[a] EXCEPT !.role = "alternate"] ELSE photos[a]
    BY DEF Demote
  <2> HIDE DEF w, p
  <2>3. ASSUME NEW a \in PhotoIds, a \in PrimariesOf(photos, w)
        PROVE  /\ [photos[a] EXCEPT !.role = "alternate"] \in Photo
               /\ [photos[a] EXCEPT !.role = "alternate"].role = "alternate"
               /\ [photos[a] EXCEPT !.role = "alternate"].owner = photos[a].owner
               /\ photos[a] # NoPhoto
    BY <2>1, <2>3, PhotosArePhotos DEF Photo, Roles
  <2> QED BY <2>2, <2>3
<1>3. /\ \A r \in Operators \ {q} : ops'[r] = ops[r]
      /\ ops'[q].pc = "promote" /\ ops'[q].owner = w /\ ops'[q].photo = p
  BY <1>1 DEF Demote, MediaTypeOK
<1>4. /\ raced \subseteq raced'
      /\ w \notin raced' => \A r \in Operators \ {q} : ops[r].pc = "idle" \/ ops[r].owner # w
  BY AloneUnlessRaced DEF Demote
<1>5. \A a \in PhotoIds : photos'[a] # NoPhoto =>
         photos[a] # NoPhoto /\ photos'[a].owner = photos[a].owner
  BY <1>2
<1>6. PromotesOwnPhoto'
  <2> SUFFICES ASSUME NEW r \in Operators, ops'[r].pc \in {"demote", "promote"}
               PROVE  /\ ops'[r].photo <= uploads'
                      /\ photos'[ops'[r].photo] # NoPhoto =>
                           photos'[ops'[r].photo].owner = ops'[r].owner
    BY DEF PromotesOwnPhoto
  <2>1. /\ ops[r].pc \in {"demote", "promote"} /\ ops'[r].photo = ops[r].photo
        /\ ops'[r].owner = ops[r].owner
    BY <1>1, <1>3
  <2>2. ops[r].photo \in PhotoIds
    BY <2>1, RequestShape
  <2> QED BY <1>1, <1>5, <2>1, <2>2 DEF MediaInv, PromotesOwnPhoto
<1> HIDE DEF w, p
<1>7. ASSUME NEW o \in Owners \ raced' PROVE Orderly(photos', ops', o)
  <2>1. Orderly(photos, ops, o)
    BY <1>4, <1>7 DEF MediaInv
  <2>2. CASE o # w
    <3>1. \A a \in PhotoIds : a \in PhotosOf(photos', o) \/ a \in PhotosOf(photos, o) =>
              photos'[a] = photos[a]
      BY <1>2, <1>5, <2>2 DEF PrimariesOf, PhotosOf
    <3>2. PhotosOf(photos', o) = PhotosOf(photos, o)
      BY <3>1 DEF PhotosOf
    <3>3. PrimariesOf(photos', o) = PrimariesOf(photos, o)
      BY <3>1, <3>2 DEF PrimariesOf, PhotosOf
    <3> QED BY <1>3, <2>1, <2>2, <3>2, <3>3 DEF Orderly
  <2>3. CASE o = w
    <3>1. \A r \in Operators \ {q} : ops'[r].pc = "idle" \/ ops'[r].owner # o
      BY <1>3, <1>4, <1>7, <2>3
    <3>2. \A a \in PrimariesOf(photos', o) : a = p
      BY <1>2, <2>3 DEF PrimariesOf, PhotosOf
    <3> QED BY <1>3, <3>1, <3>2 DEF Orderly
  <2> QED BY <2>2, <2>3
<1> QED BY <1>6, <1>7 DEF MediaInv

\* The second UPDATE writes the promotion's own photo, or no row.
LEMMA PromoteKeepsOrder ==
  ASSUME MediaTypeOK, MediaInv, NEW q \in Operators, Promote(q)
  PROVE  /\ MediaInv'
         /\ ops[q].owner \notin raced' /\ photos' # photos =>
              PrimariesOf(photos', ops[q].owner) = {ops[q].photo}
<1> DEFINE w == ops[q].owner
           p == ops[q].photo
<1>1. ops[q].pc = "promote" /\ w \in Owners /\ p \in PhotoIds /\ uploads' = uploads
  BY RequestShape DEF Promote
<1>2. /\ \A a \in PhotoIds : a # p => photos'[a] = photos[a]
      /\ photos[p] = NoPhoto => photos' = photos
      /\ photos[p] # NoPhoto => /\ photos'[p] # NoPhoto /\ photos'[p].owner = photos[p].owner
                                /\ photos'[p].role = "primary"
  <2>1. photos[p] # NoPhoto => photos[p] \in Photo
    BY <1>1 DEF MediaTypeOK
  <2> HIDE DEF p
  <2>2. photos \in [PhotoIds -> Photo \cup {NoPhoto}]
    BY DEF MediaTypeOK
  <2>3. photos' = IF photos[p] = NoPhoto THEN photos
                  ELSE [photos EXCEPT ![p].role = "primary"]
    BY DEF Promote, p
  <2> QED BY <1>1, <2>1, <2>2, <2>3 DEF Photo, NoPhoto
<1>3. /\ \A r \in Operators \ {q} : ops'[r] = ops[r]
      /\ ops'[q].pc = "idle"
  BY DEF Promote, MediaTypeOK, AtRest
<1>4. /\ raced \subseteq raced'
      /\ w \notin raced' => \A r \in Operators \ {q} : ops[r].pc = "idle" \/ ops[r].owner # w
  BY AloneUnlessRaced DEF Promote
<1>5. photos[p] # NoPhoto => photos[p].owner = w
  BY <1>1 DEF MediaInv, PromotesOwnPhoto
<1> HIDE DEF w, p
<1>6. \A a \in PhotoIds : photos'[a] # NoPhoto =>
         photos[a] # NoPhoto /\ photos'[a].owner = photos[a].owner
  BY <1>2
<1>7. PromotesOwnPhoto'
  <2> SUFFICES ASSUME NEW r \in Operators, ops'[r].pc \in {"demote", "promote"}
               PROVE  /\ ops'[r].photo <= uploads'
                      /\ photos'[ops'[r].photo] # NoPhoto =>
                           photos'[ops'[r].photo].owner = ops'[r].owner
    BY DEF PromotesOwnPhoto
  <2>1. ops'[r] = ops[r] /\ ops[r].photo \in PhotoIds
    BY <1>3, RequestShape
  <2> QED BY <1>1, <1>6, <2>1 DEF MediaInv, PromotesOwnPhoto
<1>8. w \notin raced' => \A a \in PrimariesOf(photos', w) : a = p
  <2> SUFFICES ASSUME w \notin raced' PROVE \A a \in PrimariesOf(photos', w) : a = p
    OBVIOUS
  <2>1. PrimariesOf(photos, w) \subseteq {p}
    BY <1>1, <1>4 DEF MediaInv, Orderly, w, p
  <2> QED BY <1>2, <2>1 DEF PrimariesOf, PhotosOf
<1>9. ASSUME NEW o \in Owners \ raced' PROVE Orderly(photos', ops', o)
  <2>1. Orderly(photos, ops, o)
    BY <1>4, <1>9 DEF MediaInv
  <2>2. CASE o # w
    <3>1. photos[p] # NoPhoto => photos[p].owner # o
      BY <1>5, <2>2
    <3>2. photos'[p] # NoPhoto => photos'[p].owner # o
      BY <1>1, <1>6, <3>1
    <3>3. PhotosOf(photos', o) = PhotosOf(photos, o) /\ PrimariesOf(photos', o) = PrimariesOf(photos, o)
      BY <1>2, <3>1, <3>2, SameLists
    <3> QED BY <1>3, <2>1, <3>3 DEF Orderly
  <2>3. CASE o = w
    <3>1. \A r \in Operators : ops'[r].pc = "idle" \/ ops'[r].owner # o
      BY <1>3, <1>4, <1>9, <2>3
    <3> QED BY <1>8, <1>9, <2>3, <3>1 DEF Orderly
  <2> QED BY <2>2, <2>3
<1>10. w \notin raced' /\ photos' # photos => PrimariesOf(photos', w) = {p}
  <2> SUFFICES ASSUME w \notin raced', photos' # photos PROVE PrimariesOf(photos', w) = {p}
    OBVIOUS
  <2>1. p \in PrimariesOf(photos', w)
    BY <1>1, <1>2, <1>5 DEF PrimariesOf, PhotosOf
  <2> QED BY <1>8, <2>1
<1> QED BY <1>7, <1>9, <1>10 DEF MediaInv, w, p

\* Every other step keeps the owners' lists, or shortens one.
LEMMA NextMedia == MediaTypeOK /\ MediaInv /\ [MediaNext]_mediaVars => MediaInv'
<1> SUFFICES ASSUME MediaTypeOK, MediaInv, [MediaNext]_mediaVars PROVE MediaInv'
  OBVIOUS
<1>1. ASSUME NEW q \in Operators, NEW o \in Owners, NEW approved \in BOOLEAN,
             BeginUpload(q, o, approved)
      PROVE  MediaInv'
  <2>1. /\ photos' = photos /\ uploads' = uploads /\ raced' = raced
        /\ \A r \in Operators \ {q} : ops'[r] = ops[r]
        /\ ops'[q].pc = "insert" /\ ops'[q].owner = o /\ ops'[q].role = RoleOfUpload(photos, o)
    BY <1>1 DEF BeginUpload, MediaTypeOK
  <2>2. PromotesOwnPhoto'
    BY <2>1 DEF MediaInv, PromotesOwnPhoto
  <2>3. RoleOfUpload(photos, o) = "primary" => PhotosOf(photos, o) = {}
    BY DEF RoleOfUpload
  <2>4. ASSUME NEW w \in Owners \ raced PROVE Orderly(photos, ops', w)
    <3>1. Orderly(photos, ops, w)
      BY DEF MediaInv
    <3> QED BY <2>1, <2>3, <3>1 DEF Orderly
  <2> QED BY <2>1, <2>2, <2>4 DEF MediaInv
<1>2. ASSUME NEW q \in Operators, NEW a \in PhotoIds, BeginPromote(q, a) PROVE MediaInv'
  <2>1. /\ photos' = photos /\ uploads' = uploads /\ raced' = raced /\ photos[a] # NoPhoto
        /\ \A r \in Operators \ {q} : ops'[r] = ops[r]
        /\ ops'[q].pc = "demote" /\ ops'[q].owner = photos[a].owner /\ ops'[q].photo = a
    BY <1>2 DEF BeginPromote, MediaTypeOK
  <2>2. a <= uploads
    BY <2>1, MediaAssumption DEF MediaTypeOK, PhotoIds
  <2>3. PromotesOwnPhoto'
    BY <2>1, <2>2 DEF MediaInv, PromotesOwnPhoto
  <2>4. ASSUME NEW w \in Owners \ raced PROVE Orderly(photos, ops', w)
    BY <2>1, FewerRequests DEF MediaInv
  <2> QED BY <2>1, <2>3, <2>4 DEF MediaInv
<1>3. ASSUME NEW q \in Operators, AbandonRequest(q) PROVE MediaInv'
  <2>1. /\ photos' = photos /\ uploads' = uploads /\ raced' = raced
        /\ \A r \in Operators \ {q} : ops'[r] = ops[r]
        /\ ops'[q].pc = "idle"
    BY <1>3 DEF AbandonRequest, MediaTypeOK, AtRest
  <2>2. PromotesOwnPhoto'
    BY <2>1 DEF MediaInv, PromotesOwnPhoto
  <2>3. ASSUME NEW w \in Owners \ raced PROVE Orderly(photos, ops', w)
    BY <2>1, FewerRequests DEF MediaInv
  <2> QED BY <2>1, <2>2, <2>3 DEF MediaInv
<1>4. ASSUME UNCHANGED <<uploads, ops, raced>>,
             \A a \in PhotoIds : photos'[a] # NoPhoto =>
                /\ photos[a] # NoPhoto /\ photos'[a].owner = photos[a].owner
                /\ photos'[a].role = photos[a].role
      PROVE  MediaInv'
  <2>1. PromotesOwnPhoto'
    <3>1. \A q \in Operators : ops[q].pc \in {"demote", "promote"} => ops[q].photo \in PhotoIds
      BY RequestShape
    <3> QED BY <1>4, <3>1 DEF MediaInv, PromotesOwnPhoto
  <2>2. \A o : /\ PhotosOf(photos', o) \subseteq PhotosOf(photos, o)
               /\ PrimariesOf(photos', o) \subseteq PrimariesOf(photos, o)
    BY <1>4 DEF PhotosOf, PrimariesOf
  <2>3. ASSUME NEW o \in Owners \ raced PROVE Orderly(photos', ops, o)
    <3>1. Orderly(photos, ops, o)
      BY DEF MediaInv
    <3> QED BY <2>2, <3>1 DEF Orderly
  <2> QED BY <1>4, <2>1, <2>3 DEF MediaInv
<1>5. ASSUME NEW q \in Operators, NEW a \in PhotoIds, NEW approved \in BOOLEAN,
             SetApproved(q, a, approved)
      PROVE  MediaInv'
  <2>1. photos[a] \in Photo /\ photos \in [PhotoIds -> Photo \cup {NoPhoto}]
    BY <1>5 DEF SetApproved, MediaTypeOK
  <2>2. /\ \A b \in PhotoIds : b # a => photos'[b] = photos[b]
        /\ photos[a] # NoPhoto /\ photos'[a].owner = photos[a].owner
        /\ photos'[a].role = photos[a].role
    BY <1>5, <2>1 DEF SetApproved, Photo
  <2>3. UNCHANGED <<uploads, ops, raced>>
    BY <1>5 DEF SetApproved
  <2> QED BY <1>4, <2>2, <2>3
<1>6. ASSUME NEW q \in Operators, NEW a \in PhotoIds, DeletePhoto(q, a) PROVE MediaInv'
  <2>1. \A b \in PhotoIds : photos'[b] = photos[b] \/ photos'[b] = NoPhoto
    BY <1>6 DEF DeletePhoto, MediaTypeOK
  <2>2. UNCHANGED <<uploads, ops, raced>>
    BY <1>6 DEF DeletePhoto
  <2> QED BY <1>4, <2>1, <2>2
<1>7. CASE UNCHANGED mediaVars
  BY <1>7 DEF mediaVars, MediaInv, PromotesOwnPhoto
<1> QED
  BY <1>1, <1>2, <1>3, <1>5, <1>6, <1>7, InsertKeepsOrder, DemoteKeepsOrder, PromoteKeepsOrder
  DEF MediaNext

\* At most one primary, for every interleaving of the requests of other owners and
\* every death between two statements.
THEOREM OnePrimary == MediaSpec => [](MediaTypeOK /\ OnePrimaryUnlessRaced)
<1>1. MediaTypeOK /\ MediaInv => OnePrimaryUnlessRaced
  <2> SUFFICES ASSUME MediaInv, NEW o \in Owners \ raced
               PROVE  Cardinality(PrimariesOf(photos, o)) <= 1
    BY DEF OnePrimaryUnlessRaced
  <2>1. \A a, b \in PrimariesOf(photos, o) : a = b
    BY DEF MediaInv, Orderly
  <2>2. CASE PrimariesOf(photos, o) = {}
    BY <2>2, FS_EmptySet
  <2>3. CASE PrimariesOf(photos, o) # {}
    <3>1. PICK a : PrimariesOf(photos, o) = {a}
      BY <2>1, <2>3
    <3>2. Cardinality({a}) = 1
      BY FS_Singleton, Zenon
    <3> QED BY <3>1, <3>2
  <2> QED BY <2>2, <2>3
<1> QED BY <1>1, InitMedia, NextMediaType, NextMedia, PTL DEF MediaSpec

\* Numbers up to a bound have a greatest one.
LEMMA GreatestNumber ==
  ASSUME NEW k \in Nat, NEW S \in SUBSET (0..k), S # {}
  PROVE  \E n \in S : \A m \in S : m <= n
<1> DEFINE T == {n \in 0..k : k - n \in S}
<1>1. T \in SUBSET Nat /\ T # {}
  <2>1. PICK n \in S : TRUE
    OBVIOUS
  <2>2. k - n \in 0..k /\ k - (k - n) = n
    OBVIOUS
  <2>3. k - n \in T
    BY <2>1, <2>2
  <2>4. \A m \in T : m \in Nat
    OBVIOUS
  <2> HIDE DEF T
  <2> QED BY <2>3, <2>4
<1>2. PICK n \in T : \A m \in T : n <= m
  BY <1>1, LeastNumber
<1>3. ASSUME NEW m \in S PROVE m <= k - n
  <2>1. m \in 0..k /\ k - m \in 0..k /\ k - (k - m) = m
    OBVIOUS
  <2>2. k - m \in T
    BY <2>1
  <2>3. n \in Nat
    BY <1>1, <1>2
  <2>4. n <= k - m
    BY <1>2, <2>2
  <2> QED BY <2>1, <2>3, <2>4
<1>4. k - n \in S
  BY <1>2
<1> QED BY <1>3, <1>4

\* The photos the rights rule chooses from, and that it chooses one of them.
Eligible(table, o) == {a \in PhotosOf(table, o) : table[a].approved}
Best(table, o) ==
  IF Eligible(table, o) \cap PrimariesOf(table, o) = {} THEN Eligible(table, o)
  ELSE Eligible(table, o) \cap PrimariesOf(table, o)

LEMMA PickIsBest ==
  ASSUME NEW table, NEW o
  PROVE  /\ Pick(table, o) = IF Best(table, o) = {} THEN 0
                            ELSE CHOOSE a \in Best(table, o) : \A b \in Best(table, o) : b <= a
         /\ Best(table, o) # {} => Pick(table, o) \in Best(table, o)
<1>1. Pick(table, o) = IF Best(table, o) = {} THEN 0
                      ELSE CHOOSE a \in Best(table, o) : \A b \in Best(table, o) : b <= a
  BY DEF Pick, Best, Eligible
<1>2. Best(table, o) \in SUBSET (0..MaxPhotos) /\ MaxPhotos \in Nat
  BY MediaAssumption DEF Best, Eligible, PrimariesOf, PhotosOf, PhotoIds
<1>3. ASSUME Best(table, o) # {} PROVE Pick(table, o) \in Best(table, o)
  <2>1. \E a \in Best(table, o) : \A b \in Best(table, o) : b <= a
    BY <1>2, <1>3, GreatestNumber
  <2> QED BY <1>1, <1>3, <2>1
<1> QED BY <1>1, <1>3

\* An upload that is not the owner's first photo leaves an approved primary where
\* it is on the cards.
LEMMA UploadKeepsPick ==
  ASSUME MediaTypeOK, MediaInv, NEW q \in Operators, InsertPhoto(q), NEW o \in Owners \ raced',
         Pick(photos, o) # 0, photos[Pick(photos, o)].role = "primary"
  PROVE  Pick(photos', o) = Pick(photos, o)
<1> DEFINE n == uploads + 1
           w == ops[q].owner
<1>1. /\ n \in PhotoIds /\ photos[n] = NoPhoto
      /\ ops[q].pc = "insert" /\ w \in Owners /\ ops[q].role \in Roles
      /\ ops[q].approved \in BOOLEAN /\ raced \subseteq raced'
  BY MediaAssumption, RequestShape, AloneUnlessRaced DEF InsertPhoto, MediaTypeOK, PhotoIds
<1>2. /\ \A a \in PhotoIds : a # n => photos'[a] = photos[a]
      /\ photos'[n] \in Photo /\ photos'[n].owner = w /\ photos'[n].role = ops[q].role
  BY <1>1 DEF InsertPhoto, MediaTypeOK, Photo
<1>3. Best(photos, o) # {} /\ Pick(photos, o) \in Best(photos, o)
  BY PickIsBest
<1>4. Pick(photos, o) \in Eligible(photos, o) \cap PrimariesOf(photos, o)
  <2>1. Pick(photos, o) \in Eligible(photos, o)
    BY <1>3 DEF Best
  <2>2. Pick(photos, o) \in PrimariesOf(photos, o)
    BY <2>1 DEF Eligible, PrimariesOf
  <2> QED BY <2>1, <2>2
<1> HIDE DEF n
<1>5. w = o => ops[q].role # "primary"
  <2>1. PhotosOf(photos, o) # {}
    BY <1>4 DEF Eligible
  <2> QED BY <1>1, <2>1 DEF MediaInv, Orderly
<1> HIDE DEF w
<1>6. Eligible(photos', o) \cap PrimariesOf(photos', o)
        = Eligible(photos, o) \cap PrimariesOf(photos, o)
  <2>1. \A a \in PrimariesOf(photos, o) : a # n /\ a \in PhotoIds
    BY <1>1 DEF PrimariesOf, PhotosOf
  <2>2. \A a \in PrimariesOf(photos', o) : a # n /\ a \in PhotoIds
    BY <1>2, <1>5 DEF PrimariesOf, PhotosOf
  <2>3. \A a \in PhotoIds : a # n =>
          /\ a \in PhotosOf(photos', o) <=> a \in PhotosOf(photos, o)
          /\ a \in PrimariesOf(photos', o) <=> a \in PrimariesOf(photos, o)
          /\ a \in Eligible(photos', o) <=> a \in Eligible(photos, o)
    BY <1>2 DEF Eligible, PrimariesOf, PhotosOf
  <2> QED BY <2>1, <2>2, <2>3
<1>7. Best(photos', o) = Best(photos, o)
  BY <1>4, <1>6 DEF Best
<1> QED BY <1>7, PickIsBest

\* A promotion that ends takes effect, and an upload never displaces an approved
\* primary, for every number of owners, photos and overlapping requests of others.
THEOREM PromotionsTakeEffect == MediaSpec => PromotionTakesEffect
<1> DEFINE Step ==
      /\ \A q \in Operators :
            ops[q].pc = "promote" /\ photos' # photos /\ ops'[q] = AtRest /\ ops[q].owner \notin raced'
                => PrimariesOf(photos', ops[q].owner) = {ops[q].photo}
      /\ \A o \in Owners \ raced' :
            uploads' > uploads /\ Pick(photos, o) # 0 /\ photos[Pick(photos, o)].role = "primary"
                => Pick(photos', o) = Pick(photos, o)
<1>1. ASSUME MediaTypeOK, MediaInv, MediaNext PROVE Step
  <2>1. ASSUME NEW q \in Operators, ops[q].pc = "promote", photos' # photos, ops'[q] = AtRest,
               ops[q].owner \notin raced'
        PROVE  PrimariesOf(photos', ops[q].owner) = {ops[q].photo}
    <3>1. ops[q] # AtRest /\ ops'[q] # ops[q]
      BY <2>1 DEF AtRest
    <3>2. PICK r \in Operators :
            \/ \E o \in Owners, approved \in BOOLEAN : BeginUpload(r, o, approved)
            \/ InsertPhoto(r)
            \/ \E a \in PhotoIds : \/ BeginPromote(r, a)
                                   \/ DeletePhoto(r, a)
                                   \/ \E b \in BOOLEAN : SetApproved(r, a, b)
            \/ Demote(r) \/ Promote(r) \/ AbandonRequest(r)
      BY <1>1 DEF MediaNext
    <3>3. \A u \in Operators : u # r => ops'[u] = ops[u]
      BY <1>1, <3>2 DEF BeginUpload, InsertPhoto, BeginPromote, DeletePhoto, SetApproved, Demote,
                  Promote, AbandonRequest, MediaTypeOK
    <3>4. r = q
      BY <3>1, <3>3
    <3>5. Promote(q)
      BY <2>1, <3>1, <3>2, <3>4 DEF BeginUpload, InsertPhoto, BeginPromote, DeletePhoto,
                  SetApproved, Demote, AbandonRequest
    <3> QED BY <1>1, <2>1, <3>5, PromoteKeepsOrder
  <2>2. ASSUME uploads' > uploads PROVE \E q \in Operators : InsertPhoto(q)
    <3>1. uploads' # uploads
      BY <1>1, <2>2 DEF MediaTypeOK
    <3> QED BY <1>1, <3>1 DEF MediaNext, BeginUpload, BeginPromote, DeletePhoto, SetApproved,
                  Demote, Promote, AbandonRequest
  <2> QED BY <1>1, <2>1, <2>2, UploadKeepsPick
<1>2. MediaTypeOK /\ MediaInv /\ [MediaNext]_mediaVars => [Step]_mediaVars
  BY <1>1
<1>3. PromotionTakesEffect <=> [][Step]_mediaVars
  BY DEF PromotionTakesEffect
<1> HIDE DEF Step
<1> QED BY <1>2, <1>3, InitMedia, NextMediaType, NextMedia, PTL DEF MediaSpec

----------------------------------------------------------------------------
(***************************************************************************)
(* The stores together.                                                    *)
(***************************************************************************)
\* A step of one store leaves the others alone, so each behaves as it does alone.
LEMMA StoresApart ==
  Spec => /\ CatalogSpec /\ MediaSpec /\ MigrationSpec /\ GateSpec
          /\ ImageInit /\ [][ImageNext]_imageVars
<1>1. Init => CatalogInit /\ MediaInit /\ ImageInit /\ MigrationInit /\ GateInit
  BY DEF Init
<1>2. [Next]_storeVars =>
        /\ [CatalogNext]_catalogVars /\ [MediaNext]_mediaVars /\ [ImageNext]_imageVars
        /\ [MigrationNext]_migrationVars /\ [GateNext]_gateVars
  BY DEF Next, storeVars, CatalogSteps, MediaSteps, ImageSteps, MigrationSteps, GateSteps
<1> QED BY <1>1, <1>2, PTL DEF Spec, CatalogSpec, MediaSpec, MigrationSpec, GateSpec

\* The rows, requests, caches and histories of all the stores keep their shape.
THEOREM StoresTyped == Spec => []StoresTypeOK
<1>1. CatalogTypeOK /\ MediaTypeOK /\ ImageTypeOK /\ MigrationTypeOK /\ GateTypeOK
        => StoresTypeOK
  BY DEF StoresTypeOK
<1> QED BY <1>1, StoresApart, CatalogTyped, OnePrimary, TimeoutsInvariant,
           ServersHaveTheirSchema, RateLimitIsExact, PTL
=============================================================================
