------------------------------- MODULE MCStores -------------------------------
(***************************************************************************)
(* Small instances of the stores around the commands: the catalog, the     *)
(* media library, the images of the cards, the migrations and the gate of  *)
(* the API.  They share nothing, so a behaviour explores one of them.      *)
(***************************************************************************)
EXTENDS Catalog, MediaLibrary, CardImages, SchemaMigrations, RequestGate, TLC

VARIABLE explored

\* Nothing known; the full name of one, the abbreviated one of another
MCOfficialNames ==
    {[e \in Entities |-> NoName], [e \in Entities |-> IF e = 1 THEN 1 ELSE 2],
     [e \in Entities |-> IF e = 1 THEN NoName ELSE 3]}
MCProfiles ==
    {[p \in Players |-> [name |-> 2, bio |-> 1]],
     [p \in Players |-> [name |-> NoName, bio |-> IF p = 1 THEN 2 ELSE NoName]]}
MCTableSets == {{"players", "teams"}, {"players"}}

\* The binary of "old" lacks the last migration.
MCKnown == [p \in Processes |-> IF p = "old" THEN 2 ELSE 3]

MCKeyTable == [kEd |-> [id |-> "ed", role |-> "editor"]]
MCCommandRoles == [finalize_match |-> "editor", approve_correction |-> "admin"]

Init ==
    /\ explored \in {"catalog", "media", "images", "migrations", "gate"}
    /\ CatalogInit /\ MediaInit /\ ImageInit /\ MigrationInit /\ GateInit
    /\ explored # "catalog" => backend = "pg"
    /\ explored # "images" => served = {}
    /\ explored # "migrations" => engine = "pg"

CatalogSteps ==
    /\ explored = "catalog" /\ CatalogNext
    /\ UNCHANGED <<mediaVars, imageVars, migrationVars, gateVars, explored>>
MediaSteps ==
    /\ explored = "media" /\ MediaNext
    /\ UNCHANGED <<catalogVars, imageVars, migrationVars, gateVars, explored>>
ImageSteps ==
    /\ explored = "images" /\ ImageNext
    /\ UNCHANGED <<catalogVars, mediaVars, migrationVars, gateVars, explored>>
MigrationSteps ==
    /\ explored = "migrations" /\ MigrationNext
    /\ UNCHANGED <<catalogVars, mediaVars, imageVars, gateVars, explored>>
GateSteps ==
    /\ explored = "gate" /\ GateNext
    /\ UNCHANGED <<catalogVars, mediaVars, imageVars, migrationVars, explored>>

Next == CatalogSteps \/ MediaSteps \/ ImageSteps \/ MigrationSteps \/ GateSteps

storeVars == <<catalogVars, mediaVars, imageVars, migrationVars, gateVars, explored>>
Spec == Init /\ [][Next]_storeVars

\* Rows, requests and histories keep the shape the stores give them.
StoresTypeOK == CatalogTypeOK /\ MediaTypeOK /\ ImageTypeOK /\ MigrationTypeOK /\ GateTypeOK

WorkerSymmetry == Permutations(Workers)
=============================================================================
