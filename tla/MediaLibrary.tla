---------------------------- MODULE MediaLibrary ----------------------------
(***************************************************************************)
(* The media library: many photos per player or team, one of them meant to *)
(* be the primary.  Every statement autocommits, so an upload (list, then  *)
(* insert) and a promotion (read, demote, promote) interleave with other   *)
(* requests statement by statement, on both engines.  `commercial_use`,    *)
(* `expiry` and `date_acquired` are left out: no caller in src/ requires    *)
(* the first or sets the others.                                           *)
(***************************************************************************)
EXTENDS Naturals, FiniteSets

CONSTANTS
    Owners,      \* (kind, external_id) pairs
    Operators,   \* requests that write the library
    MaxPhotos    \* bound: photos uploaded in a behaviour

ASSUME MediaAssumption == MaxPhotos \in Nat

VARIABLES
    photos,   \* the rows of media_assets; a photo's number is its created_at
    uploads,  \* photos uploaded so far
    ops,      \* the request of each operator
    raced     \* ghost: owners written by one request during another one

mediaVars == <<photos, uploads, ops, raced>>

Roles == {"primary", "alternate"}
PhotoIds == 1..MaxPhotos
NoPhoto == [role |-> "none"]
Photo == [owner : Owners, role : Roles, approved : BOOLEAN]
AtRest == [pc |-> "idle"]

MediaInit ==
    /\ photos = [a \in PhotoIds |-> NoPhoto]
    /\ uploads = 0
    /\ ops = [q \in Operators |-> AtRest]
    /\ raced = {}

PhotosOf(rows, o) == {a \in PhotoIds : rows[a] # NoPhoto /\ rows[a].owner = o}
PrimariesOf(rows, o) == {a \in PhotosOf(rows, o) : rows[a].role = "primary"}

\* the owner a request is in the middle of writing
Busy(q, o) == ops[q].pc # "idle" /\ ops[q].owner = o

\* a write of q to o's photos while another request for o is under way
Races(q, o) ==
    raced' = IF \E r \in Operators \ {q} : Busy(r, o) THEN raced \cup {o} ELSE raced

\* THE rights rule: an approved photo; a primary one if there is one, then the newest
Pick(rows, o) ==
    LET eligible == {a \in PhotosOf(rows, o) : rows[a].approved}
        first == eligible \cap PrimariesOf(rows, o)
        best == IF first = {} THEN eligible ELSE first
    IN IF best = {} THEN 0 ELSE CHOOSE a \in best : \A b \in best : b <= a

-----------------------------------------------------------------------------
\* Mutant: the default of the repository's add.
RoleOfRepositoryDefault(rows, o) == "primary"

\* the first photo of an owner is its primary, later ones are alternates
RoleOfUpload(rows, o) == IF PhotosOf(rows, o) = {} THEN "primary" ELSE "alternate"

\* add_media_asset: list_meta ...
BeginUpload(q, o, approved) ==
    /\ ops[q] = AtRest
    /\ uploads < MaxPhotos
    /\ ops' = [ops EXCEPT ![q] = [pc |-> "insert", owner |-> o,
                                  role |-> RoleOfUpload(photos, o), approved |-> approved]]
    /\ UNCHANGED <<photos, uploads, raced>>

\* ... then the INSERT
InsertPhoto(q) ==
    /\ ops[q].pc = "insert"
    /\ uploads < MaxPhotos
    /\ uploads' = uploads + 1
    /\ photos' = [photos EXCEPT ![uploads + 1] =
                    [owner |-> ops[q].owner, role |-> ops[q].role, approved |-> ops[q].approved]]
    /\ ops' = [ops EXCEPT ![q] = AtRest]
    /\ Races(q, ops[q].owner)

\* promote_primary: get_meta; an unknown photo answers False
BeginPromote(q, a) ==
    /\ ops[q] = AtRest
    /\ photos[a] # NoPhoto
    /\ ops' = [ops EXCEPT ![q] = [pc |-> "demote", owner |-> photos[a].owner, photo |-> a]]
    /\ UNCHANGED <<photos, uploads, raced>>

\* Mutant: the first UPDATE leaves the old primary alone.
DemoteNobody(q) ==
    /\ ops[q].pc = "demote"
    /\ ops' = [ops EXCEPT ![q].pc = "promote"]
    /\ UNCHANGED <<photos, uploads, raced>>

\* UPDATE ... SET role = 'alternate' of the owner's other primaries
Demote(q) ==
    /\ ops[q].pc = "demote"
    /\ photos' = [a \in PhotoIds |->
                    IF a \in PrimariesOf(photos, ops[q].owner) \ {ops[q].photo}
                    THEN [photos[a] EXCEPT !.role = "alternate"] ELSE photos[a]]
    /\ ops' = [ops EXCEPT ![q].pc = "promote"]
    /\ Races(q, ops[q].owner)
    /\ UNCHANGED uploads

\* Mutant: the photo is written whether or not it is still there.
PromoteAnyway(q) ==
    /\ ops[q].pc = "promote"
    /\ photos' = [photos EXCEPT ![ops[q].photo].role = "primary"]
    /\ ops' = [ops EXCEPT ![q] = AtRest]
    /\ Races(q, ops[q].owner)
    /\ UNCHANGED uploads

\* UPDATE ... SET role = 'primary' by id: no row when it was deleted meanwhile
Promote(q) ==
    /\ ops[q].pc = "promote"
    /\ photos' = IF photos[ops[q].photo] = NoPhoto THEN photos
                 ELSE [photos EXCEPT ![ops[q].photo].role = "primary"]
    /\ ops' = [ops EXCEPT ![q] = AtRest]
    /\ Races(q, ops[q].owner)
    /\ UNCHANGED uploads

\* the process dies between two statements of a request
AbandonRequest(q) ==
    /\ ops[q] # AtRest
    /\ ops' = [ops EXCEPT ![q] = AtRest]
    /\ UNCHANGED <<photos, uploads, raced>>

\* set_approved and delete are one statement each
SetApproved(q, a, approved) ==
    /\ ops[q] = AtRest /\ photos[a] # NoPhoto
    /\ photos' = [photos EXCEPT ![a].approved = approved]
    /\ UNCHANGED <<uploads, ops, raced>>

DeletePhoto(q, a) ==
    /\ ops[q] = AtRest /\ photos[a] # NoPhoto
    /\ photos' = [photos EXCEPT ![a] = NoPhoto]
    /\ UNCHANGED <<uploads, ops, raced>>

MediaNext ==
    \E q \in Operators :
        \/ \E o \in Owners, approved \in BOOLEAN : BeginUpload(q, o, approved)
        \/ InsertPhoto(q)
        \/ \E a \in PhotoIds : \/ BeginPromote(q, a)
                               \/ DeletePhoto(q, a)
                               \/ \E b \in BOOLEAN : SetApproved(q, a, b)
        \/ Demote(q) \/ Promote(q) \/ AbandonRequest(q)

MediaSpec == MediaInit /\ [][MediaNext]_mediaVars

-----------------------------------------------------------------------------
(* Properties.                                                             *)

\* Rows and requests keep their fields; a photo is stored once uploaded.
MediaTypeOK ==
    /\ photos \in [PhotoIds -> Photo \cup {NoPhoto}]
    /\ uploads \in 0..MaxPhotos
    /\ \A a \in PhotoIds : a > uploads => photos[a] = NoPhoto
    /\ raced \subseteq Owners
    /\ ops \in [Operators -> {AtRest}
          \cup [pc : {"insert"}, owner : Owners, role : Roles, approved : BOOLEAN]
          \cup [pc : {"demote", "promote"}, owner : Owners, photo : PhotoIds]]

\* "at most one primary per entity" (media_asset_repo.py:213) as far as the code
\* keeps it: for an owner whose uploads and promotions never overlapped, through
\* deletions, half-done promotions and crashes.
OnePrimaryUnlessRaced ==
    \A o \in Owners \ raced : Cardinality(PrimariesOf(photos, o)) <= 1

\* The docstring's rule as it stands, for every interleaving of requests.
OnePrimaryPerOwner ==
    \A o \in Owners : Cardinality(PrimariesOf(photos, o)) <= 1

\* Of owners whose requests did not overlap: a promotion that ends with its photo
\* still stored leaves it the only primary, and "the entity's primary never changes
\* just because someone uploaded" (wiring.py:1637), so that a new photo does not
\* displace an approved primary on the cards.
PromotionTakesEffect ==
    [][/\ \A q \in Operators :
            ops[q].pc = "promote" /\ photos' # photos /\ ops'[q] = AtRest /\ ops[q].owner \notin raced'
                => PrimariesOf(photos', ops[q].owner) = {ops[q].photo}
       /\ \A o \in Owners \ raced' :
            uploads' > uploads /\ Pick(photos, o) # 0 /\ photos[Pick(photos, o)].role = "primary"
                => Pick(photos', o) = Pick(photos, o)
      ]_mediaVars
=============================================================================
