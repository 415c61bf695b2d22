----------------------------- MODULE CardImages -----------------------------
(***************************************************************************)
(* Where the picture of a player or team on a card comes from: the         *)
(* operator's image, else the official FEB image, else the initials.  The  *)
(* FEB provider lives as long as the gateway: it caches every answer it    *)
(* fetched and stops fetching after FailureBudget failures in a row.        *)
(* Renders run in the threads of the API.                                  *)
(***************************************************************************)
EXTENDS Naturals, FiniteSets

CONSTANTS
    Subjects,        \* players and teams, one image URL each
    Renders,         \* renders in flight
    FailureBudget,   \* FAILURE_BUDGET
    MaxOutages       \* bound: changes of what the image host serves

ASSUME ImageAssumption ==
    /\ IsFiniteSet(Subjects) /\ IsFiniteSet(Renders)
    /\ FailureBudget \in Nat \ {0} /\ MaxOutages \in Nat

VARIABLES
    overrides,  \* subjects with an image the operator uploaded
    served,     \* subjects whose official image can be fetched now (a 404, a
                \* timeout and an outage all answer None)
    outages,    \* changes of `served` so far
    cache,      \* FebImageAssetProvider._cache
    failures,   \* _consecutive_failures
    renders     \* the subject each render is fetching, or its last picture

imageVars == <<overrides, served, outages, cache, failures, renders>>

Pictures == {"none", "override", "official", "initials"}
Resting(s, picture) == [pc |-> "idle", subject |-> s, picture |-> picture]
AtStart == [pc |-> "idle", picture |-> "none"]

ImageInit ==
    /\ overrides = {} /\ outages = 0
    /\ served \in SUBSET Subjects
    /\ cache = [s \in Subjects |-> "absent"]
    /\ failures = 0
    /\ renders = [r \in Renders |-> AtStart]

\* _open_circuit
OpenCircuit == failures >= FailureBudget

\* OverrideAssetProvider, then FebImageAssetProvider._uri up to the fetch; a store
\* that raises is passed over
StartRender(r, s) ==
    /\ renders[r].pc = "idle"
    /\ renders' = [renders EXCEPT ![r] =
            IF s \in overrides THEN Resting(s, "override")
            ELSE IF cache[s] = "image" THEN Resting(s, "official")
            ELSE IF cache[s] = "missing" \/ OpenCircuit THEN Resting(s, "initials")
            ELSE [pc |-> "fetching", subject |-> s]]
    /\ UNCHANGED <<overrides, served, outages, cache, failures>>

\* Mutant: only images are cached.
FetchReturnsUncached(r) ==
    /\ renders[r].pc = "fetching"
    /\ LET s == renders[r].subject
           ok == s \in served
       IN /\ failures' = IF ok THEN 0 ELSE failures + 1
          /\ cache' = IF ok THEN [cache EXCEPT ![s] = "image"] ELSE cache
          /\ renders' = [renders EXCEPT ![r] = Resting(s, IF ok THEN "official" ELSE "initials")]
    /\ UNCHANGED <<overrides, served, outages>>

\* the fetch answers or times out; its outcome is counted and cached
FetchReturns(r) ==
    /\ renders[r].pc = "fetching"
    /\ LET s == renders[r].subject
           ok == s \in served
       IN /\ failures' = IF ok THEN 0 ELSE failures + 1
          /\ cache' = [cache EXCEPT ![s] = IF ok THEN "image" ELSE "missing"]
          /\ renders' = [renders EXCEPT ![r] = Resting(s, IF ok THEN "official" ELSE "initials")]
    /\ UNCHANGED <<overrides, served, outages>>

\* PUT and DELETE /v1/images/{kind}/{external_id}: one upsert, one delete
PutOverride(s) ==
    /\ overrides' = overrides \cup {s}
    /\ UNCHANGED <<served, outages, cache, failures, renders>>

DeleteOverride(s) ==
    /\ s \in overrides
    /\ overrides' = overrides \ {s}
    /\ UNCHANGED <<served, outages, cache, failures, renders>>

\* the host fails, recovers, or FEB adds and removes images
HostChanges(images) ==
    /\ outages < MaxOutages /\ images # served
    /\ served' = images /\ outages' = outages + 1
    /\ UNCHANGED <<overrides, cache, failures, renders>>

ImageNext ==
    \/ \E r \in Renders : FetchReturns(r) \/ \E s \in Subjects : StartRender(r, s)
    \/ \E s \in Subjects : PutOverride(s) \/ DeleteOverride(s)
    \/ \E images \in SUBSET Subjects : HostChanges(images)

\* cards go on being rendered, of every subject, and every fetch ends (TIMEOUT_SECONDS)
ImageFairness ==
    \A r \in Renders : /\ WF_imageVars(FetchReturns(r))
                       /\ \A s \in Subjects : SF_imageVars(StartRender(r, s))

ImageSpec == ImageInit /\ [][ImageNext]_imageVars /\ ImageFairness

-----------------------------------------------------------------------------
(* Properties.                                                             *)

Fetching == {r \in Renders : renders[r].pc = "fetching"}

\* The provider's state has its shape.
ImageTypeOK ==
    /\ overrides \subseteq Subjects /\ served \subseteq Subjects
    /\ cache \in [Subjects -> {"absent", "missing", "image"}]
    /\ failures \in Nat
    /\ renders \in [Renders -> [pc : {"idle"}, picture : Pictures]
                        \cup [pc : {"idle"}, subject : Subjects, picture : Pictures]
                        \cup [pc : {"fetching"}, subject : Subjects]]

\* "an unreachable image host would otherwise cost five sequential timeouts"
\* (feb_image_assets.py:57): the failures counted and the fetches that can still
\* fail never exceed the budget by more than the other renders, and no subject is
\* waited for again and again: failures in a row come from distinct subjects whose
\* absence is cached, one per render that raced for it.
TimeoutsAreBounded ==
    /\ failures + Cardinality(Fetching) <= FailureBudget + Cardinality(Renders) - 1
    /\ failures <= Cardinality(Renders) * Cardinality({s \in Subjects : cache[s] = "missing"})

\* "a single success closes it again" (feb_image_assets.py:60): once the host
\* serves every image for good, the circuit is closed again and again.
CircuitCloses == <>[](served = Subjects) => []<>(~OpenCircuit)
=============================================================================
