------------------------------ MODULE RequestGate ------------------------------
(***************************************************************************)
(* What stands between an HTTP request for a command and the gateway: the  *)
(* body limit and the rate limiter of the middleware, then the route's own *)
(* checks of the envelope, the command, the API key and its role.  The     *)
(* middleware runs on the event loop, so a request passes it in one step.  *)
(***************************************************************************)
EXTENDS Naturals, FiniteSets, Sequences

CONSTANTS
    Hosts,          \* client addresses
    KeyTable,       \* FEB_SCORE_API_KEYS: key -> [id, role]
    Credentials,    \* what a request may present: keys, unknown keys, none
    Commands,       \* command types a request may name
    CommandRoles,   \* command type -> the least role that may run it
    Limit,          \* rate_limit_per_minute
    WindowLength,   \* window_seconds
    MaxTime, MaxRequests  \* bounds: clock ticks and requests of a behaviour

RoleLevel == [editor |-> 1, admin |-> 2, system |-> 3]

ASSUME GateAssumption ==
    /\ \A k \in DOMAIN KeyTable : KeyTable[k].role \in DOMAIN RoleLevel
    /\ \A c \in DOMAIN CommandRoles : CommandRoles[c] \in DOMAIN RoleLevel
    /\ Limit \in Nat \ {0} /\ WindowLength \in Nat \ {0}
    /\ MaxTime \in Nat /\ MaxRequests \in Nat

VARIABLES
    now,        \* time.monotonic()
    hits,       \* RateLimiter._hits: by client, the times it remembers, each
                \* with the number of the request that came then
    requests    \* history: [client, at, status] of the requests answered

gateVars == <<now, hits, requests>>

\* _client_key: the principal of a valid key, the address of everyone else
Clients == {KeyTable[k].id : k \in DOMAIN KeyTable} \cup Hosts
ClientOf(host, key) == IF key \in DOMAIN KeyTable THEN KeyTable[key].id ELSE host

GateInit ==
    /\ now = 0
    /\ hits = [c \in Clients |-> {}]
    /\ requests = <<>>

\* Mutant: a hit leaves the window one second too early.
RecentEarly(times) == {t \in times : now - t.at < WindowLength - 1}

\* the hits that still count: `now - t < self.window`
Recent(times) == {t \in times : now - t.at < WindowLength}

Allowed(client) == Cardinality(Recent(hits[client])) < Limit

\* RateLimiter.allow: a refused request is not a hit
Allow(client) ==
    hits' = [hits EXCEPT ![client] =
                IF Allowed(client)
                THEN Recent(@) \cup {[at |-> now, request |-> Len(requests) + 1]}
                ELSE Recent(@)]

\* is_authorized and role_meets; an unknown command is never granted
Authorized(key, command) ==
    /\ key \in DOMAIN KeyTable /\ command \in DOMAIN CommandRoles
    /\ RoleLevel[KeyTable[key].role] >= RoleLevel[CommandRoles[command]]

\* post_command: the answer of a request the limiter let pass
RouteStatus(key, command, wellFormed) ==
    CASE ~wellFormed -> 400
      [] wellFormed /\ command \notin DOMAIN CommandRoles -> 404
      [] wellFormed /\ command \in DOMAIN CommandRoles /\ key \notin DOMAIN KeyTable -> 401
      [] wellFormed /\ command \in DOMAIN CommandRoles /\ key \in DOMAIN KeyTable ->
            IF Authorized(key, command) THEN 200 ELSE 403

\* dispatch of a POST /v1/commands/{command}
PostCommand(host, key, command, tooLarge, wellFormed) ==
    LET client == ClientOf(host, key)
        status == IF tooLarge THEN 413
                  ELSE IF ~Allowed(client) THEN 429
                  ELSE RouteStatus(key, command, wellFormed)
    IN /\ Len(requests) < MaxRequests
       /\ requests' = Append(requests, [client |-> client, at |-> now, status |-> status])
       /\ IF tooLarge THEN UNCHANGED hits ELSE Allow(client)
       /\ UNCHANGED now

Tick == now < MaxTime /\ now' = now + 1 /\ UNCHANGED <<hits, requests>>

GateNext ==
    \/ Tick
    \/ \E host \in Hosts, key \in Credentials, command \in Commands,
          tooLarge \in BOOLEAN, wellFormed \in BOOLEAN :
            PostCommand(host, key, command, tooLarge, wellFormed)

GateSpec == GateInit /\ [][GateNext]_gateVars

-----------------------------------------------------------------------------
GateTypeOK ==
    /\ now \in 0..MaxTime
    /\ requests \in Seq([client : Clients, at : 0..now,
                         status : {200, 400, 401, 403, 404, 413, 429}])
    /\ hits \in [Clients -> SUBSET [at : 0..now, request : 1..Len(requests)]]
    /\ Len(requests) <= MaxRequests

\* the requests of a client that passed the limiter less than a window before `at`
PassedBefore(i) ==
    {j \in 1..(i - 1) : /\ requests[j].client = requests[i].client
                        /\ requests[j].status \notin {413, 429}
                        /\ requests[i].at - requests[j].at < WindowLength}

\* The limit is exact for every client and every position of the window: a
\* request is refused when, and only when, the same client passed Limit times in
\* the window that ends with it.  Refused and oversized requests do not count,
\* nor do those of another principal or address.
LimitIsExact ==
    \A i \in DOMAIN requests : requests[i].status # 413 =>
        (requests[i].status = 429) = (Cardinality(PassedBefore(i)) >= Limit)
=============================================================================
