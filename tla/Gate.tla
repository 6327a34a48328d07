-------------------------------- MODULE Gate --------------------------------
(***************************************************************************)
(* What a request passes before any handler sees it: authentication, the   *)
(* quotas and limiters of its tenant, the shared limiters; and under them  *)
(* the store the shared limiters count in, Redis or this process's memory. *)
(*                                                                         *)
(* One client is modelled, in one window of the limiters, which is also one *)
(* day of the quotas: no count runs out.  One of its requests is under way *)
(* at a time; the connection to Redis and the tenants change under it.     *)
(***************************************************************************)
EXTENDS Integers, FiniteSets

CONSTANTS
    Confs,          \* configurations: [multi, server, redis, dev, jwt]
    Requests,       \* what is sent: [path, jwt, key, dev]; a JWT is [org, asks,
                    \* member]: its tenant, the one asked for, those it may ask for
    Tenants,        \* tenants; DefaultTenant is one of them
    KeyTenant,      \* a tenant's API key -> its tenant
    Limits,         \* requests per minute a tenant can be given
    DayLimit,       \* requests and messages per day of a tenant
    Points,         \* of each shared limiter
    MaxTries,       \* reconnections before the client gives up
    MaxFaults,      \* losses of Redis, failures of the tenants' database
    MaxChanges,     \* administrative changes
    MaxRequests

VARIABLES
    conf,       \* the environment the process was started with
    link,       \* the Redis client: "none", "dialing", "open", "ready" or "over"
    begun,      \* its first connection was made: the health check runs
    tries,
    healthy,    \* redisHealthy
    backend,    \* of the shared limiters: "memory" or "redis"
    counts,     \* backend -> shared limiter -> points used
    faults,
    tenants,    \* tenant -> its requests per minute
    keys,       \* API keys that are valid
    used,       \* tenant -> [requests, messages] of the day
    paced,      \* shared limiter -> tenant -> limit -> points used
    changes,
    call,       \* the request under way
    sent,       \* requests so far
    let,        \* shared limiter -> requests it has let through
    served      \* tenant -> requests with one of its keys that reached a handler

redisVars == <<link, begun, tries, healthy, backend>>
tenantVars == <<tenants, keys, changes>>
countVars == <<used, paced, sent, let, served>>
gateVars == <<conf, redisVars, counts, faults, tenantVars, countVars, call>>

None == "none"
DefaultTenant == "default"
Shared == {"preAuth", "general", "message"}
Zero == [l \in Shared |-> 0]
Idle == [stage |-> "idle"]

(* Points are a number, and no tenant's key is the one of the environment. *)
GateAssumption == Points \in Nat /\ "server" \notin DOMAIN KeyTenant

(* checkAuthConfigured: a process that fails it exits *)
Configured(c) == c.multi \/ c.server # None

GateInit ==
    /\ conf \in {c \in Confs : Configured(c)}
    /\ link = IF conf.redis THEN "dialing" ELSE "none"
    /\ begun = FALSE /\ tries = 0 /\ healthy = FALSE
    /\ backend = "memory"
    /\ counts = [b \in {"memory", "redis"} |-> Zero]
    /\ faults = 0
    /\ tenants \in [Tenants -> Limits]
    /\ keys = DOMAIN KeyTenant
    /\ used = [t \in Tenants |-> [requests |-> 0, messages |-> 0]]
    /\ paced = [l \in Shared |-> [t \in Tenants |-> [n \in Limits |-> 0]]]
    /\ changes = 0
    /\ call = Idle /\ sent = 0
    /\ let = Zero /\ served = [t \in Tenants |-> 0]

Fault == faults < MaxFaults /\ faults' = faults + 1

----------------------------------------------------------------------------
(* initializeRedisRateLimiters and initializeMemoryRateLimiters: limiters in *)
(* memory are new ones, the counts in Redis stay with Redis.                 *)
UseRedis == backend' = "redis" /\ UNCHANGED counts
UseMemory == backend' = "memory" /\ counts' = [counts EXCEPT !["memory"] = Zero]

(* a mutant of Fallback: it does not ask what is in use *)
FallbackAnyway == UseMemory

Fallback == IF backend = "redis" THEN UseMemory ELSE UNCHANGED <<backend, counts>>

(* the 'error' event *)
Error ==
    IF healthy THEN healthy' = FALSE /\ Fallback
    ELSE UNCHANGED <<healthy, backend, counts>>

(* A request that waits for Redis is answered by the error. *)
CutOff == call' = IF call.stage = "waiting" THEN Idle ELSE call

(* the 'connect' event: the connection is open, the client not yet ready *)
Connect ==
    /\ link = "dialing"
    /\ link' = "open" /\ healthy' = TRUE
    /\ UNCHANGED <<conf, begun, tries, backend, counts, faults, tenantVars, countVars, call>>

(* the 'ready' event; the first time, connect() returns and the check starts *)
Ready ==
    /\ link = "open"
    /\ link' = "ready" /\ healthy' = TRUE /\ begun' = TRUE /\ tries' = 0
    /\ UseRedis
    /\ UNCHANGED <<conf, faults, tenantVars, countVars, call>>

(* reconnectStrategy: an attempt fails, and another one follows ... *)
Retry ==
    /\ link \in {"dialing", "open"} /\ tries < MaxTries
    /\ tries' = tries + 1 /\ link' = "dialing"
    /\ Error
    /\ UNCHANGED <<conf, begun, faults, tenantVars, countVars, call>>

(* ... or it was the last one.  If nothing was ever connected the start      *)
(* falls back too, with new limiters.                                        *)
GiveUp ==
    /\ link \in {"dialing", "open"} /\ tries = MaxTries
    /\ link' = "over"
    /\ healthy' = FALSE
    /\ IF begun THEN Fallback ELSE UseMemory
    /\ UNCHANGED <<conf, begun, tries, faults, tenantVars, countVars, call>>

(* The connection is lost: the client reports it and dials again. *)
Lose ==
    /\ link = "ready" /\ Fault
    /\ link' = "dialing"
    /\ Error /\ CutOff
    /\ UNCHANGED <<conf, begun, tries, tenantVars, countVars>>

(* The periodic ping of a client that is ready: it fails ... *)
PingFails ==
    /\ link = "ready" /\ healthy /\ Fault
    /\ healthy' = FALSE /\ Fallback
    /\ UNCHANGED <<conf, link, begun, tries, tenantVars, countVars, call>>

(* ... or finds Redis again. *)
Recover ==
    /\ link = "ready" /\ ~healthy
    /\ healthy' = TRUE /\ UseRedis
    /\ UNCHANGED <<conf, link, begun, tries, faults, tenantVars, countVars, call>>

----------------------------------------------------------------------------
(* TenantManager: what an administrator changes under the requests. *)
Change == changes < MaxChanges /\ changes' = changes + 1

SetQuotas(t, n) ==
    /\ Change /\ t \in DOMAIN tenants
    /\ tenants' = [tenants EXCEPT ![t] = n]
    /\ UNCHANGED <<conf, redisVars, counts, faults, keys, countVars, call>>

RevokeApiKey(k) ==
    /\ Change /\ keys' = keys \ {k}
    /\ UNCHANGED <<conf, redisVars, counts, faults, tenants, countVars, call>>

(* The keys and the usage go with the tenant; the default one stays. *)
DeleteTenant(t) ==
    /\ Change /\ t \in DOMAIN tenants \ {DefaultTenant}
    /\ tenants' = [u \in DOMAIN tenants \ {t} |-> tenants[u]]
    /\ keys' = {k \in keys : KeyTenant[k] # t}
    /\ used' = [used EXCEPT ![t] = [requests |-> 0, messages |-> 0]]
    /\ UNCHANGED <<conf, redisVars, counts, faults, paced, sent, let, served, call>>

(* incrementUsage and getUsage, of the day *)
Charged(t, metric) == [used EXCEPT ![t][metric] = @ + 1]
Usage(t, metric) == used[t][metric]

(* getQuotas; the limits of a day are not changed *)
PerMinute(t) == tenants[t]

(* checkQuota: a metric it has no case for has no limit, and -1 is none *)
QuotaLeft(t, metric) ==
    LET current == CASE metric = "requests_per_day" -> Usage(t, "requests")
                     [] metric = "messages_per_day" -> Usage(t, "messages")
                     [] OTHER -> 0
        limit == IF metric \in {"requests_per_day", "messages_per_day"} THEN DayLimit ELSE -1
    IN  limit = -1 \/ current < limit

----------------------------------------------------------------------------
(* A shared limiter is asked to let the request go on to `next', a refusal of *)
(* a request without a good key included.  In memory the answer is there at   *)
(* once; Redis is waited for.                                                 *)
Count(b, limiter, next) ==
    /\ counts' = [counts EXCEPT ![b][limiter] = @ + 1]
    /\ IF counts[b][limiter] < Points
       THEN call' = next /\ let' = [let EXCEPT ![limiter] = @ + 1]
       ELSE call' = Idle /\ UNCHANGED let

Consume(limiter, next) ==
    IF backend = "redis"
    THEN /\ call' = [stage |-> "waiting", limiter |-> limiter, next |-> next]
         /\ UNCHANGED <<counts, let>>
    ELSE Count("memory", limiter, next)

Answered ==
    /\ call.stage = "waiting"
    /\ Count("redis", call.limiter, call.next)
    /\ UNCHANGED <<conf, redisVars, faults, tenantVars, used, paced, sent, served>>

(* A request of any path but the public ones; a JWT is verified first. *)
Arrive(r) ==
    /\ call = Idle /\ sent < MaxRequests
    /\ sent' = sent + 1
    /\ call' = [stage |-> "auth", request |-> r]
    /\ UNCHANGED <<conf, redisVars, counts, faults, tenantVars, used, paced, let, served>>

Limited(r, tenant, context) ==
    [stage |-> "general", request |-> r, tenant |-> tenant, context |-> context]
Authenticating == call.stage = "auth"
Known(t) == IF conf.multi /\ t \in DOMAIN tenants THEN t ELSE None

(* LocalTenantResolver.resolve: the tenant of the token, or the one it asks   *)
(* for if its user is a member there                                          *)
Resolved(jwt) == IF jwt.asks \in {None, jwt.org} THEN jwt.org
                 ELSE IF jwt.asks \in jwt.member THEN jwt.asks ELSE None

(* a token that does not verify or resolve is no reason to refuse: the key is *)
(* looked at as if there were none                                            *)
Verified(r) == conf.jwt /\ Resolved(r.jwt) # None

(* buildContextFromJwt *)
JwtContext(r) == LET t == Resolved(r.jwt) IN Limited(r, Known(t), t)

ByJwt ==
    /\ Authenticating /\ Verified(call.request)
    /\ call' = JwtContext(call.request)
    /\ UNCHANGED <<conf, redisVars, counts, faults, tenantVars, countVars>>

(* validateApiKey *)
ValidKey(k) == conf.multi /\ k \in keys

(* if the tenants' database answers: the use counts for the day *)
ByTenantKey ==
    /\ Authenticating /\ ~Verified(call.request)
    /\ ValidKey(call.request.key)
    /\ LET t == KeyTenant[call.request.key]
       IN  /\ call' = Limited(call.request, t, t)
           /\ used' = Charged(t, "requests")
    /\ UNCHANGED <<conf, redisVars, counts, faults, tenantVars, paced, sent, let, served>>

(* A key of the form of a tenant's that no tenant has is refused at once, be  *)
(* it the server's; an error of the tenants' database leaves the server's key.*)
Legacy(r, answers) ==
    /\ ~Verified(r)
    /\ r.key = "server" /\ conf.server # None
    /\ conf.multi /\ answers => conf.server # "nac"

(* the key of the environment: the default tenant, the context of the headers *)
ByServerKey ==
    /\ Authenticating
    /\ \/ Legacy(call.request, TRUE) /\ UNCHANGED faults
       \/ ~Legacy(call.request, TRUE) /\ Legacy(call.request, FALSE) /\ Fault
    /\ call' = Limited(call.request, Known(DefaultTenant),
                       IF conf.dev /\ call.request.dev # None
                       THEN call.request.dev ELSE DefaultTenant)
    /\ UNCHANGED <<conf, redisVars, counts, tenantVars, countVars>>

(* Without a key, or with a bad one, the attempt itself is limited. *)
Refuse ==
    /\ Authenticating /\ ~Verified(call.request)
    /\ \/ /\ ~ValidKey(call.request.key)
          /\ ~Legacy(call.request, TRUE) /\ UNCHANGED faults
       \/ ValidKey(call.request.key) /\ Fault
    /\ Consume("preAuth", Idle)
    /\ UNCHANGED <<conf, redisVars, tenantVars, used, paced, sent, served>>

(* A request that passed goes on to the limit of messages, or to its handler. *)
Onward == IF call.stage = "general" /\ call.request.path = "message"
          THEN [call EXCEPT !.stage = "message"]
          ELSE [call EXCEPT !.stage = "handler"]

(* rateLimitMiddleware and messageRateLimitMiddleware: the limiters of a      *)
(* tenant are kept for each limit it has had ...                              *)
Quota == [general |-> "requests", message |-> "messages"]
Metered == call.stage \in {"general", "message"}
ForTenant == conf.multi /\ call.tenant \in DOMAIN tenants

(* getTenantRateLimiter *)
Limiter(t) == paced[call.stage][t][PerMinute(t)]

Pace ==
    /\ Metered /\ ForTenant
    /\ LET t == call.tenant
           n == PerMinute(t)
           room == Limiter(t) < n
       IN  IF QuotaLeft(t, Quota[call.stage])
           THEN /\ paced' = [paced EXCEPT ![call.stage][t][n] = @ + 1]
                /\ call' = IF room THEN Onward ELSE Idle
                /\ used' = IF room /\ call.stage = "message"
                           THEN Charged(t, "messages") ELSE used
           ELSE call' = Idle /\ UNCHANGED <<paced, used>>
    /\ UNCHANGED <<conf, redisVars, counts, faults, tenantVars, sent, let, served>>

(* ... and a request without one, or whose tenant cannot be read, shares.     *)
Share ==
    /\ Metered
    /\ \/ ~ForTenant /\ UNCHANGED faults
       \/ ForTenant /\ Fault
    /\ Consume(call.stage, Onward)
    /\ UNCHANGED <<conf, redisVars, tenantVars, used, paced, sent, served>>

Handle ==
    /\ call.stage = "handler"
    /\ call' = Idle
    /\ served' = IF call.request.key \in DOMAIN KeyTenant /\ call.tenant # None
                 THEN [served EXCEPT ![call.tenant] = @ + 1] ELSE served
    /\ UNCHANGED <<conf, redisVars, counts, faults, tenantVars, used, paced, sent, let>>

Administrate ==
    \/ \E t \in Tenants, n \in Limits : SetQuotas(t, n)
    \/ \E k \in keys : RevokeApiKey(k)
    \/ \E t \in Tenants : DeleteTenant(t)

GateNext ==
    \/ Connect \/ Ready \/ Retry \/ GiveUp \/ Lose \/ PingFails \/ Recover
    \/ Administrate
    \/ \E r \in Requests : Arrive(r)
    \/ ByJwt \/ ByTenantKey \/ ByServerKey \/ Refuse
    \/ Answered \/ Pace \/ Share \/ Handle

GateSpec == GateInit /\ [][GateNext]_gateVars

----------------------------------------------------------------------------
(* The limiters count in Redis only while it answers, and when it does they  *)
(* do, unless the health check has found it failing.                         *)
StoreAnswers ==
    /\ backend = "redis" => link = "ready" /\ healthy
    /\ link = "ready" => (healthy <=> backend = "redis")
    /\ call.stage = "waiting" => link = "ready"

(* A shared limiter lets through what its points allow: once in Redis, once  *)
(* in memory, and once more for each time Redis was lost.                    *)
PointsAreKept ==
    \A l \in Shared : let[l] <= Points * (1 + IF conf.redis THEN 1 + faults ELSE 0)

(* The tenant that is charged for a request is the one its handler sees, and *)
(* the one of its key, or one its token may ask for; the headers of a        *)
(* development server may name another.                                      *)
OneIdentity ==
    call.stage = "handler" /\ call.tenant # None =>
        /\ call.context = call.tenant \/ (conf.dev /\ call.request.key = "server")
        /\ Verified(call.request) =>
               call.context \in {call.request.jwt.org} \union call.request.jwt.member
        /\ call.request.key \in DOMAIN KeyTenant /\ ~Verified(call.request) =>
               call.tenant = KeyTenant[call.request.key]

(* Faults of Redis and of the tenants' database never take the limits away   *)
(* from the requests, nor let one pass under another tenant than the one its *)
(* credentials name. *)
GateIsSafe == StoreAnswers /\ PointsAreKept /\ OneIdentity

(* A tenant is served no more requests in a day than its quota names. *)
DailyQuotaHolds == \A t \in Tenants : served[t] <= DayLimit
=============================================================================
