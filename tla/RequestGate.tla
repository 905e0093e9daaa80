----------------------------- MODULE RequestGate -----------------------------
(***************************************************************************)
(* What a request passes before the handler of /api/extract-text sees it:  *)
(* AuthMiddleware with its cache of users, RequireActiveUser, the slots of *)
(* ConcurrencyLimit and the counters of RateLimitUser; and the accounts it *)
(* depends on, from Register to ApproveUser.                               *)
(*                                                                         *)
(* A call is counted in Redis, or in the RAM of its process when Redis     *)
(* does not answer.  It takes its time stamp before it is counted, from    *)
(* the clock of its process: Skew bounds how far behind it may be.  What   *)
(* either of them has counted is gone when it is restarted.                *)
(***************************************************************************)
EXTENDS Integers, Sequences, FiniteSets

CONSTANTS
    User,           \* the user names
    Veteran,        \* those with an approved account at the start
    Request,        \* the connections, each with one request at a time
    Proc,           \* the web processes
    At,             \* At[r]: the process request r is sent to
    Nobody,         \* no user
    Address,        \* network addresses, of clients and of proxies
    Proxies,        \* the sets of them the service may be told to trust
    MaxSlots,       \* extractMaxConcurrent, per process
    Limit,          \* extractRateLimitRequests
    Window,         \* extractRateLimitWindow
    Skew,           \* bound on the age of a time stamp
    MaxTime,        \* bound on the clock
    MaxCalls,       \* bound on the calls that are counted
    MaxRestarts     \* bound on the restarts of Redis and of processes

ASSUME GateAssumption ==
    /\ Veteran \subseteq User /\ Nobody \notin User
    /\ IsFiniteSet(Request) /\ At \in [Request -> Proc] /\ "redis" \notin Proc
    /\ Proxies \subseteq SUBSET Address /\ {"", "junk"} \cap Address = {}
    /\ MaxSlots \in Nat \ {0} /\ Limit \in Nat \ {0}
    /\ Window \in Nat /\ Skew \in 0..Window
    /\ MaxTime \in Nat /\ MaxCalls \in Nat /\ MaxRestarts \in Nat

VARIABLES
    redis,          \* is Redis configured?  Fixed for an execution
    trusted,        \* trustedProxies.  Fixed for an execution
    account,        \* account[u]: the row of u in users
    token,          \* the users that hold an access token
    cache,          \* cache[u]: the record at auth:user:<u> in Redis
    pc,             \* pc[r]: where request r stands
    by,             \* by[r]: the user of its token
    seen,           \* seen[r]: what lookupUser has read of users
    slots,          \* slots[p]: the length of the channel sem of process p
    now,            \* the clock
    zset,           \* zset[u]: the members of ratelimit:extract:user:<u>
    hits,           \* hits[p][u]: keyedLimiter.hits of process p
    calls,          \* the calls counted so far
    restarts,       \* the restarts so far
    life,           \* life[c]: the last of them that was one of c, a process or Redis
    log,            \* history: the calls a counter has let through
    turnedAway,     \* history: a valid access token was refused as inactive
    keptOut         \* history: a call was refused with less than Limit counted

fixed    == <<redis, trusted>>
users    == <<account, token, cache>>
requests == <<pc, by, seen>>
counters == <<zset, hits, calls, restarts, life, log, keptOut>>
vars == <<redis, trusted, account, token, cache, pc, by, seen, slots, now, zset, hits,
          calls, restarts, life, log, turnedAway, keptOut>>

Status == {"none", "pending", "approved"}

(* Is there a free slot? *)
Free(p) == slots[p] < MaxSlots

(* Where calls are counted: each counter is lost when its holder restarts. *)
Source == Proc \cup {"redis"}

Goto(r, place) == pc' = [pc EXCEPT ![r] = place]

(* A member of a counter: a stamp, and the number that makes it unique. *)
Stamp == [t : 0..MaxTime, n : 1..MaxCalls]
-----------------------------------------------------------------------------
Init ==
    /\ redis \in BOOLEAN
    /\ trusted \in Proxies                        \* SetTrustedProxies
    /\ account = [u \in User |-> IF u \in Veteran THEN "approved" ELSE "none"]
    /\ token = {}
    /\ cache = [u \in User |-> "none"]
    /\ pc = [r \in Request |-> "idle"]
    /\ by = [r \in Request |-> Nobody]
    /\ seen = [r \in Request |-> "none"]
    /\ slots = [p \in Proc |-> 0]
    /\ now = 0
    /\ zset = [u \in User |-> {}]
    /\ hits = [p \in Proc |-> [u \in User |-> {}]]
    /\ calls = 0
    /\ restarts = 0
    /\ life = [c \in Source |-> 0]
    /\ log = {}
    /\ turnedAway = FALSE
    /\ keptOut = FALSE
-----------------------------------------------------------------------------
(* Accounts *)

(* Register; of two at once, the UNIQUE name lets one INSERT through. *)
Register(u) ==
    /\ account[u] = "none"
    /\ account' = [account EXCEPT ![u] = "pending"]
    /\ UNCHANGED <<fixed, token, cache, requests, slots, now, counters, turnedAway>>

(* ApproveUser by an administrator; the DEL of InvalidateUser may fail. *)
ApproveUser(u) ==
    /\ account[u] # "none"
    /\ account' = [account EXCEPT ![u] = "approved"]
    /\ cache' \in {cache, [cache EXCEPT ![u] = "none"]}
    /\ UNCHANGED <<fixed, token, requests, slots, now, counters, turnedAway>>

(* Mutant: whoever knows the password gets a token. *)
LoginUnasked(u) ==
    /\ account[u] # "none"
    /\ token' = token \cup {u}
    /\ UNCHANGED <<fixed, account, cache, requests, slots, now, counters, turnedAway>>

(* Login refuses an account that is not approved. *)
Login(u) ==
    /\ account[u] = "approved"
    /\ token' = token \cup {u}
    /\ UNCHANGED <<fixed, account, cache, requests, slots, now, counters, turnedAway>>

(* The token expires; the TTL of the record passes. *)
Expire(u) ==
    /\ \/ u \in token /\ token' = token \ {u} /\ UNCHANGED cache
       \/ cache[u] # "none" /\ cache' = [cache EXCEPT ![u] = "none"] /\ UNCHANGED token
    /\ UNCHANGED <<fixed, account, requests, slots, now, counters, turnedAway>>
-----------------------------------------------------------------------------
(* AuthMiddleware and RequireActiveUser *)

(* The connections have room for one more call. *)
Room == calls + Cardinality({r \in Request : pc[r] # "idle"}) < MaxCalls

(* An active user waits for a slot; anybody else is refused. *)
Judge(r, u, status) ==
    /\ turnedAway' = (turnedAway \/ status # "approved")
    /\ Goto(r, IF status = "approved" THEN "slot" ELSE "idle")
    /\ by' = [by EXCEPT ![r] = IF status = "approved" THEN u ELSE Nobody]

(* lookupUser finds the record in the cache. *)
LookupHit(r, u) ==
    /\ pc[r] = "idle" /\ u \in token /\ Room
    /\ cache[u] # "none"
    /\ Judge(r, u, cache[u])
    /\ UNCHANGED <<fixed, users, seen, slots, now, counters>>

(* Or not, or Redis does not answer: it reads the row. *)
LookupMiss(r, u) ==
    /\ pc[r] = "idle" /\ u \in token /\ Room
    /\ by' = [by EXCEPT ![r] = u]
    /\ seen' = [seen EXCEPT ![r] = account[u]]
    /\ Goto(r, "put")
    /\ UNCHANGED <<fixed, users, slots, now, counters, turnedAway>>

(* What it has read goes into the cache, unless Redis fails. *)
LookupPut(r) ==
    /\ pc[r] = "put"
    /\ cache' \in IF redis THEN {cache, [cache EXCEPT ![by[r]] = seen[r]]} ELSE {cache}
    /\ Judge(r, by[r], seen[r])
    /\ seen' = [seen EXCEPT ![r] = "none"]
    /\ UNCHANGED <<fixed, account, token, slots, now, counters>>
-----------------------------------------------------------------------------
(* ConcurrencyLimit *)

TakeSlot(r) ==
    /\ pc[r] = "slot"
    /\ Free(At[r])
    /\ slots' = [slots EXCEPT ![At[r]] = @ + 1]
    /\ Goto(r, "limit")
    /\ UNCHANGED <<fixed, users, by, seen, now, counters, turnedAway>>

(* The client leaves while it waits. *)
LeaveQueue(r) ==
    /\ pc[r] = "slot"
    /\ Goto(r, "idle")
    /\ by' = [by EXCEPT ![r] = Nobody]
    /\ UNCHANGED <<fixed, users, seen, slots, now, counters, turnedAway>>

(* Mutant: the slot comes back when the handler has returned only. *)
ReleaseServed(r) == slots' = IF pc[r] = "work" THEN [slots EXCEPT ![At[r]] = @ - 1]
                             ELSE slots

(* The deferred receive, however the request ends. *)
Release(r) == slots' = [slots EXCEPT ![At[r]] = @ - 1]
-----------------------------------------------------------------------------
(* keyedLimiter.allow *)

(* The members a call with stamp t does not drop. *)
InWindow(members, t) == {m \in members : m.t > t - Window}

(* Mutant: the comparison is off by one. *)
HasRoomForOneMore(members, t) == Cardinality(InWindow(members, t)) <= Limit

HasRoom(members, t) == Cardinality(InWindow(members, t)) < Limit

(* Mutant: a call counts whether it is let through or not. *)
CountedAlways(members, m) == InWindow(members, m.t) \cup {m}

(* A counter after a call: the script in Redis and the slice in RAM agree. *)
Counted(members, m) ==
    InWindow(members, m.t) \cup (IF HasRoom(members, m.t) THEN {m} ELSE {})

Entry(r, c, m) == [u |-> by[r], t |-> m.t, n |-> m.n, in |-> c, life |-> life[c]]

(* The calls of u among entries that were counted in the window before t. *)
Recent(entries, u, t) == {e \in entries : e.u = u /\ e.t > t - Window}

Passed(r) ==
    /\ Goto(r, "work")
    /\ UNCHANGED <<by, slots, keptOut>>

(* 429, on account of the calls in entries. *)
Refused(r, m, entries) ==
    /\ keptOut' = (keptOut \/ Cardinality(Recent(entries, by[r], m.t)) < Limit)
    /\ Goto(r, "idle")
    /\ by' = [by EXCEPT ![r] = Nobody]
    /\ Release(r)

(* slidingWindowScript counts and decides in one step. *)
AllowRedis(r, m) ==
    /\ redis
    /\ zset' = [zset EXCEPT ![by[r]] = Counted(@, m)]
    /\ UNCHANGED hits
    /\ IF HasRoom(zset[by[r]], m.t)
       THEN Passed(r) /\ log' = log \cup {Entry(r, "redis", m)}
       ELSE Refused(r, m, log) /\ UNCHANGED log

(* The answer is lost after the script had room for the call: the client   *)
(* library sends it again, and it meets its own first copy.                *)
AllowResent(r, m) ==
    LET once == Counted(zset[by[r]], m) IN
    /\ redis /\ HasRoom(zset[by[r]], m.t)
    /\ zset' = [zset EXCEPT ![by[r]] = once]
    /\ UNCHANGED hits
    /\ log' = log \cup {Entry(r, "redis", m)}
    /\ IF HasRoom(once, m.t) THEN Passed(r) ELSE Refused(r, m, log')

(* There is no Redis, or it does not answer in time, and may yet count. *)
AllowRam(r, m) ==
    /\ zset' \in IF redis THEN {zset, [zset EXCEPT ![by[r]] = Counted(@, m)]} ELSE {zset}
    /\ hits' = [hits EXCEPT ![At[r]][by[r]] = Counted(@, m)]
    /\ IF HasRoom(hits[At[r]][by[r]], m.t)
       THEN Passed(r) /\ log' = log \cup {Entry(r, At[r], m)}
       ELSE /\ Refused(r, m, log)
            /\ log' = log \cup {Entry(r, "redis", x) : x \in zset'[by[r]] \cap {m}}

Allow(r) ==
    /\ pc[r] = "limit"
    /\ calls' = calls + 1
    /\ \E d \in 0..Skew :
          /\ d <= now
          /\ LET m == [t |-> now - d, n |-> calls + 1] IN
             AllowRedis(r, m) \/ AllowResent(r, m) \/ AllowRam(r, m)
    /\ UNCHANGED <<fixed, users, seen, now, restarts, life, turnedAway>>

(* ExtractText returns, or panics. *)
Work(r) ==
    /\ pc[r] = "work"
    /\ Goto(r, "idle")
    /\ by' = [by EXCEPT ![r] = Nobody]
    /\ Release(r)
    /\ UNCHANGED <<fixed, users, seen, now, counters, turnedAway>>

(* A key of which no hit is inside the window. *)
Stale(members) == members # {} /\ \A m \in members : m.t <= now - Window

(* reap *)
Reap(p) ==
    /\ \E u \in User : Stale(hits[p][u])
    /\ hits' = [hits EXCEPT ![p] = [u \in User |-> IF Stale(@[u]) THEN {} ELSE @[u]]]
    /\ UNCHANGED <<fixed, users, requests, slots, now, zset, calls, restarts, life, log,
                   turnedAway, keptOut>>

(* What c has counted belongs to an earlier life from now on. *)
Reborn(c) ==
    /\ restarts < MaxRestarts
    /\ restarts' = restarts + 1
    /\ life' = [life EXCEPT ![c] = restarts + 1]

(* Redis is restarted; nothing it holds is on disk. *)
RestartRedis ==
    /\ redis
    /\ Reborn("redis")
    /\ zset' = [u \in User |-> {}]
    /\ cache' = [u \in User |-> "none"]
    /\ UNCHANGED <<fixed, account, token, requests, slots, now, hits, calls, log, turnedAway,
                   keptOut>>

(* A process is restarted, and its requests end. *)
RestartProcess(p) ==
    /\ Reborn(p)
    /\ hits' = [hits EXCEPT ![p] = [u \in User |-> {}]]
    /\ slots' = [slots EXCEPT ![p] = 0]
    /\ pc' = [r \in Request |-> IF At[r] = p THEN "idle" ELSE pc[r]]
    /\ by' = [r \in Request |-> IF At[r] = p THEN Nobody ELSE by[r]]
    /\ seen' = [r \in Request |-> IF At[r] = p THEN "none" ELSE seen[r]]
    /\ UNCHANGED <<fixed, users, now, zset, calls, log, turnedAway, keptOut>>

Tick ==
    /\ now < MaxTime
    /\ now' = now + 1
    /\ UNCHANGED <<fixed, users, requests, slots, counters, turnedAway>>
-----------------------------------------------------------------------------
Next ==
    \/ \E u \in User : Register(u) \/ ApproveUser(u) \/ Login(u) \/ Expire(u)
    \/ \E r \in Request :
          \/ \E u \in User : LookupHit(r, u) \/ LookupMiss(r, u)
          \/ LookupPut(r) \/ TakeSlot(r) \/ LeaveQueue(r) \/ Allow(r) \/ Work(r)
    \/ \E p \in Proc : Reap(p) \/ RestartProcess(p)
    \/ RestartRedis
    \/ Tick

Spec == Init /\ [][Next]_vars

(* A request that can go on does. *)
FairSpec ==
    /\ Spec
    /\ \A r \in Request :
          WF_vars(LookupPut(r)) /\ WF_vars(TakeSlot(r)) /\ WF_vars(Allow(r)) /\ WF_vars(Work(r))
-----------------------------------------------------------------------------
(* ClientIP, the key of the limits on login, register and refresh.  xff is   *)
(* the split X-Forwarded-For; "junk" stands for a hop that is no address.    *)

(* Mutant: the hops are scanned from the left. *)
ClientIPLeftmost(remote, xff) ==
    LET telling == {i \in 1..Len(xff) : xff[i] # "" /\ xff[i] \notin trusted}
        first == CHOOSE i \in telling : \A j \in telling : i <= j
    IN IF remote \notin trusted \/ telling = {} \/ xff[first] = "junk" THEN remote
       ELSE xff[first]

ClientIP(remote, xff) ==
    LET telling == {i \in 1..Len(xff) : xff[i] # "" /\ xff[i] \notin trusted}
        last == CHOOSE i \in telling : \A j \in telling : j <= i
    IN IF remote \notin trusted \/ telling = {} \/ xff[last] = "junk" THEN remote
       ELSE xff[last]
-----------------------------------------------------------------------------
(* Properties *)

TypeOK ==
    /\ redis \in BOOLEAN /\ trusted \subseteq Address
    /\ account \in [User -> Status] /\ cache \in [User -> Status]
    /\ token \subseteq User
    /\ pc \in [Request -> {"idle", "put", "slot", "limit", "work"}]
    /\ by \in [Request -> User \cup {Nobody}]
    /\ seen \in [Request -> Status]
    /\ slots \in [Proc -> 0..MaxSlots]
    /\ now \in 0..MaxTime
    /\ zset \in [User -> SUBSET Stamp]
    /\ hits \in [Proc -> [User -> SUBSET Stamp]]
    /\ calls \in 0..MaxCalls
    /\ restarts \in 0..MaxRestarts /\ life \in [Source -> 0..MaxRestarts]
    /\ log \subseteq [u : User, t : 0..MaxTime, n : 1..MaxCalls, in : Source,
                     life : 0..MaxRestarts]
    /\ turnedAway \in BOOLEAN /\ keptOut \in BOOLEAN

(* Whatever order the calls arrive in, a counter lets no more than Limit of  *)
(* a user through in any Window - Skew, from one restart of the process or   *)
(* the Redis that keeps it to the next: a restart, and nothing else, opens   *)
(* the window again.  So the service lets through at most Limit times the    *)
(* counters that had a life in the window, while Redis comes and goes.       *)
(* Stamps may be older than what the counter has dropped already.            *)
EveryWindowHolds ==
    \A u \in User, c \in Source, k \in 0..MaxRestarts, x \in 0..MaxTime :
       Cardinality({e \in log : /\ e.u = u /\ e.in = c /\ e.life = k
                                /\ x <= e.t /\ e.t < x + Window - Skew}) <= Limit

(* A call is refused only if the user has had Limit calls counted in the     *)
(* Window before it: calls that were refused, calls of others and calls that *)
(* a failing Redis did not count do not keep anybody out.  Only a call that  *)
(* is sent again because its answer was lost counts against itself.          *)
RefusedOnlyWhenFull == ~keptOut

(* The user cache never makes an account wait that holds a token: what was   *)
(* read of users before an approval is not found in the cache after it       *)
(* (handlers/auth.go:454).                                                   *)
ActiveIsServed == ~turnedAway

(* A request that waits for a slot gets one or leaves: those that hold one   *)
(* give it back also when they are refused by the limit behind it.           *)
WaitersGetThrough == \A r \in Request : pc[r] = "slot" ~> pc[r] # "slot"

AtMostOne(S) == {<<>>} \cup {<<x>> : x \in S}

(* Each trusted proxy appends the address it was called from.  Whatever a    *)
(* client writes into the header first, its own address is what counts.      *)
ForgedHopsAreIgnored ==
    \A client \in Address \ trusted :
    \A forged \in AtMostOne(Address \cup {"", "junk"}) :
       /\ ClientIP(client, forged) = client
       /\ \A hops \in AtMostOne(trusted) : \A remote \in trusted :
             ClientIP(remote, forged \o <<client>> \o hops) = client
=============================================================================
