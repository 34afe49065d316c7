------------------------------ MODULE RateLimits ------------------------------
(***************************************************************************)
(* How often one client address may ask: lib/redisRateLimit.ts counts in   *)
(* Redis with INCR and gives the first count a time to live in a second    *)
(* call; lib/rateLimit.ts counts in the process, from the first request of *)
(* a window.  Time is a number of ticks, Redis is external.                *)
(***************************************************************************)
EXTENDS Naturals

CONSTANTS
    Window,         \* ticks of a window
    Limit,          \* requests allowed in it: opts.max, RATE_LIMIT_MAX
    MaxBreaks       \* bound: calls of Redis that fail, processes that end

VARIABLES
    counter,        \* Redis: the key's value, 0 when there is no key
    ttl,            \* its time to live; Forever when it has none
    expiring,       \* requests whose INCR gave 1 and whose EXPIRE is to come
    count, age,     \* the process: ipCache[ip].count and the age of its timestamp
    allowed,        \* [limiter |-> the last request was allowed]
    orphaned,       \* ghost: a key was left without a time to live
    breaks

redis == <<counter, ttl, expiring, orphaned>>
memory == <<count, age>>
vars == <<counter, ttl, expiring, count, age, allowed, orphaned, breaks>>

Forever == Window + 1

(* A count beyond the limit is as good as the first beyond it. *)
Increment(n) == IF n > Limit THEN n ELSE n + 1

Init ==
    /\ counter = 0 /\ ttl = Forever /\ expiring = 0
    /\ count = 0 /\ age = Window + 1
    /\ allowed = [redis |-> TRUE, memory |-> TRUE]
    /\ orphaned = FALSE /\ breaks = 0

(* client.incr: a new key has no time to live yet. *)
Incr ==
    /\ counter' = Increment(counter)
    /\ expiring' = IF counter = 0 THEN expiring + 1 ELSE expiring
    /\ allowed' = [allowed EXCEPT !.redis = counter' <= Limit]
    /\ UNCHANGED <<ttl, memory, orphaned, breaks>>

ExpireForgotten ==
    /\ expiring' = expiring - 1
    /\ UNCHANGED ttl
SetExpiry ==
    /\ expiring' = expiring - 1
    /\ ttl' = Window

Expire ==
    /\ expiring > 0
    /\ SetExpiry
    /\ UNCHANGED <<counter, memory, allowed, orphaned, breaks>>

(* The second call fails, or the process ends before it: nobody makes it again. *)
ExpireLost ==
    /\ expiring > 0 /\ breaks < MaxBreaks
    /\ expiring' = expiring - 1
    /\ orphaned' = TRUE
    /\ breaks' = breaks + 1
    /\ UNCHANGED <<counter, ttl, memory, allowed>>

(* Redis does not answer the first call: the request is allowed. *)
IncrFails ==
    /\ breaks < MaxBreaks
    /\ breaks' = breaks + 1
    /\ allowed' = [allowed EXCEPT !.redis = TRUE]
    /\ UNCHANGED <<redis, memory>>

(* rateLimit: one synchronous step. *)
Ask ==
    /\ IF age > Window
       THEN /\ count' = 1 /\ age' = 0
            /\ allowed' = [allowed EXCEPT !.memory = TRUE]
       ELSE /\ count' = Increment(count)
            /\ allowed' = [allowed EXCEPT !.memory = count' <= Limit]
            /\ UNCHANGED age
    /\ UNCHANGED <<redis, breaks>>

Tick ==
    /\ ttl # Forever \/ age <= Window
    /\ IF ttl \in 1 .. Window
       THEN ttl' = ttl - 1 /\ UNCHANGED counter
       ELSE ttl' = Forever /\ counter' = IF ttl = 0 THEN 0 ELSE counter
    /\ age' = IF age <= Window THEN age + 1 ELSE age
    /\ UNCHANGED <<expiring, count, allowed, orphaned, breaks>>

Next == Incr \/ Expire \/ ExpireLost \/ IncrFails \/ Ask \/ Tick

-----------------------------------------------------------------------------
(* Properties. *)

(* Every variable has its type; a key that is to expire is never counted twice. *)
TypeOK ==
    /\ counter \in 0 .. Limit + 1 /\ count \in 0 .. Limit + 1
    /\ ttl \in 0 .. Forever /\ age \in 0 .. Window + 1
    /\ expiring \in 0 .. 1
    /\ allowed \in [redis : BOOLEAN, memory : BOOLEAN]
    /\ orphaned \in BOOLEAN /\ breaks \in 0 .. MaxBreaks

(* A client that keeps asking is allowed again and again, in the process and in Redis,
   unless the call that sets the time to live got lost after the count. *)
WindowEnds ==
    /\ []<>allowed.memory
    /\ []<>(allowed.redis \/ orphaned)
===============================================================================
