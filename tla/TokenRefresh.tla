----------------------------- MODULE TokenRefresh -----------------------------
(***************************************************************************)
(* The Giving Block client's tokens, services/givingBlockService.ts:       *)
(* loginAndGetTokens, refreshTokens, getAccessToken and                    *)
(* authorizedGivingBlockFetch, for requests that share the cached pair.    *)
(* An access token and a refresh token are issued and cached together:     *)
(* one number stands for the pair.  The service is external: it refuses an *)
(* access token that has expired and a refresh token that was used.        *)
(***************************************************************************)
EXTENDS Naturals

CONSTANTS
    Callers,
    MaxExpiries,    \* bound: access tokens that expire
    MaxFaults       \* bound: calls that fail or time out, refusals of a good token

VARIABLES
    issued,         \* the service: pairs issued so far
    expired, used,  \* access tokens expired, refresh tokens used
    cached,         \* cachedAccessToken and cachedRefreshToken (0: null)
    phase, token,   \* where a request is, and the token it has at hand
    answer,         \* how a caller's last request ended
    faults

service == <<issued, expired, used>>
vars == <<issued, expired, used, cached, phase, token, answer, faults>>

Phases == {"idle", "login", "fetch", "relogin", "refresh", "refetch"}
Answers == {"none", "ok", "refused", "error"}

Init ==
    /\ issued = 0
    /\ expired = {} /\ used = {}
    /\ cached = 0
    /\ phase = [c \in Callers |-> "idle"]
    /\ token = [c \in Callers |-> 0]
    /\ answer = [c \in Callers |-> "none"]
    /\ faults = 0

Goto(c, p, t) ==
    /\ phase' = [phase EXCEPT ![c] = p]
    /\ token' = [token EXCEPT ![c] = t]

End(c, a) ==
    /\ Goto(c, "idle", 0)
    /\ answer' = [answer EXCEPT ![c] = a]

(* A new pair is issued and cached; the caller goes on with its access token. *)
Issue(c, p) ==
    /\ issued' = issued + 1
    /\ cached' = issued + 1
    /\ Goto(c, p, issued + 1)

-----------------------------------------------------------------------------
(* getAccessToken. *)

Request(c) ==
    /\ phase[c] = "idle"
    /\ IF cached = 0 THEN Goto(c, "login", 0) ELSE Goto(c, "fetch", cached)
    /\ UNCHANGED <<service, cached, answer, faults>>

(* loginAndGetTokens, before the request or instead of a refresh. *)
Login(c) ==
    /\ \/ phase[c] = "login" /\ Issue(c, "fetch")
       \/ phase[c] = "relogin" /\ Issue(c, "refetch")
    /\ UNCHANGED <<expired, used, answer, faults>>

(* authorizedGivingBlockFetch: a refused token is refreshed and the request repeated,
   once.  What is refreshed is whatever is cached by now. *)
Fetch(c) ==
    /\ phase[c] = "fetch"
    /\ IF token[c] \notin expired
       THEN End(c, "ok")
       ELSE /\ IF cached = 0 THEN Goto(c, "relogin", 0) ELSE Goto(c, "refresh", cached)
            /\ UNCHANGED answer
    /\ UNCHANGED <<service, cached, faults>>

Refetch(c) ==
    /\ phase[c] = "refetch"
    /\ End(c, IF token[c] \notin expired THEN "ok" ELSE "refused")
    /\ UNCHANGED <<service, cached, faults>>

Refresh(c) ==
    /\ phase[c] = "refresh" /\ token[c] \notin used
    /\ used' = used \cup {token[c]}
    /\ Issue(c, "refetch")
    /\ UNCHANGED <<expired, answer, faults>>

RefreshKept(c) ==
    /\ phase[c] = "refresh" /\ token[c] \in used
    /\ End(c, "refused")
    /\ UNCHANGED <<service, cached, faults>>
(* A refused refresh clears the cache, whichever pair is there by now; its error is
   swallowed and the caller gets the first answer. *)
RefreshRefused(c) ==
    /\ phase[c] = "refresh" /\ token[c] \in used
    /\ cached' = 0
    /\ End(c, "refused")
    /\ UNCHANGED <<service, faults>>

-----------------------------------------------------------------------------
(* A call fails or times out: with it the request, or, where the error is swallowed,
   the caller gets the first answer.  A refresh may have been done all the same; one
   that is answered with an error of any kind clears the cache. *)
Fails(c) ==
    /\ phase[c] # "idle" /\ faults < MaxFaults
    /\ faults' = faults + 1
    /\ End(c, IF phase[c] \in {"login", "fetch"} THEN "error" ELSE "refused")
    /\ used' \in {used, IF phase[c] = "refresh" THEN used \cup {token[c]} ELSE used}
    /\ cached' \in {cached, IF phase[c] = "refresh" THEN 0 ELSE cached}
    /\ UNCHANGED <<issued, expired>>

Expire(t) ==
    /\ t \notin expired
    /\ expired' = expired \cup {t}
    /\ UNCHANGED <<issued, used, cached, phase, token, answer, faults>>

(* The process restarts, and with it the module's variables. *)
Restart ==
    /\ faults < MaxFaults
    /\ faults' = faults + 1
    /\ cached' = 0
    /\ phase' = [c \in Callers |-> "idle"]
    /\ token' = [c \in Callers |-> 0]
    /\ UNCHANGED <<service, answer>>

-----------------------------------------------------------------------------
CallerStep(c) ==
    Login(c) \/ Fetch(c) \/ Refetch(c) \/ Refresh(c) \/ RefreshRefused(c)

Next ==
    \/ \E c \in Callers : Request(c) \/ CallerStep(c) \/ Fails(c)
    \/ \E t \in 1 .. issued : t <= MaxExpiries /\ Expire(t)
    \/ Restart

-----------------------------------------------------------------------------
(* Properties. *)

(* Every variable has its type. *)
TypeOK ==
    /\ issued \in Nat /\ cached \in 0 .. issued
    /\ expired \subseteq 1 .. issued /\ used \subseteq 1 .. issued
    /\ phase \in [Callers -> Phases]
    /\ token \in [Callers -> 0 .. issued]
    /\ answer \in [Callers -> Answers]
    /\ faults \in 0 .. MaxFaults

(* As long as requests keep coming, they are served again some time after the last
   expiry and the last failure: no stale pair stays in the cache for good, not even
   one whose refresh was done without the answer getting through. *)
TokensRecover ==
    (\A c \in Callers : []<><<Request(c)>>_vars)
        => <>[](\A c \in Callers : answer[c] \notin {"refused", "error"})
===============================================================================
