------------------------------ MODULE LoginNonce ------------------------------
(***************************************************************************)
(* Signing in with a wallet.  POST /api/auth/nonce answers at once with a  *)
(* nonce, in the body and in a cookie, and stores it in the user document  *)
(* afterwards; POST /api/auth/verify checks the signature of a nonce, the  *)
(* cookie's or else the stored one; the login page fetches a nonce ahead   *)
(* of the click, keeps it for four minutes and tries a login once more.    *)
(* One address, and tabs of one browser, which share the cookie.           *)
(*                                                                         *)
(* A nonce is named by the tab that keeps it; one that its tab keeps no    *)
(* longer can never be the signed one again, and all of these are Spent.   *)
(***************************************************************************)
EXTENDS Naturals

CONSTANTS
    Tabs,
    MaxFaults       \* bound: cookies that expire or come late, writes and requests that fail,
                    \* signatures that are not given

VARIABLES
    cookie,         \* login_nonce
    stored,         \* the user's nonce (Null: none, or older than 5 minutes)
    pending,        \* nonces whose background write is still to come
    phase,          \* where a tab is
    warming,        \* is its prefetch under way
    kept,           \* has it a prefetchedNonce (that is not older than 4 minutes), which
                    \* is the nonce it has signed, if it is past fetching one
    faults

server == <<cookie, stored, pending>>
vars == <<cookie, stored, pending, phase, warming, kept, faults>>

Phases == {"away", "page", "nonce", "sign", "nonce again", "sign again", "in"}
Null == "null"
Spent == "spent"
Nonces == Tabs \cup {Spent}

Init ==
    /\ cookie = Null
    /\ stored = Null
    /\ pending = {}
    /\ phase = [t \in Tabs |-> "away"]
    /\ warming = [t \in Tabs |-> FALSE]
    /\ kept = [t \in Tabs |-> FALSE]
    /\ faults = 0

Goto(t, p) == phase' = [phase EXCEPT ![t] = p]

Fault == faults < MaxFaults /\ faults' = faults + 1

(* What n is once the tab t keeps its nonce no longer. *)
Without(t, n) == IF n = t THEN Spent ELSE n
PendingWithout(t) == {Without(t, n) : n \in pending}

(* Of a request that is given up on, the server may still store the nonce, and the
   cookie may have come: both are Spent, as no tab keeps it. *)
Unheard(requests) == IF requests THEN {{}, {Spent}} ELSE {{}}

Forget(t, unheard) ==
    /\ kept' = [kept EXCEPT ![t] = FALSE]
    /\ stored' = Without(t, stored)
    /\ pending' = PendingWithout(t) \cup unheard
    /\ cookie' \in {Without(t, cookie)} \cup unheard

-----------------------------------------------------------------------------
(* POST /api/auth/nonce: the answer reaches the tab, and with it the cookie.  The
   background writes end in any order, or fail. *)

Answered(t, unheard) ==
    /\ \/ cookie' = t /\ UNCHANGED faults
       \/ cookie' \in unheard /\ Fault
    /\ stored' = Without(t, stored)
    /\ pending' = PendingWithout(t) \cup {t} \cup unheard
    /\ kept' = [kept EXCEPT ![t] = TRUE]
    /\ warming' = [warming EXCEPT ![t] = FALSE]

(* There may be several writes of spent nonces. *)
Written(n) == pending' \in {pending \ {n}, IF n = Spent THEN pending ELSE pending \ {n}}

Persist(n) ==
    /\ n \in pending /\ Written(n)
    /\ stored' = n
    /\ UNCHANGED <<cookie, phase, warming, kept, faults>>

PersistFails(n) ==
    /\ n \in pending /\ Written(n) /\ Fault
    /\ UNCHANGED <<cookie, stored, phase, warming, kept>>

-----------------------------------------------------------------------------
(* The login page. *)

(* It is opened with a connected wallet: the effect prefetches a nonce. *)
Open(t) ==
    /\ phase[t] = "away"
    /\ Goto(t, "page")
    /\ warming' = [warming EXCEPT ![t] = TRUE]
    /\ UNCHANGED <<server, kept, faults>>

Prefetched(t) ==
    /\ warming[t]
    /\ Answered(t, {})
    /\ UNCHANGED phase

(* handleLogin: a click while one is handled does nothing. *)
Click(t) ==
    /\ phase[t] = "page"
    /\ Goto(t, IF kept[t] THEN "sign" ELSE "nonce")
    /\ UNCHANGED <<server, warming, kept, faults>>

(* The nonce fetched is kept too, which aborts a prefetch that is under way. *)
Fetched(t) ==
    /\ \/ phase[t] = "nonce" /\ Goto(t, "sign")
       \/ phase[t] = "nonce again" /\ Goto(t, "sign again")
    /\ \E unheard \in Unheard(warming[t]) : Answered(t, unheard)

StillHandled(unheard) ==
    /\ pending' = pending \cup unheard
    /\ cookie' \in {cookie} \cup unheard

Asks(t) == phase[t] \in {"nonce", "nonce again"}

(* A request fails, the wallet refuses to sign, or a prefetch fails. *)
ClickFails(t) ==
    /\ phase[t] \notin {"away", "page", "in"} /\ Fault
    /\ Goto(t, "page")
    /\ \E unheard \in Unheard(Asks(t)) : StillHandled(unheard)
    /\ UNCHANGED <<stored, warming, kept>>
PrefetchFails(t) ==
    /\ warming[t] /\ Fault
    /\ warming' = [warming EXCEPT ![t] = FALSE]
    /\ \E unheard \in Unheard(TRUE) : StillHandled(unheard)
    /\ UNCHANGED <<stored, phase, kept>>

(* The user leaves the page, which aborts a login under way, or logs out. *)
Leave(t) ==
    /\ phase[t] # "away"
    /\ IF phase[t] \in {"page", "in"} THEN UNCHANGED faults ELSE Fault
    /\ Goto(t, "away")
    /\ warming' = [warming EXCEPT ![t] = FALSE]
    /\ \E unheard \in Unheard(warming[t] \/ Asks(t)) : Forget(t, unheard)

-----------------------------------------------------------------------------
(* POST /api/auth/verify, and what the page does with the answer. *)

StoredFirst == IF stored # Null THEN stored ELSE cookie
NonceToUse == IF cookie # Null THEN cookie ELSE stored

(* Every answer clears the cookie.  A nonce that is missing or expired is fetched once
   more; one that is not the signed one is an error, and stays the one to sign.  A
   login that succeeds leaves the page, and creates the user, with a nonce nobody has,
   if there is none yet. *)
Verify(t) ==
    /\ phase[t] \in {"sign", "sign again"}
    /\ cookie' = Null
    /\ IF NonceToUse = t
       THEN /\ Goto(t, "in")
            /\ kept' = [kept EXCEPT ![t] = FALSE]
            /\ stored' \in IF stored = Null THEN {Null, Spent} ELSE {Without(t, stored)}
            /\ pending' = PendingWithout(t)
       ELSE /\ Goto(t, IF NonceToUse = Null /\ phase[t] = "sign"
                       THEN "nonce again" ELSE "page")
            /\ UNCHANGED <<stored, pending, kept>>
    /\ UNCHANGED <<warming, faults>>

(* Four minutes pass since the nonce was fetched, which only a click looks at. *)
KeptAges(t) ==
    /\ phase[t] = "page" /\ kept[t]
    /\ Forget(t, {})
    /\ UNCHANGED <<phase, warming, faults>>

(* Five minutes pass for the cookie, or for the stored nonce. *)
CookieExpires ==
    /\ cookie # Null /\ Fault
    /\ cookie' = Null
    /\ UNCHANGED <<stored, pending, phase, warming, kept>>

StoredExpires ==
    /\ stored # Null
    /\ stored' = Null
    /\ UNCHANGED <<cookie, pending, phase, warming, kept, faults>>

-----------------------------------------------------------------------------
Next ==
    \/ \E t \in Tabs :
        \/ Open(t) \/ Prefetched(t) \/ Click(t) \/ Fetched(t) \/ Verify(t) \/ Leave(t)
        \/ ClickFails(t) \/ PrefetchFails(t) \/ KeptAges(t)
    \/ \E n \in Nonces : Persist(n) \/ PersistFails(n)
    \/ CookieExpires \/ StoredExpires

(* A login that a click has begun goes on by itself. *)
LoginGoesOn(t) == Fetched(t) \/ Verify(t)

-----------------------------------------------------------------------------
(* Properties. *)

(* Every variable has its type. *)
TypeOK ==
    /\ cookie \in Nonces \cup {Null}
    /\ stored \in Nonces \cup {Null}
    /\ pending \subseteq Nonces
    /\ kept \in [Tabs -> BOOLEAN]
    /\ phase \in [Tabs -> Phases]
    /\ warming \in [Tabs -> BOOLEAN]
    /\ faults \in 0 .. MaxFaults

(* A tab that clicks again and again, while at last no other tab signs in or fetches
   a nonce, gets in: whatever nonces other tabs have put into the cookie meanwhile,
   and however late and in whatever order they are stored. *)
LoginGetsThrough ==
    \A t \in Tabs :
        /\ <>[](\A u \in Tabs \ {t} : phase[u] \in {"away", "in"} /\ ~warming[u])
        /\ []<><<Click(t)>>_vars
        => []<>(phase[t] = "in")
===============================================================================
