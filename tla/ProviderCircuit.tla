--------------------------- MODULE ProviderCircuit ---------------------------
(***************************************************************************)
(* services/provider.ts, withProvider: calls to one RPC endpoint that are  *)
(* repeated after an error or a timeout, and refused for a minute once the *)
(* endpoint has failed too often.  The endpoint is external: it is up or   *)
(* down, and what is called while it is down fails.                        *)
(***************************************************************************)
EXTENDS Naturals

CONSTANTS
    Callers,
    Retries,        \* retries of a call
    MaxOutages      \* bound: times the endpoint goes down

VARIABLES
    up,             \* the endpoint answers
    outages,
    table,          \* circuitState[url]: the object of one of the callers, or none
    failures,       \* of each caller's object, counted to where it makes no difference
    opened,         \* its openedAt: "never", less than a minute ago, or "past"
    mine,           \* the object a call works with
    attempt,        \* of a call that runs; 0: none runs
    outcome         \* how a caller's last call ended

endpoint == <<up, outages>>
vars == <<up, outages, table, failures, opened, mine, attempt, outcome>>

None == "none"

Init ==
    /\ up = TRUE /\ outages = 0
    /\ table = None
    /\ failures = [c \in Callers |-> 0]
    /\ opened = [c \in Callers |-> "never"]
    /\ mine = [c \in Callers |-> c]
    /\ attempt = [c \in Callers |-> 0]
    /\ outcome = [c \in Callers |-> "none"]

(* The object in the table, or a new one of the call's own: the table stays empty
   until a failure, so the caller's old object is nobody's. *)
Object(c) == IF table = None THEN c ELSE table

Tripped(o) == opened[o] # "never"
Open(o) == opened[o] = "open"

Call(c) ==
    /\ attempt[c] = 0
    /\ IF Open(Object(c))
       THEN /\ outcome' = [outcome EXCEPT ![c] = "refused"]
            /\ UNCHANGED <<mine, attempt>>
       ELSE /\ mine' = [mine EXCEPT ![c] = Object(c)]
            /\ attempt' = [attempt EXCEPT ![c] = 1]
            /\ UNCHANGED outcome
    /\ UNCHANGED <<endpoint, table, failures, opened>>

Ends(c, how) ==
    /\ attempt' = [attempt EXCEPT ![c] = 0]
    /\ outcome' = [outcome EXCEPT ![c] = how]

(* A success leaves the count of failures as it is. *)
Succeeds(c) ==
    /\ attempt[c] # 0 /\ up
    /\ Ends(c, "ok")
    /\ UNCHANGED <<endpoint, table, failures, opened, mine>>

(* The failure is counted in the call's object, which becomes the table's whichever
   that had; too many open it, again if it was open before. *)
Fails(c) ==
    LET o == mine[c] IN
    /\ attempt[c] # 0 /\ ~up
    /\ failures' = [failures EXCEPT ![o] = IF @ > Retries THEN @ ELSE @ + 1]
    /\ table' = o
    /\ opened' = [opened EXCEPT ![o] = IF failures[o] >= Retries THEN "open" ELSE @]
    /\ IF attempt[c] <= Retries
       THEN attempt' = [attempt EXCEPT ![c] = @ + 1] /\ UNCHANGED outcome
       ELSE Ends(c, "error")
    /\ UNCHANGED <<endpoint, mine>>

(* The sixty seconds pass. *)
Cools(o) ==
    /\ opened[o] = "open"
    /\ opened' = [opened EXCEPT ![o] = "past"]
    /\ UNCHANGED <<endpoint, table, failures, mine, attempt, outcome>>

GoesDown ==
    /\ up /\ outages < MaxOutages
    /\ up' = FALSE
    /\ outages' = outages + 1
    /\ UNCHANGED <<table, failures, opened, mine, attempt, outcome>>

ComesUp ==
    /\ ~up
    /\ up' = TRUE
    /\ UNCHANGED <<outages, table, failures, opened, mine, attempt, outcome>>

CallGoesOn(c) == Succeeds(c) \/ Fails(c)

Next ==
    \/ \E c \in Callers : Call(c) \/ CallGoesOn(c) \/ Cools(c)
    \/ GoesDown \/ ComesUp

-----------------------------------------------------------------------------
(* Properties. *)

(* Every variable has its type. *)
TypeOK ==
    /\ up \in BOOLEAN /\ outages \in 0 .. MaxOutages
    /\ table \in Callers \cup {None}
    /\ failures \in [Callers -> 0 .. Retries + 1]
    /\ opened \in [Callers -> {"never", "open", "past"}]
    /\ mine \in [Callers -> Callers]
    /\ attempt \in [Callers -> 0 .. Retries + 1]
    /\ outcome \in [Callers -> {"none", "ok", "error", "refused"}]

(* Of an endpoint that is up for good, callers that keep calling are answered again,
   though the failures of the past are never forgotten: the circuit does not stay open. *)
CallsGetThrough == <>[]up => <>[](\A c \in Callers : outcome[c] = "ok")
===============================================================================
