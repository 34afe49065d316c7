--------------------------- MODULE SharedConnection ---------------------------
(***************************************************************************)
(* lib/db.ts: every request of a process asks dbConnect for the one        *)
(* connection, and requests that come while it is being made share one     *)
(* promise.  The database is external: an attempt to connect ends in a     *)
(* connection or, a bounded number of times, in an error.                  *)
(***************************************************************************)
EXTENDS Naturals, FiniteSets

CONSTANTS
    Clients,        \* requests of one process
    MaxFailures     \* bound: attempts that fail, restarts of the process

VARIABLES
    conn,           \* cached.conn is set
    promise,        \* cached.promise: "null", "pending", "resolved", "rejected"
    waiting,        \* requests that await the promise
    got,            \* what a client's last request got
    attempts,       \* mongoose.connect calls that run
    failures

vars == <<conn, promise, waiting, got, attempts, failures>>

Init ==
    /\ conn = FALSE
    /\ promise = "null"
    /\ waiting = {}
    /\ got = [c \in Clients |-> "nothing"]
    /\ attempts = 0
    /\ failures = 0

Connected(c) ==
    /\ conn
    /\ got' = [got EXCEPT ![c] = "connection"]
    /\ UNCHANGED <<conn, promise, waiting, attempts, failures>>

(* No connection: the first request starts one, the others share its promise; one
   that is rejected already rejects at once. *)
Asks(c) ==
    /\ ~conn /\ c \notin waiting
    /\ IF promise = "rejected"
       THEN got' = [got EXCEPT ![c] = "error"] /\ UNCHANGED <<promise, waiting, attempts>>
       ELSE /\ waiting' = waiting \cup {c}
            /\ promise' = "pending"
            /\ attempts' = IF promise = "null" THEN attempts + 1 ELSE attempts
            /\ UNCHANGED got
    /\ UNCHANGED <<conn, failures>>

(* The waiting requests go on before anything else the process does. *)
Settles(result) ==
    /\ promise = "pending"
    /\ got' = [c \in Clients |-> IF c \in waiting THEN result ELSE got[c]]
    /\ waiting' = {}
    /\ attempts' = attempts - 1

Succeeds ==
    /\ Settles("connection")
    /\ conn' = TRUE
    /\ promise' = "resolved"
    /\ UNCHANGED failures

PromiseAfterFailureKept == promise' = "rejected"
PromiseAfterFailure == promise' = "null"

Fails ==
    /\ failures < MaxFailures
    /\ failures' = failures + 1
    /\ Settles("error")
    /\ PromiseAfterFailure
    /\ UNCHANGED conn

Restart ==
    /\ failures < MaxFailures
    /\ failures' = failures + 1
    /\ conn' = FALSE /\ promise' = "null" /\ waiting' = {} /\ attempts' = 0
    /\ got' = [c \in Clients |-> "nothing"]

Request(c) == Connected(c) \/ Asks(c)

Next ==
    \/ \E c \in Clients : Request(c)
    \/ Succeeds \/ Fails \/ Restart

-----------------------------------------------------------------------------
(* Properties. *)

(* Every variable has its type, and at most one attempt to connect runs. *)
TypeOK ==
    /\ conn \in BOOLEAN
    /\ promise \in {"null", "pending", "resolved", "rejected"}
    /\ waiting \subseteq Clients
    /\ got \in [Clients -> {"nothing", "connection", "error"}]
    /\ attempts \in {0, 1}
    /\ failures \in 0 .. MaxFailures

(* Clients that keep asking all have the connection some time after the last failure:
   an attempt that failed is not what later requests are answered with. *)
ConnectsAgain == <>[](\A c \in Clients : got[c] = "connection")
===============================================================================
