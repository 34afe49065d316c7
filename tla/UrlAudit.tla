------------------------------- MODULE UrlAudit -------------------------------
(***************************************************************************)
(* One URL audit: the request that makes it (POST /api/url/audit, or an    *)
(* admin's, which does not alert), the worker that runs the page in a      *)
(* sandbox (scripts/url_audit_dynamic_worker), and its callback            *)
(* (audit-dynamic-callback), which may be delivered more than once.        *)
(***************************************************************************)
EXTENDS Naturals

CONSTANTS
    Handlers,       \* deliveries of the callback handled at once
    Bases,          \* scores of the static heuristics, without the penalty
    Penalties,      \* taken off a page that answers 400 or above
    Deltas,         \* what a dynamic scan adds
    AlertScore,     \* URL_AUDIT_ALERT_SCORE (70 in the code)
    MaxDeliveries   \* bound: deliveries of the callback

VARIABLES
    audit,          \* the UrlAudit document
    public,         \* is it a user's audit, which alerts by itself
    phase,          \* where the request is
    enqueued,       \* what the enqueue said
    job,            \* the worker's job: "none", "running", or what it found
    deliveries,     \* of the callback
    stage, seen,    \* where a handler of the callback is, and the copy it read
    static,         \* history: the score the audit was created with
    alerts,         \* history: alerts by the callback
    warned,         \* history: has the request alerted
    crashed         \* history: has a function been killed or a save failed

vars == <<audit, public, phase, enqueued, job, deliveries, stage, seen,
          static, alerts, warned, crashed>>

Scores == 0 .. 100
NoAudit == [score |-> 0, base |-> 0, reasons |-> "static", worker |-> "none",
            version |-> 0]
Phases == {"new", "enqueue", "save", "alert", "done"}
Running == 1000         \* neither is a delta
NoJob == 2000

clampScore(s) == IF s > 100 THEN 100 ELSE s

-----------------------------------------------------------------------------
Init ==
    /\ audit = NoAudit
    /\ public \in BOOLEAN
    /\ phase = "new"
    /\ enqueued = "none"
    /\ job = NoJob
    /\ deliveries = 0
    /\ stage = [c \in Handlers |-> "idle"]
    /\ seen = [c \in Handlers |-> NoAudit]
    /\ static = 0
    /\ alerts = 0
    /\ warned = FALSE
    /\ crashed = FALSE

(* auditUrl and UrlAudit.create; the page is not run locally.  Without a worker
   configured, nothing is enqueued. *)
CreateAudit(b, p) ==
    LET score == clampScore(IF b > p THEN b - p ELSE 0)
    IN /\ phase = "new"
       /\ audit' = [NoAudit EXCEPT !.score = score, !.base = b]
       /\ static' = score
       /\ phase' \in {"enqueue", "alert"}
       /\ UNCHANGED <<public, enqueued, job, deliveries, stage, seen, alerts, warned,
                      crashed>>

(* enqueueDynamicWorkerScan: accepted, refused, or no answer within 1.8 seconds,
   when the worker may have accepted nevertheless; then the save is skipped. *)
Enqueue(answer) ==
    /\ phase = "enqueue"
    /\ enqueued' = answer
    /\ phase' = IF answer = "timeout" THEN "alert" ELSE "save"
    /\ job' \in CASE answer = "pending" -> {Running}
                  [] answer = "failed" -> {NoJob}
                  [] answer = "timeout" -> {Running, NoJob}
    /\ UNCHANGED <<audit, public, deliveries, stage, seen, static, alerts, warned, crashed>>

(* The request's save writes the signals it created the audit with, and the status
   of the enqueue, over whatever a callback stored there meanwhile. *)
SaveStatus ==
    /\ phase = "save"
    /\ audit' = [audit EXCEPT !.worker = enqueued]
    /\ phase' = "alert"
    /\ UNCHANGED <<public, enqueued, job, deliveries, stage, seen, static, alerts,
                   warned, crashed>>

WarnHigher ==
    /\ phase = "alert"
    /\ warned' = (public /\ static > AlertScore)
    /\ phase' = "done"
    /\ UNCHANGED <<audit, public, enqueued, job, deliveries, stage, seen, static,
                   alerts, crashed>>
Warn ==
    /\ phase = "alert"
    /\ warned' = (public /\ static >= AlertScore)
    /\ phase' = "done"
    /\ UNCHANGED <<audit, public, enqueued, job, deliveries, stage, seen, static,
                   alerts, crashed>>

(* The worker posts what it found, once; an error of the sandbox is a delta of 0. *)
WorkerPosts(d) ==
    /\ job = Running
    /\ job' = d
    /\ UNCHANGED <<audit, public, phase, enqueued, deliveries, stage, seen, static,
                   alerts, warned, crashed>>

-----------------------------------------------------------------------------
(* The callback. *)

ScoreAgain(copy) == clampScore(copy.score + job)
ScoreUnclamped(copy) == copy.base + job
ScoreAfter(copy) == clampScore(copy.base + job)

(* findById; one that is completed already is skipped. *)
CallbackLoad(c) ==
    /\ stage[c] = "idle" /\ job \in Deltas /\ deliveries < MaxDeliveries
    /\ deliveries' = deliveries + 1
    /\ IF audit.worker = "completed"
       THEN UNCHANGED <<stage, seen>>
       ELSE /\ stage' = [stage EXCEPT ![c] = "save"]
            /\ seen' = [seen EXCEPT ![c] = audit]
    /\ UNCHANGED <<audit, public, phase, enqueued, job, static, alerts, warned, crashed>>

Reasons == IF job > 0 THEN "dynamic" ELSE "static"

CallbackOverwrites(c) ==
    /\ stage[c] = "save"
    /\ audit' = [audit EXCEPT !.score = ScoreAfter(seen[c]), !.reasons = Reasons,
                              !.worker = "completed"]
    /\ stage' = [stage EXCEPT ![c] = "alert"]
    /\ UNCHANGED <<public, phase, enqueued, job, deliveries, seen, static, alerts,
                   warned, crashed>>
(* The save: reasons that are new replace the whole array, checked against the
   version read.  Of the score, only a changed one is written. *)
CallbackSave(c) ==
    LET copy == seen[c]
        renewed == Reasons # copy.reasons
        score == ScoreAfter(copy)
    IN /\ stage[c] = "save"
       /\ IF renewed /\ audit.version # copy.version
          THEN /\ stage' = [stage EXCEPT ![c] = "idle"]
               /\ seen' = [seen EXCEPT ![c] = NoAudit]
               /\ UNCHANGED audit
          ELSE /\ audit' = [audit EXCEPT
                     !.score = IF score = copy.score THEN @ ELSE score,
                     !.reasons = IF renewed THEN Reasons ELSE @,
                     !.version = IF renewed THEN @ + 1 ELSE @,
                     !.worker = "completed"]
               /\ stage' = [stage EXCEPT ![c] = "alert"]
               /\ UNCHANGED seen
       /\ UNCHANGED <<public, phase, enqueued, job, deliveries, static, alerts, warned,
                      crashed>>

(* A score that the copy had below the limit and is now at or above it. *)
CallbackAlert(c) ==
    /\ stage[c] = "alert"
    /\ alerts' = IF seen[c].score < AlertScore /\ ScoreAfter(seen[c]) >= AlertScore
                 THEN alerts + 1 ELSE alerts
    /\ stage' = [stage EXCEPT ![c] = "idle"]
    /\ seen' = [seen EXCEPT ![c] = NoAudit]
    /\ UNCHANGED <<audit, public, phase, enqueued, job, deliveries, static, warned,
                   crashed>>

(* The request or a handler is killed, or its save fails. *)
Crash ==
    /\ crashed' = TRUE
    /\ \/ /\ phase \in {"enqueue", "save", "alert"}
          /\ phase' = "done"
          /\ UNCHANGED <<stage, seen>>
       \/ \E c \in Handlers :
             /\ stage[c] # "idle"
             /\ stage' = [stage EXCEPT ![c] = "idle"]
             /\ seen' = [seen EXCEPT ![c] = NoAudit]
             /\ UNCHANGED phase
    /\ UNCHANGED <<audit, public, enqueued, job, deliveries, static, alerts, warned>>

Next ==
    \/ \E b \in Bases, p \in Penalties : CreateAudit(b, p)
    \/ \E a \in {"pending", "failed", "timeout"} : Enqueue(a)
    \/ SaveStatus \/ Warn
    \/ \E d \in Deltas : WorkerPosts(d)
    \/ \E c \in Handlers : CallbackLoad(c) \/ CallbackSave(c) \/ CallbackAlert(c)
    \/ Crash

Spec == Init /\ [][Next]_vars

-----------------------------------------------------------------------------
(* Properties. *)

(* Every variable has its type. *)
Audit == [score : Scores, base : Bases \cup {0}, reasons : {"static", "dynamic"},
          worker : {"none", "pending", "failed", "completed"}, version : Nat]
TypeOK ==
    /\ audit \in Audit
    /\ public \in BOOLEAN /\ warned \in BOOLEAN /\ crashed \in BOOLEAN
    /\ phase \in Phases
    /\ enqueued \in {"none", "pending", "failed", "timeout"}
    /\ job \in Deltas \cup {Running, NoJob}
    /\ deliveries \in 0 .. MaxDeliveries
    /\ stage \in [Handlers -> {"idle", "save", "alert"}]
    /\ seen \in [Handlers -> Audit]
    /\ static \in Scores
    /\ alerts \in Nat

(* The dynamic result counts once, however often its callback is delivered and
   although the request's late save may undo the mark that it was. *)
AppliedOnce ==
    audit.score = static \/ (job \in Deltas /\ audit.score = clampScore(audit.base + job))

(* Two deliveries that both passed the check for a completed scan do not both alert,
   if the scan found something: the version check stops the second save. *)
AlertedOnce == job \in Deltas \ {0} => alerts <= 1

Quiet == phase = "done" /\ \A c \in Handlers : stage[c] = "idle"

(* A user's audit that ends with a score at or above the limit was alerted about,
   by the request or by the callback that raised it, unless a function died. *)
HighScoreAlerted ==
    public /\ Quiet /\ ~crashed /\ audit.score >= AlertScore => warned \/ alerts > 0
===============================================================================
