----------------------------- MODULE AlertDelivery -----------------------------
(***************************************************************************)
(* The outbox of poller alerts: sendPollerAlert only persists an Alert, and *)
(* runs of /api/admin/alerts/retry (cron, or the admin's button) or of the  *)
(* alert-retry-worker script post the waiting ones to Slack (resendAlert).  *)
(* Nothing keeps two runs apart.  A run works on the copy of the Alert that *)
(* it loaded; doc.save() writes the paths that changed in that copy.        *)
(***************************************************************************)
EXTENDS Naturals, FiniteSets

CONSTANTS
    Last,           \* alerts are 1 .. Last, in the order of their createdAt
    Workers,        \* runs of the retry endpoint and of the worker script
    MaxAttempts,    \* SLACK_MAX_ATTEMPTS
    BatchSize,      \* ALERT_RETRY_BATCH: alerts a run takes on
    MaxFaults       \* bound: saves that fail, posts with no answer, runs that die

ASSUME SizeAssumption ==
    /\ Last \in Nat /\ MaxFaults \in Nat
    /\ MaxAttempts \in Nat \ {0} /\ BatchSize \in Nat \ {0}

Alerts == 1 .. Last

VARIABLES
    status,         \* Alert.status, "absent" before it is created
    attempts,       \* Alert.attempts
    todo,           \* todo[w]: alerts run w has found and not begun
    at,             \* at[w]: where in resendAlert it is
    alert,          \* alert[w]: the alert it works on, 0 for none
    doc, synced,    \* its copy of status and attempts, and as last read or written
    attempt,        \* its loop counter
    tries,          \* history: posts to Slack of each alert
    received,       \* history: whether Slack accepted one
    shared,         \* history: alerts two runs had in hand at once
    faults

db == <<status, attempts>>
memory == <<alert, doc, synced, attempt>>
history == <<tries, received, shared>>
vars == <<status, attempts, todo, at, alert, doc, synced, attempt,
          tries, received, shared, faults>>

Copy == [status : {"pending", "sent", "failed"}, attempts : 0 .. MaxAttempts]
NoCopy == [status |-> "pending", attempts |-> 0]

-----------------------------------------------------------------------------
WaitingForever == {a \in Alerts : status[a] \in {"pending", "failed"}}
(* The query of retry.ts and of the script. *)
Waiting == {a \in Alerts : status[a] \in {"pending", "failed"} /\ attempts[a] < MaxAttempts}

Oldest(S) == CHOOSE a \in S : \A b \in S : a <= b
FirstBatch(S) == {a \in S : Cardinality({b \in S : b < a}) < BatchSize}

Hands(w) == todo[w] \cup ({alert[w]} \ {0})

Goto(w, s) == at' = [at EXCEPT ![w] = s]
Fault == faults < MaxFaults /\ faults' = faults + 1
Posted(w) == tries' = [tries EXCEPT ![alert[w]] = @ + 1]

(* doc.save(): a path is written if it was changed in this copy. *)
SavePath(w, stored, path) ==
    [stored EXCEPT ![alert[w]] = IF doc[w][path] # synced[w][path] THEN doc[w][path] ELSE @]
Save(w) ==
    /\ status' = SavePath(w, status, "status")
    /\ attempts' = SavePath(w, attempts, "attempts")

(* Take an alert in hand with the given copy, or let it go. *)
Hold(w, a, copy, read, n) ==
    /\ alert' = [alert EXCEPT ![w] = a]
    /\ doc' = [doc EXCEPT ![w] = copy]
    /\ synced' = [synced EXCEPT ![w] = read]
    /\ attempt' = [attempt EXCEPT ![w] = n]
Drop(w) == Hold(w, 0, NoCopy, NoCopy, 0)

(* Attempt n of the loop on an alert whose copy is in step with the database, or
   what follows the loop when the attempts are used up. *)
EnterShort(w, a, copy, n) ==
    \/ n < MaxAttempts /\ Goto(w, "post") /\ Hold(w, a, copy, copy, n)
    \/ /\ n >= MaxAttempts /\ Goto(w, "fail")
       /\ Hold(w, a, [copy EXCEPT !.status = "failed"], copy, n)
EnterLong(w, a, copy, n) ==
    \/ n <= MaxAttempts + 1 /\ Goto(w, "post") /\ Hold(w, a, copy, copy, n)
    \/ /\ n > MaxAttempts + 1 /\ Goto(w, "fail")
       /\ Hold(w, a, [copy EXCEPT !.status = "failed"], copy, n)
Enter(w, a, copy, n) ==
    \/ n <= MaxAttempts /\ Goto(w, "post") /\ Hold(w, a, copy, copy, n)
    \/ /\ n > MaxAttempts /\ Goto(w, "fail")
       /\ Hold(w, a, [copy EXCEPT !.status = "failed"], copy, n)
Loop(w) == Enter(w, alert[w], doc[w], attempt[w] + 1)

-----------------------------------------------------------------------------
Init ==
    /\ status = [a \in Alerts |-> "absent"]
    /\ attempts = [a \in Alerts |-> 0]
    /\ todo = [w \in Workers |-> {}]
    /\ at = [w \in Workers |-> "idle"]
    /\ alert = [w \in Workers |-> 0]
    /\ doc = [w \in Workers |-> NoCopy]
    /\ synced = [w \in Workers |-> NoCopy]
    /\ attempt = [w \in Workers |-> 0]
    /\ tries = [a \in Alerts |-> 0]
    /\ received = [a \in Alerts |-> FALSE]
    /\ shared = {}
    /\ faults = 0

(* sendPollerAlert: persist and return. *)
SendPollerAlert(a) ==
    /\ status[a] = "absent" /\ \A b \in Alerts : b < a => status[b] # "absent"
    /\ status' = [status EXCEPT ![a] = "pending"]
    /\ UNCHANGED <<attempts, todo, at, memory, history, faults>>

(* The handler's query: the oldest alerts that wait and have attempts left. *)
FindWaiting(w) ==
    /\ at[w] = "idle"
    /\ todo' = [todo EXCEPT ![w] = FirstBatch(Waiting)]
    /\ shared' = shared \cup
           {a \in FirstBatch(Waiting) : \E v \in Workers \ {w} : a \in Hands(v)}
    /\ Goto(w, "pick")
    /\ UNCHANGED <<db, memory, tries, received, faults>>

LoadAfresh(w) ==
    /\ at[w] = "pick" /\ todo[w] # {}
    /\ LET a == Oldest(todo[w]) IN
       /\ todo' = [todo EXCEPT ![w] = @ \ {a}]
       /\ Enter(w, a, [status |-> status[a], attempts |-> attempts[a]], 1)
    /\ UNCHANGED <<db, history, faults>>
(* resendAlert's findById.  The document is not checked again: another run may
   have sent it or used its attempts up since the query. *)
Load(w) ==
    /\ at[w] = "pick" /\ todo[w] # {}
    /\ LET a == Oldest(todo[w]) IN
       /\ todo' = [todo EXCEPT ![w] = @ \ {a}]
       /\ Enter(w, a, [status |-> status[a], attempts |-> attempts[a]], attempts[a] + 1)
    /\ UNCHANGED <<db, history, faults>>

(* The post: accepted, refused, or without an answer, having arrived or not. *)
PostAccepted(w) ==
    /\ at[w] = "post"
    /\ Posted(w)
    /\ received' = [received EXCEPT ![alert[w]] = TRUE]
    /\ doc' = [doc EXCEPT ![w] = [status |-> "sent", attempts |-> attempt[w]]]
    /\ Goto(w, "save")
    /\ UNCHANGED <<db, todo, alert, synced, attempt, shared, faults>>

PostRefusedAsSent(w) ==
    /\ at[w] = "post"
    /\ Posted(w)
    /\ doc' = [doc EXCEPT ![w] = [status |-> "sent", attempts |-> attempt[w]]]
    /\ Goto(w, "note")
    /\ UNCHANGED <<db, todo, alert, synced, attempt, received, shared, faults>>
PostRefused(w) ==
    /\ at[w] = "post"
    /\ Posted(w)
    /\ doc' = [doc EXCEPT ![w].attempts = attempt[w]]
    /\ Goto(w, "note")
    /\ UNCHANGED <<db, todo, alert, synced, attempt, received, shared, faults>>

PostUnanswered(w, arrived) ==
    /\ at[w] = "post"
    /\ Fault
    /\ Posted(w)
    /\ received' = [received EXCEPT ![alert[w]] = @ \/ arrived]
    /\ doc' = [doc EXCEPT ![w].attempts = attempt[w]]
    /\ Goto(w, "catch")
    /\ UNCHANGED <<db, todo, alert, synced, attempt, shared>>

(* The save after an accepted post, and after a refused one; a failed save is
   caught, and the catch block saves once more and goes on with the loop, also
   when the post had been accepted. *)
SaveSent(w) ==
    /\ at[w] = "save"
    /\ \/ Save(w) /\ Goto(w, "pick") /\ Drop(w) /\ UNCHANGED faults
       \/ Fault /\ Goto(w, "catch") /\ UNCHANGED <<db, memory>>
    /\ UNCHANGED <<todo, history>>

SaveAttempt(w) ==
    /\ at[w] = "note"
    /\ \/ Save(w) /\ Loop(w) /\ UNCHANGED faults
       \/ Fault /\ Goto(w, "catch") /\ UNCHANGED <<db, memory>>
    /\ UNCHANGED <<todo, history>>

SaveInCatch(w) ==
    /\ at[w] = "catch"
    /\ \/ Save(w) /\ Loop(w) /\ UNCHANGED faults
       \/ Fault /\ Goto(w, "pick") /\ Drop(w) /\ UNCHANGED db
    /\ UNCHANGED <<todo, history>>

(* Out of attempts: the last save, whose failure the batch loop catches. *)
SaveFailed(w) ==
    /\ at[w] = "fail"
    /\ \/ Save(w) /\ UNCHANGED faults
       \/ Fault /\ UNCHANGED db
    /\ Goto(w, "pick") /\ Drop(w)
    /\ UNCHANGED <<todo, history>>

RunEnds(w) ==
    /\ at[w] = "pick" /\ todo[w] = {}
    /\ Goto(w, "idle")
    /\ UNCHANGED <<db, todo, memory, history, faults>>

(* The function is killed (maxDuration) or the script dies. *)
RunDies(w) ==
    /\ at[w] # "idle"
    /\ Fault
    /\ Goto(w, "idle") /\ Drop(w)
    /\ todo' = [todo EXCEPT ![w] = {}]
    /\ UNCHANGED <<db, history>>

RunStep(w) ==
    \/ FindWaiting(w) \/ Load(w)
    \/ PostAccepted(w) \/ PostRefused(w)
    \/ SaveSent(w) \/ SaveAttempt(w) \/ SaveInCatch(w) \/ SaveFailed(w)
    \/ RunEnds(w)

Next ==
    \/ \E a \in Alerts : SendPollerAlert(a)
    \/ \E w \in Workers :
          \/ RunStep(w)
          \/ \E arrived \in BOOLEAN : PostUnanswered(w, arrived)
          \/ RunDies(w)

Spec == Init /\ [][Next]_vars

(* Cron keeps calling the endpoint, and a run that is not killed goes on.  Slack
   owes nothing: it may refuse every post. *)
FairSpec == Spec /\ \A w \in Workers : WF_vars(RunStep(w))

-----------------------------------------------------------------------------
(* Properties. *)

(* Every variable has its type; no alert is marked with more attempts than a run
   may make, and no run has more alerts to come than a batch. *)
VarsOK ==
    /\ status \in [Alerts -> {"absent", "pending", "sent", "failed"}]
    /\ attempts \in [Alerts -> 0 .. MaxAttempts]
    /\ todo \in [Workers -> SUBSET Alerts]
    /\ at \in [Workers -> {"idle", "pick", "post", "save", "note", "catch", "fail"}]
    /\ alert \in [Workers -> 0 .. Last]
    /\ doc \in [Workers -> Copy]
    /\ synced \in [Workers -> Copy]
    /\ attempt \in [Workers -> 0 .. MaxAttempts + 1]
    /\ tries \in [Alerts -> Nat]
    /\ received \in [Alerts -> BOOLEAN]
    /\ shared \in SUBSET Alerts
    /\ faults \in 0 .. MaxFaults
AtMostABatch == \A w \in Workers : Cardinality(todo[w]) <= BatchSize
TypeOK == VarsOK /\ AtMostABatch

(* Whatever two runs write over each other's work, an alert marked as sent was
   accepted by Slack at least once. *)
SentWasReceived == \A a \in Alerts : status[a] = "sent" => received[a]

(* An alert that only one run had in hand at a time is posted at most MaxAttempts
   times over all runs together, and once more for every fault: one that kept a
   post from being written down may have it made again.  A post left without an
   answer is written down and still counts as a fault, so the bound is not tight. *)
RetryBudget == \A a \in Alerts \ shared : tries[a] <= MaxAttempts + faults

(* Such an alert is given up only when its attempts are used up, so a failed
   alert is never found by the query again. *)
GivenUpWhenExhausted ==
    \A a \in Alerts \ shared : status[a] = "failed" => attempts[a] = MaxAttempts

(* Runs that overlap may lower each other's count of attempts, yet in the end
   every alert leaves the queue for good: cron does not post it forever. *)
RetriesEnd == \A a \in Alerts : <>[](a \notin Waiting)

(* Said of the code: an alert is left pending "so a cron-triggered serverless
   endpoint can retry sending pending alerts" (lib/slack.ts:76-77). *)
PendingIsRetried == \A a \in Alerts :
    status[a] = "pending" ~> (status[a] # "pending" \/ \E w \in Workers : a \in Hands(w))
=============================================================================
