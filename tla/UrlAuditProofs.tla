----------------------------- MODULE UrlAuditProofs -----------------------------
(***************************************************************************)
(* Theorems about UrlAudit, for any scores, any limit and any number of     *)
(* deliveries.  The request's late save may undo the mark that a dynamic    *)
(* result was applied; what holds nevertheless rests on two facts about the *)
(* copies the callbacks have read: their base is the audit's, so applying   *)
(* the result to a copy twice gives the same score, and once the first save *)
(* has renewed the reasons, a copy with the old ones is of an old version.  *)
(***************************************************************************)
EXTENDS UrlAudit, TLAPS

ScoreAssumption ==
    /\ Bases \subseteq Nat /\ Penalties \subseteq Nat /\ Deltas \subseteq Nat
    /\ Running \notin Deltas /\ NoJob \notin Deltas
    /\ AlertScore \in Nat \ {0} /\ MaxDeliveries \in Nat

Idle == \A c \in Handlers : stage[c] = "idle"
Result == clampScore(audit.base + job)
Applicable == job \in Deltas \ {0}

(* What the steps of the request leave alone. *)
OrderOK ==
    /\ phase \in {"new", "enqueue"} => job = NoJob
    /\ phase = "save" => enqueued \in {"pending", "failed"}
    /\ phase = "new" => audit = NoAudit /\ static = 0
    /\ job \notin Deltas => Idle /\ alerts = 0 /\ audit.version = 0
    /\ audit.reasons = "static" <=> audit.version = 0
    /\ audit.version # 0 => Applicable

(* The copies that handlers of the callback work on. *)
CopyOK(c) == stage[c] # "idle" =>
    /\ seen[c].base = audit.base
    /\ seen[c].score \in {static, Result}
    /\ seen[c].score # static => audit.score = Result
    /\ seen[c].reasons = "static" <=> seen[c].version = 0
    /\ seen[c].reasons = "dynamic" =>
          Applicable /\ seen[c].score = Result /\ audit.version > 0

(* The handler that raised the score and has not said so yet. *)
First(c) == stage[c] = "alert" /\ seen[c].reasons = "static"

FirstOK == Applicable =>
    /\ audit.version = 0 => alerts = 0 /\ \A c \in Handlers : stage[c] # "alert"
    /\ audit.version > 0 => audit.score = Result
    /\ \A c, d \in Handlers : First(c) /\ First(d) => c = d
    /\ (\E c \in Handlers : First(c)) => alerts = 0
    /\ alerts <= 1

Telling(c) == stage[c] = "alert" /\ seen[c].score < AlertScore /\ Result >= AlertScore

TellOK == ~crashed =>
    /\ public /\ static >= AlertScore /\ phase = "done" => warned
    /\ static < AlertScore /\ audit.score >= AlertScore =>
          alerts > 0 \/ \E c \in Handlers : Telling(c)

AuditInv ==
    /\ TypeOK /\ AppliedOnce /\ OrderOK
    /\ \A c \in Handlers : CopyOK(c)
    /\ FirstOK /\ TellOK

-----------------------------------------------------------------------------
LEMMA ClampType ==
    ASSUME NEW s \in Nat
    PROVE  clampScore(s) \in Scores
BY DEF clampScore, Scores

LEMMA AuditType ==
    ASSUME TypeOK
    PROVE  /\ audit.score \in Scores /\ audit.base \in Bases \cup {0}
           /\ audit.reasons \in {"static", "dynamic"}
           /\ audit.worker \in {"none", "pending", "failed", "completed"}
           /\ audit.version \in Nat
BY DEF TypeOK, Audit

LEMMA SeenType ==
    ASSUME TypeOK, NEW c \in Handlers
    PROVE  /\ seen[c] \in Audit
           /\ seen[c].score \in Scores /\ seen[c].base \in Bases \cup {0}
           /\ seen[c].reasons \in {"static", "dynamic"} /\ seen[c].version \in Nat
BY DEF TypeOK, Audit

LEMMA NoAuditType ==
    ASSUME ScoreAssumption
    PROVE  /\ NoAudit \in Audit /\ NoAudit.score = 0 /\ NoAudit.base = 0
           /\ NoAudit.reasons = "static" /\ NoAudit.worker = "none" /\ NoAudit.version = 0
BY DEF ScoreAssumption, NoAudit, Audit, Scores

(* The audit a callback works on has a dynamic result. *)
LEMMA WorkingJob ==
    ASSUME ScoreAssumption, AuditInv, NEW c \in Handlers, stage[c] # "idle"
    PROVE  /\ job \in Deltas /\ job \in Nat /\ Result \in Scores
           /\ ScoreAfter(seen[c]) = Result /\ CopyOK(c)
<1>1. TypeOK /\ CopyOK(c) /\ job \in Deltas /\ job \in Nat
  BY DEF AuditInv, OrderOK, Idle, ScoreAssumption
<1>2. audit.base \in Nat
  <2>1. audit.base \in Bases \cup {0}
    BY <1>1, AuditType
  <2>2. \A x \in Bases \cup {0} : x \in Nat
    BY DEF ScoreAssumption
  <2> QED
    BY <2>1, <2>2
<1>3. seen[c].base = audit.base
  BY <1>1 DEF CopyOK
<1> QED
  BY <1>1, <1>2, <1>3, ClampType DEF Result, ScoreAfter

-----------------------------------------------------------------------------
(* The invariant, action by action. *)

LEMMA CreateStep ==
    ASSUME ScoreAssumption, AuditInv, NEW b \in Bases, NEW p \in Penalties,
           CreateAudit(b, p)
    PROVE  AuditInv'
<1> DEFINE rest == IF b > p THEN b - p ELSE 0
           score == clampScore(rest)
<1>1. TypeOK /\ OrderOK
  BY DEF AuditInv
<1>2. /\ phase = "new"
      /\ audit' = [NoAudit EXCEPT !.score = score, !.base = b]
      /\ static' = score
      /\ phase' \in {"enqueue", "alert"}
      /\ UNCHANGED <<public, enqueued, job, deliveries, stage, seen, alerts, warned,
                     crashed>>
  BY DEF CreateAudit
<1>3. score \in Scores
  <2>1. rest \in Nat
    BY DEF ScoreAssumption
  <2> QED
    BY <2>1, ClampType
<1> HIDE DEF score
<1>4. /\ audit'.score = score /\ audit'.base = b /\ audit'.reasons = "static"
      /\ audit'.version = 0 /\ audit' \in Audit
  BY <1>2, <1>3, NoAuditType DEF NoAudit, Audit
<1>5. job = NoJob /\ job \notin Deltas /\ Idle /\ alerts = 0
  BY <1>1, <1>2 DEF OrderOK, ScoreAssumption
<1>6. TypeOK'
  BY <1>1, <1>2, <1>3, <1>4 DEF TypeOK, Phases
<1>7. AppliedOnce' /\ OrderOK'
  BY <1>2, <1>4, <1>5 DEF AppliedOnce, OrderOK, Idle
<1>8. ASSUME NEW c \in Handlers PROVE CopyOK(c)'
  BY <1>2, <1>5 DEF CopyOK, Idle
<1>9. FirstOK'
  BY <1>2, <1>5 DEF FirstOK, Applicable
<1>10. TellOK'
  BY <1>2, <1>3, <1>4 DEF TellOK, Scores, ScoreAssumption
<1> QED
  BY <1>6, <1>7, <1>8, <1>9, <1>10 DEF AuditInv

(* A step of the request after the audit is made: of the audit it writes only the
   worker's status. *)
LEMMA RequestStep ==
    ASSUME ScoreAssumption, AuditInv, TypeOK',
           phase # "new", phase' # "new", phase' = "enqueue" => phase = "enqueue",
           phase' = "save" => enqueued' \in {"pending", "failed"},
           audit'.score = audit.score, audit'.base = audit.base,
           audit'.reasons = audit.reasons, audit'.version = audit.version,
           job' = job \/ (job \notin Deltas /\ job' \notin Deltas /\ phase' # "enqueue"),
           UNCHANGED <<public, deliveries, stage, seen, static, alerts>>,
           crashed => crashed',
           ~crashed' /\ public /\ static >= AlertScore /\ phase' = "done" => warned'
    PROVE  AuditInv'
<1>1. AppliedOnce /\ OrderOK /\ FirstOK /\ TellOK
  BY DEF AuditInv
<1>2. Result' = Result \/ job \notin Deltas
  BY DEF Result
<1>3. job \in Deltas <=> job' \in Deltas
  OBVIOUS
<1>4. AppliedOnce'
  BY <1>1, <1>3 DEF AppliedOnce
<1>5. OrderOK'
  BY <1>1, <1>3 DEF OrderOK, Idle, Applicable
<1>6. ASSUME NEW c \in Handlers PROVE CopyOK(c)'
  <2>1. CopyOK(c) /\ (stage[c] # "idle" => job \in Deltas)
    BY <1>1 DEF AuditInv, OrderOK, Idle
  <2> QED
    BY <1>2, <1>3, <2>1 DEF CopyOK, Applicable
<1>7. FirstOK'
  BY <1>1, <1>2, <1>3 DEF FirstOK, Applicable, First
<1>8. TellOK'
  <2>1. \A c \in Handlers : Telling(c) => Telling(c)'
    BY <1>1, <1>2 DEF Telling, OrderOK, Idle
  <2> QED
    BY <1>1, <2>1 DEF TellOK
<1> QED
  BY <1>4, <1>5, <1>6, <1>7, <1>8 DEF AuditInv

LEMMA EnqueueStep ==
    ASSUME ScoreAssumption, AuditInv, NEW a \in {"pending", "failed", "timeout"}, Enqueue(a)
    PROVE  AuditInv'
<1>1. TypeOK /\ OrderOK
  BY DEF AuditInv
<1>2. /\ phase = "enqueue" /\ enqueued' = a /\ phase' \in {"alert", "save"}
      /\ phase' = "save" => a \in {"pending", "failed"}
      /\ UNCHANGED <<audit, public, deliveries, stage, seen, static, alerts, warned, crashed>>
  BY DEF Enqueue
<1>3. job = NoJob /\ job' \in {Running, NoJob}
  BY <1>1 DEF Enqueue, OrderOK
<1>4. TypeOK'
  BY <1>1, <1>2, <1>3 DEF TypeOK, Phases
<1> QED
  BY <1>2, <1>3, <1>4, RequestStep DEF ScoreAssumption

LEMMA SaveStatusStep ==
    ASSUME ScoreAssumption, AuditInv, SaveStatus
    PROVE  AuditInv'
<1>1. TypeOK /\ OrderOK
  BY DEF AuditInv
<1>2. /\ audit' = [audit EXCEPT !.worker = enqueued]
      /\ phase = "save" /\ phase' = "alert" /\ enqueued \in {"pending", "failed"}
      /\ UNCHANGED <<public, enqueued, job, deliveries, stage, seen, static, alerts,
                     warned, crashed>>
  BY <1>1 DEF SaveStatus, OrderOK
<1>3. /\ audit'.score = audit.score /\ audit'.base = audit.base
      /\ audit'.reasons = audit.reasons /\ audit'.version = audit.version
  BY <1>1, <1>2 DEF TypeOK, Audit
<1>4. TypeOK'
  BY <1>1, <1>2 DEF TypeOK, Audit, Phases
<1> QED
  BY <1>2, <1>3, <1>4, RequestStep

LEMMA WarnStep ==
    ASSUME ScoreAssumption, AuditInv, Warn
    PROVE  AuditInv'
<1>1. TypeOK
  BY DEF AuditInv
<1>2. /\ phase = "alert" /\ phase' = "done"
      /\ warned' = (public /\ static >= AlertScore)
      /\ UNCHANGED <<audit, public, enqueued, job, deliveries, stage, seen, static,
                     alerts, crashed>>
  BY DEF Warn
<1>3. warned' \in BOOLEAN
  BY <1>2
<1>4. TypeOK'
  BY <1>1, <1>2, <1>3 DEF TypeOK, Phases
<1>5. ~crashed' /\ public /\ static >= AlertScore /\ phase' = "done" => warned'
  BY <1>2
<1> QED
  BY <1>2, <1>4, <1>5, RequestStep

LEMMA WorkerStep ==
    ASSUME ScoreAssumption, AuditInv, NEW d \in Deltas, WorkerPosts(d)
    PROVE  AuditInv'
<1>1. TypeOK /\ AppliedOnce /\ OrderOK /\ FirstOK /\ TellOK
  BY DEF AuditInv
<1>2. /\ job = Running /\ job' = d /\ job' \in Deltas /\ job \notin Deltas
      /\ UNCHANGED <<audit, public, phase, enqueued, deliveries, stage, seen, static,
                     alerts, warned, crashed>>
  BY DEF WorkerPosts, ScoreAssumption
<1>3. Idle /\ alerts = 0 /\ audit.version = 0 /\ audit.score = static
  BY <1>1, <1>2 DEF OrderOK, AppliedOnce
<1>4. phase \notin {"new", "enqueue"}
  BY <1>1, <1>2 DEF OrderOK, Running, NoJob
<1>5. TypeOK'
  BY <1>1, <1>2 DEF TypeOK
<1>6. AppliedOnce' /\ OrderOK'
  BY <1>1, <1>2, <1>3, <1>4 DEF AppliedOnce, OrderOK, Idle
<1>7. ASSUME NEW c \in Handlers PROVE CopyOK(c)'
  BY <1>2, <1>3 DEF CopyOK, Idle
<1>8. FirstOK'
  BY <1>2, <1>3 DEF FirstOK, Idle, First
<1>9. TellOK'
  <2>1. ~(static < AlertScore /\ audit.score >= AlertScore)
    BY <1>1, <1>3 DEF TypeOK, Scores, ScoreAssumption
  <2> QED
    BY <1>1, <1>2, <2>1 DEF TellOK
<1> QED
  BY <1>5, <1>6, <1>7, <1>8, <1>9 DEF AuditInv

(* What a step of one handler leaves alone. *)
HandlerFrame(c) ==
    /\ stage' = [stage EXCEPT ![c] = stage'[c]] /\ stage'[c] \in {"idle", "save", "alert"}
    /\ seen' = [seen EXCEPT ![c] = seen'[c]] /\ seen'[c] \in Audit
    /\ UNCHANGED <<public, phase, enqueued, job, static, warned, crashed>>

LEMMA OtherHandlers ==
    ASSUME ScoreAssumption, TypeOK, NEW c \in Handlers, HandlerFrame(c)
    PROVE  /\ stage' \in [Handlers -> {"idle", "save", "alert"}]
           /\ seen' \in [Handlers -> Audit]
           /\ \A d \in Handlers \ {c} : stage'[d] = stage[d] /\ seen'[d] = seen[d]
BY DEF TypeOK, HandlerFrame

LEMMA LoadStep ==
    ASSUME ScoreAssumption, AuditInv, NEW c \in Handlers, CallbackLoad(c)
    PROVE  AuditInv'
<1>1. TypeOK /\ AppliedOnce /\ OrderOK /\ FirstOK /\ TellOK
  BY DEF AuditInv
<1>2. /\ stage[c] = "idle" /\ job \in Deltas /\ deliveries' = deliveries + 1
      /\ deliveries < MaxDeliveries
      /\ UNCHANGED <<audit, public, phase, enqueued, job, static, alerts, warned, crashed>>
  BY DEF CallbackLoad
<1>3. deliveries' \in 0 .. MaxDeliveries
  BY <1>1, <1>2 DEF TypeOK, ScoreAssumption
<1>4. CASE UNCHANGED <<stage, seen>>
  <2>1. TypeOK'
    BY <1>1, <1>2, <1>3, <1>4 DEF TypeOK
  <2> QED
    BY <1>1, <1>2, <1>4, <2>1
    DEF AuditInv, AppliedOnce, OrderOK, Idle, CopyOK, Result, Applicable, FirstOK, First,
        TellOK, Telling
<1>5. CASE /\ stage' = [stage EXCEPT ![c] = "save"]
           /\ seen' = [seen EXCEPT ![c] = audit]
  <2>1. stage'[c] = "save" /\ seen'[c] = audit
    BY <1>1, <1>5 DEF TypeOK
  <2>2. HandlerFrame(c)
    BY <1>1, <1>2, <1>5, <2>1 DEF HandlerFrame, TypeOK
  <2>3. \A d \in Handlers \ {c} : stage'[d] = stage[d] /\ seen'[d] = seen[d]
    BY <1>1, <2>2, OtherHandlers
  <2>4. TypeOK'
    BY <1>1, <1>2, <1>3, <2>2, OtherHandlers DEF TypeOK
  <2>5. AppliedOnce' /\ OrderOK'
    BY <1>1, <1>2 DEF AppliedOnce, OrderOK, Applicable
  <2>6. ASSUME NEW d \in Handlers PROVE CopyOK(d)'
    <3>1. CASE d = c
      <4>1. audit.score \in {static, Result}
        BY <1>1 DEF AppliedOnce, Result
      <4>2. audit.reasons = "dynamic" => Applicable /\ audit.score = Result /\ audit.version > 0
        <5>1. /\ audit.version \in Nat
              /\ audit.reasons = "dynamic" => audit.version # 0 /\ Applicable
          BY <1>1, AuditType DEF OrderOK
        <5> QED
          BY <1>1, <5>1 DEF FirstOK
      <4> QED
        BY <1>1, <1>2, <2>1, <3>1, <4>1, <4>2 DEF CopyOK, OrderOK, Applicable, Result
    <3>2. CASE d # c
      <4>1. CopyOK(d) /\ stage'[d] = stage[d] /\ seen'[d] = seen[d]
        BY <2>3, <3>2 DEF AuditInv
      <4> QED
        BY <1>2, <4>1 DEF CopyOK, Applicable, Result
    <3> QED
      BY <3>1, <3>2
  <2>7. \A d \in Handlers : (First(d)' <=> First(d)) /\ (Telling(d)' <=> Telling(d))
                            /\ (stage'[d] = "alert" => stage[d] = "alert")
    BY <1>2, <2>1, <2>3 DEF First, Telling, Result
  <2>8. FirstOK'
    BY <1>1, <1>2, <2>7 DEF FirstOK, Applicable, Result
  <2>9. TellOK'
    BY <1>1, <1>2, <2>7 DEF TellOK
  <2> QED
    BY <2>4, <2>5, <2>6, <2>8, <2>9 DEF AuditInv
<1> QED
  BY <1>4, <1>5 DEF CallbackLoad

(* A handler stops without a word: its save is refused, or it is killed. *)
LEMMA LetGoStep ==
    ASSUME ScoreAssumption, AuditInv, NEW c \in Handlers, stage[c] # "idle",
           stage' = [stage EXCEPT ![c] = "idle"],
           seen' = [seen EXCEPT ![c] = NoAudit],
           UNCHANGED <<audit, public, phase, enqueued, job, deliveries, static, alerts,
                       warned>>,
           crashed' \in BOOLEAN, crashed => crashed', ~crashed' => stage[c] = "save"
    PROVE  AuditInv'
<1>1. TypeOK /\ AppliedOnce /\ OrderOK /\ FirstOK /\ TellOK
  BY DEF AuditInv
<1>2. stage'[c] = "idle"
  BY <1>1 DEF TypeOK
<1>3. \A d \in Handlers \ {c} : stage'[d] = stage[d] /\ seen'[d] = seen[d]
  BY <1>1 DEF TypeOK
<1>4. TypeOK'
  BY <1>1, NoAuditType DEF TypeOK
<1>5. AppliedOnce' /\ OrderOK'
  BY <1>1, <1>2, <1>3 DEF AppliedOnce, OrderOK, Idle, Applicable
<1>6. ASSUME NEW d \in Handlers PROVE CopyOK(d)'
  <2>1. CopyOK(d)
    BY DEF AuditInv
  <2> QED
    BY <1>2, <1>3, <2>1 DEF CopyOK, Applicable, Result
<1>7. \A d \in Handlers : (First(d)' => First(d)) /\ (stage'[d] = "alert" => stage[d] = "alert")
  BY <1>2, <1>3 DEF First
<1>8. FirstOK'
  BY <1>1, <1>7 DEF FirstOK, Applicable, Result
<1>9. TellOK'
  <2>1. ~crashed' => \A d \in Handlers : Telling(d) => Telling(d)'
    BY <1>3 DEF Telling, Result
  <2> QED
    BY <1>1, <2>1 DEF TellOK
<1> QED
  BY <1>4, <1>5, <1>6, <1>8, <1>9 DEF AuditInv

LEMMA AppliedStep ==
    ASSUME ScoreAssumption, AuditInv, NEW c \in Handlers, CallbackSave(c),
           ~(Reasons # seen[c].reasons /\ audit.version # seen[c].version)
    PROVE  AuditInv'
<1> DEFINE copy == seen[c]
           renewed == Reasons # copy.reasons
           score == ScoreAfter(copy)
<1>1. /\ TypeOK /\ AppliedOnce /\ OrderOK /\ FirstOK /\ TellOK /\ CopyOK(c)
      /\ stage[c] = "save" /\ job \in Deltas /\ job \in Nat /\ Result \in Scores
      /\ score = Result
  <2>1. stage[c] = "save"
    BY DEF CallbackSave
  <2> QED
    BY <2>1, WorkingJob DEF AuditInv
<1>2. /\ audit' = [audit EXCEPT
              !.score = IF score = copy.score THEN @ ELSE score,
              !.reasons = IF renewed THEN Reasons ELSE @,
              !.version = IF renewed THEN @ + 1 ELSE @,
              !.worker = "completed"]
      /\ stage' = [stage EXCEPT ![c] = "alert"]
      /\ seen' = seen
      /\ UNCHANGED <<public, phase, enqueued, job, deliveries, static, alerts, warned,
                     crashed>>
  BY DEF CallbackSave
<1>3. /\ copy.base = audit.base
      /\ copy.score \in {static, Result}
      /\ copy.score # static => audit.score = Result
      /\ copy.reasons = "static" <=> copy.version = 0
      /\ copy.reasons = "dynamic" => Applicable /\ copy.score = Result /\ audit.version > 0
  BY <1>1 DEF CopyOK
<1>4. /\ renewed => audit.version = copy.version
      /\ Reasons \in {"static", "dynamic"} /\ (Applicable <=> Reasons = "dynamic")
      /\ copy.reasons \in {"static", "dynamic"}
  <2>1. copy.reasons \in {"static", "dynamic"}
    BY <1>1, SeenType
  <2>2. Reasons \in {"static", "dynamic"} /\ (Applicable <=> Reasons = "dynamic")
    BY <1>1 DEF Applicable, Reasons
  <2> QED
    BY <2>1, <2>2
<1>5. /\ copy \in Audit /\ audit.version \in Nat
      /\ audit.score \in Scores /\ audit.base \in Bases \cup {0}
      /\ audit.reasons \in {"static", "dynamic"}
  BY <1>1, AuditType, SeenType
<1> HIDE DEF copy, score, renewed
<1>6. /\ audit'.base = audit.base
      /\ audit'.score = IF score = copy.score THEN audit.score ELSE score
      /\ audit'.reasons = IF renewed THEN Reasons ELSE audit.reasons
      /\ audit'.version = IF renewed THEN audit.version + 1 ELSE audit.version
  BY <1>1, <1>2 DEF TypeOK, Audit
<1>7. Result' = Result
  BY <1>2, <1>6 DEF Result
<1>8. audit' \in Audit
  <2>1. /\ (IF score = copy.score THEN audit.score ELSE score) \in Scores
        /\ (IF renewed THEN Reasons ELSE audit.reasons) \in {"static", "dynamic"}
        /\ (IF renewed THEN audit.version + 1 ELSE audit.version) \in Nat
    BY <1>1, <1>4, <1>5
  <2> QED
    BY <1>1, <1>2, <2>1 DEF TypeOK, Audit
<1>9. TypeOK'
  BY <1>1, <1>2, <1>8 DEF TypeOK
(* A score that was not the static one is the result; applying it again changes
   nothing. *)
<1>10. audit'.score \in {audit.score, Result}
  BY <1>1, <1>6
<1>11. AppliedOnce'
  BY <1>1, <1>2, <1>6, <1>10 DEF AppliedOnce, Result
<1>12. renewed => Applicable /\ copy.reasons = "static" /\ audit.version = 0
  BY <1>3, <1>4 DEF renewed
<1>13. OrderOK'
  <2>1. /\ audit'.reasons = "static" <=> audit'.version = 0
        /\ audit'.version # 0 => Applicable'
    BY <1>1, <1>2, <1>4, <1>5, <1>6, <1>12 DEF OrderOK, Applicable
  <2>2. phase \notin {"new", "enqueue"}
    BY <1>1 DEF OrderOK, ScoreAssumption
  <2> QED
    BY <1>1, <1>2, <2>1, <2>2 DEF OrderOK
<1>14. stage'[c] = "alert" /\ seen'[c] = copy
       /\ \A d \in Handlers \ {c} : stage'[d] = stage[d] /\ seen'[d] = seen[d]
  BY <1>1, <1>2 DEF TypeOK, copy
<1>15. /\ audit.version > 0 => audit'.version > 0
       /\ audit.score = Result => audit'.score = Result
  BY <1>1, <1>5, <1>6
<1>16. ASSUME NEW d \in Handlers PROVE CopyOK(d)'
  <2>1. CASE d = c
    <3>1. copy.score # static => audit'.score = Result
      BY <1>3, <1>15
    <3>2. copy.reasons = "dynamic" => audit'.version > 0
      BY <1>3, <1>5, <1>15
    <3> QED
      BY <1>2, <1>3, <1>6, <1>7, <1>14, <2>1, <3>1, <3>2 DEF CopyOK, Applicable
  <2>2. CASE d # c
    <3>1. CopyOK(d) /\ stage'[d] = stage[d] /\ seen'[d] = seen[d]
      BY <1>14, <2>2 DEF AuditInv
    <3>2. audit.version > 0 => audit'.version > 0
      BY <1>5, <1>15
    <3> QED
      BY <1>2, <1>6, <1>7, <1>15, <3>1, <3>2 DEF CopyOK, Applicable
  <2> QED
    BY <2>1, <2>2
(* The first save renews the reasons; until then nobody has come to the alert. *)
<1>17. FirstOK'
  <2> SUFFICES ASSUME Applicable'
               PROVE  /\ audit'.version > 0 /\ audit'.score = Result
                      /\ \A d, e \in Handlers : First(d)' /\ First(e)' => d = e
                      /\ (\E d \in Handlers : First(d)') => alerts = 0
                      /\ alerts <= 1
    BY <1>2, <1>7 DEF FirstOK
  <2>1. Applicable
    BY <1>2 DEF Applicable
  <2>2. alerts \in Nat
    BY <1>1 DEF TypeOK
  <2>3. CASE renewed
    <3>1. audit.version = 0 /\ alerts = 0 /\ \A d \in Handlers : stage[d] # "alert"
      BY <1>1, <1>12, <2>1, <2>3 DEF FirstOK
    <3>2. \A d \in Handlers : First(d)' => d = c
      BY <1>14, <3>1 DEF First
    <3>3. audit'.version > 0 /\ audit'.score = Result
      <4>1. copy.score = score => audit.score = Result
        BY <1>1, <1>3 DEF AppliedOnce, Result
      <4> QED
        BY <1>1, <1>5, <1>6, <2>3, <3>1, <4>1
    <3> QED
      BY <3>1, <3>2, <3>3
  <2>4. CASE ~renewed
    <3>1. copy.reasons = "dynamic"
      BY <1>4, <2>1, <2>4 DEF renewed
    <3>2. audit.version > 0 /\ audit.score = Result
      BY <1>1, <1>3, <2>1, <3>1 DEF FirstOK
    <3>3. \A d \in Handlers : First(d)' => First(d)
      BY <1>14, <3>1 DEF First
    <3> QED
      BY <1>1, <1>5, <1>15, <2>1, <3>2, <3>3 DEF FirstOK
  <2> QED
    BY <2>3, <2>4
<1>18. TellOK'
  <2> SUFFICES ASSUME ~crashed, static < AlertScore, audit'.score >= AlertScore
               PROVE  alerts > 0 \/ \E d \in Handlers : Telling(d)'
    BY <1>1, <1>2 DEF TellOK
  <2>1. CASE audit.score >= AlertScore
    <3>1. \A d \in Handlers : Telling(d) => Telling(d)'
      BY <1>1, <1>7, <1>14 DEF Telling
    <3> QED
      BY <1>1, <2>1, <3>1 DEF TellOK
  <2>2. CASE ~(audit.score >= AlertScore)
    <3>1. audit'.score = Result /\ Result >= AlertScore /\ copy.score = static
      BY <1>3, <1>10, <2>2
    <3> QED
      BY <1>7, <1>14, <3>1 DEF Telling
  <2> QED
    BY <2>1, <2>2
<1> QED
  BY <1>9, <1>11, <1>13, <1>16, <1>17, <1>18 DEF AuditInv

LEMMA SaveStep ==
    ASSUME ScoreAssumption, AuditInv, NEW c \in Handlers, CallbackSave(c)
    PROVE  AuditInv'
<1>1. CASE Reasons # seen[c].reasons /\ audit.version # seen[c].version
  <2>1. /\ stage[c] = "save"
        /\ stage' = [stage EXCEPT ![c] = "idle"]
        /\ seen' = [seen EXCEPT ![c] = NoAudit]
        /\ UNCHANGED <<audit, public, phase, enqueued, job, deliveries, static, alerts,
                       warned, crashed>>
    BY <1>1 DEF CallbackSave
  <2>2. crashed' \in BOOLEAN
    BY <2>1 DEF AuditInv, TypeOK
  <2> QED
    BY <2>1, <2>2, LetGoStep
<1>2. CASE ~(Reasons # seen[c].reasons /\ audit.version # seen[c].version)
  BY <1>2, AppliedStep
<1> QED
  BY <1>1, <1>2

LEMMA TellStep ==
    ASSUME ScoreAssumption, AuditInv, NEW c \in Handlers, CallbackAlert(c)
    PROVE  AuditInv'
<1>1. /\ TypeOK /\ AppliedOnce /\ OrderOK /\ FirstOK /\ TellOK /\ CopyOK(c)
      /\ stage[c] = "alert" /\ job \in Deltas /\ Result \in Scores
      /\ ScoreAfter(seen[c]) = Result
  <2>1. stage[c] = "alert"
    BY DEF CallbackAlert
  <2> QED
    BY <2>1, WorkingJob DEF AuditInv
<1> DEFINE tells == seen[c].score < AlertScore /\ Result >= AlertScore
<1>2. /\ alerts' = IF tells THEN alerts + 1 ELSE alerts
      /\ stage' = [stage EXCEPT ![c] = "idle"]
      /\ seen' = [seen EXCEPT ![c] = NoAudit]
      /\ UNCHANGED <<audit, public, phase, enqueued, job, deliveries, static, warned,
                     crashed>>
  BY <1>1 DEF CallbackAlert
<1>3. Telling(c) => tells
  BY DEF Telling
<1>4. Applicable /\ tells => First(c)
  <2>1. seen[c].reasons \in {"static", "dynamic"} /\ seen[c].score \in Nat
    BY <1>1, SeenType DEF Scores
  <2>2. tells => seen[c].score # Result
    BY <2>1 DEF ScoreAssumption
  <2> QED
    BY <1>1, <2>1, <2>2 DEF CopyOK, First
<1> HIDE DEF tells
<1>5. stage'[c] = "idle"
      /\ \A d \in Handlers \ {c} : stage'[d] = stage[d] /\ seen'[d] = seen[d]
  BY <1>1, <1>2 DEF TypeOK
<1>6. alerts \in Nat /\ alerts' \in Nat /\ alerts' >= alerts
  BY <1>1, <1>2 DEF TypeOK
<1>7. TypeOK'
  BY <1>1, <1>2, <1>6, NoAuditType DEF TypeOK
<1>8. AppliedOnce' /\ OrderOK'
  BY <1>1, <1>2 DEF AppliedOnce, OrderOK, Applicable
<1>9. ASSUME NEW d \in Handlers PROVE CopyOK(d)'
  <2>1. CopyOK(d)
    BY DEF AuditInv
  <2> QED
    BY <1>2, <1>5, <2>1 DEF CopyOK, Applicable, Result
<1>10. /\ Result' = Result /\ (Applicable' <=> Applicable)
       /\ \A d \in Handlers : First(d)' => First(d) /\ d # c
  BY <1>2, <1>5 DEF Result, Applicable, First
<1>11. FirstOK'
  <2> SUFFICES ASSUME Applicable
               PROVE  /\ audit.version # 0
                      /\ audit.version > 0 => audit.score = Result
                      /\ \A d, e \in Handlers : First(d)' /\ First(e)' => d = e
                      /\ (\E d \in Handlers : First(d)') => alerts' = 0
                      /\ alerts' <= 1
    BY <1>2, <1>10 DEF FirstOK
  <2>1. CASE tells
    <3>1. First(c) /\ alerts = 0 /\ \A d \in Handlers : First(d) => d = c
      BY <1>1, <1>4, <2>1 DEF FirstOK
    <3> QED
      BY <1>1, <1>2, <1>10, <2>1, <3>1 DEF FirstOK
  <2>2. CASE ~tells
    BY <1>1, <1>2, <1>10, <2>2 DEF FirstOK
  <2> QED
    BY <2>1, <2>2
<1>12. TellOK'
  <2> SUFFICES ASSUME ~crashed, static < AlertScore, audit.score >= AlertScore
               PROVE  alerts' > 0 \/ \E d \in Handlers : Telling(d)'
    BY <1>1, <1>2 DEF TellOK
  <2>1. CASE alerts > 0
    BY <1>6, <2>1
  <2>2. CASE Telling(c)
    BY <1>2, <1>3, <1>6, <2>2
  <2>3. ASSUME NEW d \in Handlers, d # c, Telling(d) PROVE Telling(d)'
    BY <1>5, <1>10, <2>3 DEF Telling
  <2> QED
    BY <1>1, <2>1, <2>2, <2>3 DEF TellOK
<1> QED
  BY <1>7, <1>8, <1>9, <1>11, <1>12 DEF AuditInv

LEMMA CrashStep ==
    ASSUME ScoreAssumption, AuditInv, Crash
    PROVE  AuditInv'
<1>1. TypeOK
  BY DEF AuditInv
<1>2. /\ crashed' = TRUE
      /\ UNCHANGED <<audit, public, enqueued, job, deliveries, static, alerts, warned>>
  BY DEF Crash
<1>3. CASE /\ phase \in {"enqueue", "save", "alert"} /\ phase' = "done"
           /\ UNCHANGED <<stage, seen>>
  <2>1. TypeOK'
    BY <1>1, <1>2, <1>3 DEF TypeOK, Phases
  <2> QED
    BY <1>2, <1>3, <2>1, RequestStep
<1>4. ASSUME NEW c \in Handlers, stage[c] # "idle",
             stage' = [stage EXCEPT ![c] = "idle"],
             seen' = [seen EXCEPT ![c] = NoAudit], UNCHANGED phase
      PROVE  AuditInv'
  BY <1>2, <1>4, LetGoStep
<1> QED
  BY <1>3, <1>4 DEF Crash

LEMMA AuditStep ==
    ASSUME ScoreAssumption
    PROVE  AuditInv /\ [Next]_vars => AuditInv'
<1> SUFFICES ASSUME AuditInv, [Next]_vars PROVE AuditInv'
  OBVIOUS
<1>1. ASSUME NEW b \in Bases, NEW p \in Penalties, CreateAudit(b, p) PROVE AuditInv'
  BY <1>1, CreateStep
<1>2. ASSUME NEW a \in {"pending", "failed", "timeout"}, Enqueue(a) PROVE AuditInv'
  BY <1>2, EnqueueStep
<1>3. CASE SaveStatus
  BY <1>3, SaveStatusStep
<1>4. CASE Warn
  BY <1>4, WarnStep
<1>5. ASSUME NEW d \in Deltas, WorkerPosts(d) PROVE AuditInv'
  BY <1>5, WorkerStep
<1>6. ASSUME NEW c \in Handlers, CallbackLoad(c) PROVE AuditInv'
  BY <1>6, LoadStep
<1>7. ASSUME NEW c \in Handlers, CallbackSave(c) PROVE AuditInv'
  BY <1>7, SaveStep
<1>8. ASSUME NEW c \in Handlers, CallbackAlert(c) PROVE AuditInv'
  BY <1>8, TellStep
<1>9. CASE Crash
  BY <1>9, CrashStep
<1>10. CASE UNCHANGED vars
  BY <1>10 DEF vars, AuditInv, TypeOK, AppliedOnce, OrderOK, Idle, CopyOK, Result, Applicable,
               FirstOK, First, TellOK, Telling
<1> QED
  BY <1>1, <1>2, <1>3, <1>4, <1>5, <1>6, <1>7, <1>8, <1>9, <1>10 DEF Next

LEMMA AuditInit == ASSUME ScoreAssumption PROVE Init => AuditInv
<1> SUFFICES ASSUME Init PROVE AuditInv
  OBVIOUS
<1>1. /\ audit = NoAudit /\ phase = "new" /\ job = NoJob /\ static = 0 /\ alerts = 0
      /\ stage = [c \in Handlers |-> "idle"] /\ seen = [c \in Handlers |-> NoAudit]
      /\ ~crashed
  BY DEF Init
<1>2. TypeOK
  <2>1. /\ stage \in [Handlers -> {"idle", "save", "alert"}]
        /\ seen \in [Handlers -> Audit] /\ audit \in Audit
    BY <1>1, NoAuditType
  <2>2. /\ public \in BOOLEAN /\ warned \in BOOLEAN /\ crashed \in BOOLEAN
        /\ enqueued = "none" /\ deliveries = 0
    BY DEF Init
  <2>3. 0 \in 0 .. MaxDeliveries /\ 0 \in Scores
    BY DEF Scores, ScoreAssumption
  <2> QED
    BY <1>1, <2>1, <2>2, <2>3 DEF TypeOK, Phases
<1>3. AppliedOnce /\ OrderOK /\ ~Applicable /\ \A c \in Handlers : CopyOK(c)
  BY <1>1, NoAuditType DEF AppliedOnce, OrderOK, Idle, CopyOK, Applicable, ScoreAssumption
<1>4. FirstOK
  BY <1>3 DEF FirstOK
<1>5. TellOK
  BY <1>1, NoAuditType DEF TellOK, ScoreAssumption
<1> QED
  BY <1>2, <1>3, <1>4, <1>5 DEF AuditInv

LEMMA AuditAlways == ASSUME ScoreAssumption PROVE Spec => []AuditInv
BY AuditInit, AuditStep, PTL DEF Spec

-----------------------------------------------------------------------------
(* Every variable of UrlAudit has its type in every reachable state. *)
THEOREM AuditTypes == ASSUME ScoreAssumption PROVE Spec => []TypeOK
<1>1. AuditInv => TypeOK
  BY DEF AuditInv
<1> QED
  BY <1>1, AuditAlways, PTL

(* The dynamic result counts once: the request's late save may undo the mark that it
   was applied, and later deliveries apply it again, to the same score. *)
THEOREM CountsOnce == ASSUME ScoreAssumption PROVE Spec => []AppliedOnce
<1>1. AuditInv => AppliedOnce
  BY DEF AuditInv
<1> QED
  BY <1>1, AuditAlways, PTL

(* Of any number of deliveries of a result that raises the score, handled in any
   order, one alerts: the version of the reasons stops the others. *)
THEOREM AlertsOnce == ASSUME ScoreAssumption PROVE Spec => []AlertedOnce
<1>1. AuditInv => AlertedOnce
  BY DEF AuditInv, FirstOK, Applicable, AlertedOnce
<1> QED
  BY <1>1, AuditAlways, PTL

(* An audit that no function died over ends with an alert if its score is at or
   above the limit, for any limit: the request's, or that of the callback. *)
THEOREM HighScoresAreTold == ASSUME ScoreAssumption PROVE Spec => []HighScoreAlerted
<1>1. AuditInv => HighScoreAlerted
  <2> SUFFICES ASSUME AuditInv, public, Quiet, ~crashed, audit.score >= AlertScore
               PROVE  warned \/ alerts > 0
    BY DEF HighScoreAlerted
  <2>1. TellOK /\ static \in Nat /\ AlertScore \in Nat
    BY DEF AuditInv, TypeOK, Scores, ScoreAssumption
  <2>2. \A c \in Handlers : ~Telling(c)
    BY DEF Quiet, Telling
  <2> QED
    BY <2>1, <2>2 DEF TellOK, Quiet
<1> QED
  BY <1>1, AuditAlways, PTL
===============================================================================
