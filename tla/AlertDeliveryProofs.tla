-------------------------- MODULE AlertDeliveryProofs --------------------------
(***************************************************************************)
(* Theorems about AlertDelivery, for any number of alerts, runs, attempts   *)
(* and faults.  RetryBudget and GivenUpWhenExhausted say nothing of what a  *)
(* run holds between two accesses; AlertInv adds that: the copy of an alert *)
(* only one run has in hand is in step with the database, its count is the  *)
(* one the run goes on from, and a post not yet written down is the only    *)
(* one the database does not count.                                         *)
(***************************************************************************)
EXTENDS AlertDelivery, WellFoundedInduction, FiniteSetTheorems, TLAPS

Busy(w) == at[w] \in {"post", "save", "note", "catch", "fail"}
Trying(w) == at[w] \in {"post", "save", "note", "catch"}
Unsaved(w) == at[w] \in {"save", "note", "catch"}

(* What a run has in hand exists, and what it means to mark as sent was accepted. *)
RunOK(w) ==
    /\ Busy(w) => /\ alert[w] \in Alerts
                  /\ status[alert[w]] # "absent"
                  /\ doc[w].status = "sent" => received[alert[w]]
    /\ ~Busy(w) => alert[w] = 0
    /\ Trying(w) => attempt[w] \in 1 .. MaxAttempts
    /\ \A a \in todo[w] : status[a] # "absent"

Alone == \A a \in Alerts \ shared : \A v, w \in Workers :
             a \in Hands(v) /\ a \in Hands(w) => v = w

(* The copy of an alert no other run has had in hand meanwhile. *)
CopyOK(w) == Busy(w) /\ alert[w] \notin shared =>
    /\ synced[w].status = status[alert[w]] /\ synced[w].attempts = attempts[alert[w]]
    /\ Trying(w) => doc[w].status # "failed" /\ attempt[w] = attempts[alert[w]] + 1
    /\ Unsaved(w) => doc[w].attempts = attempt[w]
    /\ at[w] = "fail" => /\ doc[w].status = "failed"
                         /\ doc[w].attempts = MaxAttempts
                         /\ attempts[alert[w]] = MaxAttempts

Calm(a) == \A v \in Workers : Unsaved(v) => alert[v] # a

AlertOK(a) ==
    /\ status[a] = "sent" => received[a]
    /\ a \notin shared =>
          /\ status[a] = "failed" => attempts[a] = MaxAttempts
          /\ tries[a] <= attempts[a] + faults + 1
          /\ Calm(a) => tries[a] <= attempts[a] + faults

AlertInv ==
    /\ VarsOK
    /\ \A w \in Workers : RunOK(w)
    /\ Alone
    /\ \A w \in Workers : CopyOK(w)
    /\ \A a \in Alerts : AlertOK(a)

-----------------------------------------------------------------------------
(* A set of alerts that is not empty has an oldest one. *)
LEMMA OldestIn ==
    ASSUME NEW S \in SUBSET Alerts, S # {}
    PROVE  Oldest(S) \in S
<1>1. S \subseteq Nat
  BY DEF Alerts
<1>2. PICK x \in S : \A y \in S : ~(<<y, x>> \in OpToRel(<, Nat))
  BY <1>1, WFMin, NatLessThanWellFounded
<1>3. \A y \in S : ~(y < x)
  BY <1>1, <1>2 DEF OpToRel
<1>4. \A y \in S : x <= y
  BY <1>1, <1>3
<1> QED
  BY <1>4 DEF Oldest

(* ... and a newest one. *)
LEMMA NewestIn ==
    ASSUME SizeAssumption, NEW S \in SUBSET Alerts, S # {}
    PROVE  \E m \in S : \A b \in S : b <= m
<1> DEFINE Younger == {Last - b : b \in S}
<1>0. Last \in Nat /\ \A b \in S : b \in Nat /\ b <= Last
  BY SizeAssumption DEF SizeAssumption, Alerts
<1>1. Younger \subseteq Nat /\ Younger # {}
  BY <1>0
<1>2. PICK x \in Younger : \A y \in Younger : ~(<<y, x>> \in OpToRel(<, Nat))
  BY <1>1, WFMin, NatLessThanWellFounded
<1>3. \A y \in Younger : ~(y < x)
  BY <1>1, <1>2 DEF OpToRel
<1>4. PICK m \in S : x = Last - m
  BY <1>2
<1>5. \A b \in S : ~(Last - b < Last - m)
  BY <1>3, <1>4
<1> QED
  BY <1>0, <1>5

LEMMA BatchIn == ASSUME NEW S PROVE FirstBatch(S) \subseteq S
BY DEF FirstBatch

(* Of a step of one run: the other runs keep what they hold, only the alert it
   works on changes, and nothing is forgotten. *)
Frame(w) ==
    /\ \A v \in Workers \ {w} :
          /\ at'[v] = at[v] /\ todo'[v] = todo[v] /\ alert'[v] = alert[v]
          /\ doc'[v] = doc[v] /\ synced'[v] = synced[v] /\ attempt'[v] = attempt[v]
    /\ \A a \in Alerts \ {alert[w]} :
          /\ status'[a] = status[a] /\ attempts'[a] = attempts[a]
          /\ tries'[a] = tries[a] /\ received'[a] = received[a]
    /\ \A a \in Alerts : /\ status[a] # "absent" => status'[a] # "absent"
                         /\ received[a] => received'[a]
    /\ shared \subseteq shared'
    /\ faults <= faults'

LEMMA HandsFrame ==
    ASSUME NEW w \in Workers, Alone, Frame(w),
           Hands(w)' \subseteq Hands(w)
    PROVE  Alone'
<1> SUFFICES ASSUME NEW a \in Alerts \ shared', NEW v \in Workers, NEW u \in Workers,
                    a \in Hands(v)', a \in Hands(u)'
             PROVE  v = u
  BY DEF Alone, Alerts
<1>1. \A x \in Workers \ {w} : Hands(x)' = Hands(x)
  BY DEF Frame, Hands
<1>2. a \in Hands(v) /\ a \in Hands(u)
  BY <1>1
<1>3. a \in Alerts \ shared
  BY DEF Frame
<1> QED
  BY <1>2, <1>3 DEF Alone

LEMMA RunFrame ==
    ASSUME SizeAssumption, NEW w \in Workers, AlertInv, VarsOK', Frame(w), Alone',
           RunOK(w)', CopyOK(w)', \A a \in Alerts : a = alert[w] => AlertOK(a)'
    PROVE  AlertInv'
<1>1. ASSUME NEW v \in Workers PROVE RunOK(v)'
  <2>1. CASE v # w
    <3>1. RunOK(v) /\ todo[v] \subseteq Alerts
      BY DEF AlertInv, VarsOK
    <3> QED
      BY <2>1, <3>1 DEF Frame, RunOK, Busy, Trying
  <2> QED
    BY <2>1
<1>2. ASSUME NEW v \in Workers PROVE CopyOK(v)'
  <2>1. CASE v # w /\ Busy(v) /\ alert[v] \notin shared
    <3>1. RunOK(v) /\ CopyOK(v)
      BY DEF AlertInv
    <3>2. alert[v] \in Alerts /\ alert[v] # 0
      BY <2>1, <3>1, SizeAssumption DEF RunOK, Alerts
    <3>3. alert[v] # alert[w]
      BY <2>1, <3>2 DEF AlertInv, Alone, Hands
    <3> QED
      BY <2>1, <3>1, <3>2, <3>3 DEF Frame, CopyOK, Busy, Trying, Unsaved
  <2>2. CASE v # w /\ ~(Busy(v) /\ alert[v] \notin shared)
    BY <2>2 DEF Frame, CopyOK, Busy
  <2> QED
    BY <2>1, <2>2
<1>3. ASSUME NEW a \in Alerts PROVE AlertOK(a)'
  <2>1. CASE a # alert[w]
    <3>1. AlertOK(a)
      BY DEF AlertInv
    <3>2. Calm(a)' => Calm(a)
      BY <2>1 DEF Frame, Calm, Unsaved
    <3>3. /\ tries[a] \in Nat /\ attempts[a] \in Nat /\ faults \in Nat /\ faults' \in Nat
          /\ a \notin shared' => a \notin shared
      BY SizeAssumption DEF AlertInv, VarsOK, Frame
    <3>4. /\ status'[a] = status[a] /\ attempts'[a] = attempts[a]
          /\ tries'[a] = tries[a] /\ received'[a] = received[a] /\ faults <= faults'
      BY <2>1 DEF Frame
    <3> QED
      BY <3>1, <3>2, <3>3, <3>4 DEF AlertOK
  <2> QED
    BY <2>1
<1> QED
  BY <1>1, <1>2, <1>3 DEF AlertInv

-----------------------------------------------------------------------------
(* What the parts of a step do. *)

MemoryType == /\ at' \in [Workers -> {"idle", "pick", "post", "save", "note", "catch", "fail"}]
              /\ alert' \in [Workers -> 0 .. Last]
              /\ doc' \in [Workers -> Copy]
              /\ synced' \in [Workers -> Copy]
              /\ attempt' \in [Workers -> 0 .. MaxAttempts + 1]
OthersKeep(w) == \A v \in Workers \ {w} :
    /\ at'[v] = at[v] /\ alert'[v] = alert[v]
    /\ doc'[v] = doc[v] /\ synced'[v] = synced[v] /\ attempt'[v] = attempt[v]

LEMMA HoldStep ==
    ASSUME SizeAssumption, VarsOK, NEW w \in Workers,
           NEW a \in 0 .. Last, NEW copy \in Copy, NEW read \in Copy,
           NEW n \in 0 .. MaxAttempts + 1, Hold(w, a, copy, read, n),
           NEW s \in {"idle", "pick", "post", "save", "note", "catch", "fail"}, Goto(w, s)
    PROVE  /\ MemoryType /\ OthersKeep(w)
           /\ at'[w] = s /\ alert'[w] = a /\ doc'[w] = copy /\ synced'[w] = read
           /\ attempt'[w] = n
BY DEF Hold, Goto, VarsOK, MemoryType, OthersKeep

LEMMA DropStep ==
    ASSUME SizeAssumption, VarsOK, NEW w \in Workers, Drop(w),
           NEW s \in {"idle", "pick"}, Goto(w, s)
    PROVE  /\ MemoryType /\ OthersKeep(w)
           /\ at'[w] = s /\ alert'[w] = 0
<1>1. NoCopy \in Copy /\ 0 \in 0 .. Last /\ 0 \in 0 .. MaxAttempts + 1
  BY SizeAssumption DEF NoCopy, Copy
<1>2. Hold(w, 0, NoCopy, NoCopy, 0)
  BY DEF Drop
<1> QED
  BY <1>1, <1>2, HoldStep

LEMMA EnterStep ==
    ASSUME SizeAssumption, VarsOK, NEW w \in Workers, NEW a \in Alerts,
           NEW copy \in Copy, NEW n \in 1 .. MaxAttempts + 1, Enter(w, a, copy, n)
    PROVE  /\ MemoryType /\ OthersKeep(w)
           /\ alert'[w] = a /\ synced'[w] = copy /\ attempt'[w] = n
           /\ doc'[w].attempts = copy.attempts
           /\ \/ at'[w] = "post" /\ n <= MaxAttempts /\ doc'[w] = copy
              \/ at'[w] = "fail" /\ n = MaxAttempts + 1 /\ doc'[w].status = "failed"
<1>1. a \in 0 .. Last /\ n \in 0 .. MaxAttempts + 1
  BY SizeAssumption DEF Alerts
<1>2. CASE n <= MaxAttempts /\ Goto(w, "post") /\ Hold(w, a, copy, copy, n)
  BY <1>1, <1>2, HoldStep
<1>3. CASE /\ n > MaxAttempts /\ Goto(w, "fail")
           /\ Hold(w, a, [copy EXCEPT !.status = "failed"], copy, n)
  <2> DEFINE last == [copy EXCEPT !.status = "failed"]
  <2>1. last \in Copy /\ last.status = "failed" /\ last.attempts = copy.attempts
    BY DEF Copy
  <2>2. n = MaxAttempts + 1
    BY <1>3, SizeAssumption
  <2>3. Hold(w, a, last, copy, n) /\ Goto(w, "fail")
    BY <1>3
  <2> HIDE DEF last
  <2> QED
    BY <1>1, <2>1, <2>2, <2>3, HoldStep
<1> QED
  BY <1>2, <1>3 DEF Enter

LEMMA SaveStep ==
    ASSUME SizeAssumption, AlertInv, NEW w \in Workers, Busy(w), Save(w)
    PROVE  /\ status' \in [Alerts -> {"absent", "pending", "sent", "failed"}]
           /\ attempts' \in [Alerts -> 0 .. MaxAttempts]
           /\ \A a \in Alerts \ {alert[w]} :
                 status'[a] = status[a] /\ attempts'[a] = attempts[a]
           /\ \A a \in Alerts : status[a] # "absent" => status'[a] # "absent"
           /\ status'[alert[w]] \in {doc[w].status, status[alert[w]]}
           /\ alert[w] \notin shared => /\ status'[alert[w]] = doc[w].status
                                        /\ attempts'[alert[w]] = doc[w].attempts
<1>1. RunOK(w) /\ CopyOK(w) /\ VarsOK
  BY DEF AlertInv
<1>2. alert[w] \in Alerts
  BY <1>1 DEF RunOK
<1>3. doc[w] \in Copy /\ doc[w].status \in {"pending", "sent", "failed"}
      /\ doc[w].attempts \in 0 .. MaxAttempts
  BY <1>1 DEF VarsOK, Copy
<1>4. /\ status' = [status EXCEPT ![alert[w]] =
             IF doc[w].status # synced[w].status THEN doc[w].status ELSE @]
      /\ attempts' = [attempts EXCEPT ![alert[w]] =
             IF doc[w].attempts # synced[w].attempts THEN doc[w].attempts ELSE @]
  BY DEF Save, SavePath
<1>5. status' \in [Alerts -> {"absent", "pending", "sent", "failed"}]
  BY <1>1, <1>2, <1>3, <1>4 DEF VarsOK
<1>6. attempts' \in [Alerts -> 0 .. MaxAttempts]
  BY <1>1, <1>2, <1>3, <1>4 DEF VarsOK
<1>7. \A a \in Alerts \ {alert[w]} :
          status'[a] = status[a] /\ attempts'[a] = attempts[a]
  BY <1>1, <1>4 DEF VarsOK
<1>8. status'[alert[w]] \in {doc[w].status, status[alert[w]]}
  BY <1>1, <1>2, <1>4 DEF VarsOK
<1>9. alert[w] \notin shared => /\ status'[alert[w]] = doc[w].status
                                /\ attempts'[alert[w]] = doc[w].attempts
  <2> SUFFICES ASSUME alert[w] \notin shared
               PROVE  /\ status'[alert[w]] = doc[w].status
                      /\ attempts'[alert[w]] = doc[w].attempts
    OBVIOUS
  <2>1. synced[w].status = status[alert[w]] /\ synced[w].attempts = attempts[alert[w]]
    BY <1>1 DEF CopyOK
  <2> QED
    BY <1>1, <1>2, <1>4, <2>1 DEF VarsOK
<1>10. \A a \in Alerts : status[a] # "absent" => status'[a] # "absent"
  BY <1>3, <1>7, <1>8
<1> QED
  BY <1>5, <1>6, <1>7, <1>8, <1>9, <1>10

-----------------------------------------------------------------------------
(* The invariant, action by action. *)

(* No other run has in hand what an unshared run works on. *)
LEMMA OthersElsewhere ==
    ASSUME SizeAssumption, AlertInv, NEW w \in Workers, Busy(w), alert[w] \notin shared,
           NEW v \in Workers \ {w}, Busy(v)
    PROVE  alert[v] # alert[w]
<1>1. RunOK(w) /\ Alone
  BY DEF AlertInv
<1>2. alert[w] \in Alerts /\ alert[w] # 0
  BY <1>1, SizeAssumption DEF RunOK, Alerts
<1> QED
  BY <1>1, <1>2 DEF Alone, Hands

LEMMA FindStep ==
    ASSUME SizeAssumption, AlertInv, NEW w \in Workers, FindWaiting(w)
    PROVE  AlertInv'
<1>1. VarsOK /\ RunOK(w) /\ Alone
  BY DEF AlertInv
<1>2. alert[w] = 0 /\ alert[w] \notin Alerts /\ at'[w] = "pick" /\ alert'[w] = 0
  BY <1>1, SizeAssumption DEF RunOK, Busy, FindWaiting, Goto, VarsOK, Alerts, memory
<1>3. FirstBatch(Waiting) \subseteq Waiting /\ Waiting \subseteq Alerts
  BY BatchIn DEF Waiting
<1>4. todo' \in [Workers -> SUBSET Alerts] /\ todo'[w] = FirstBatch(Waiting)
  BY <1>1, <1>3 DEF FindWaiting, VarsOK
<1>5. shared' \in SUBSET Alerts
  BY <1>1, <1>3 DEF FindWaiting, VarsOK
<1>6. VarsOK'
  BY <1>1, <1>4, <1>5 DEF FindWaiting, Goto, VarsOK, db, memory
<1>7. Frame(w)
  BY <1>1 DEF Frame, FindWaiting, Goto, db, memory, VarsOK
<1>8. Alone'
  <2> SUFFICES ASSUME NEW a \in Alerts \ shared', NEW v \in Workers, NEW u \in Workers,
                      a \in Hands(v)', a \in Hands(u)'
               PROVE  v = u
    BY DEF Alone, Alerts
  <2>1. a \notin shared
    BY <1>7 DEF Frame
  <2>2. \A x \in Workers \ {w} : Hands(x)' = Hands(x)
    BY <1>7 DEF Frame, Hands
  <2>3. a \in Hands(w)' => a \in FirstBatch(Waiting)
    BY <1>2, <1>4 DEF Hands
  <2>4. \A x \in Workers \ {w} : a \in FirstBatch(Waiting) /\ a \in Hands(x) => a \in shared'
    BY DEF FindWaiting
  <2> QED
    BY <1>1, <2>1, <2>2, <2>3, <2>4 DEF Alone
<1>9. RunOK(w)'
  <2>1. \A a \in todo'[w] : status'[a] # "absent"
    BY <1>3, <1>4 DEF FindWaiting, Waiting, db
  <2> QED
    BY <1>2, <2>1 DEF RunOK, Busy, Trying
<1>10. CopyOK(w)'
  BY <1>2 DEF CopyOK, Busy
<1> QED
  BY <1>2, <1>6, <1>7, <1>8, <1>9, <1>10, RunFrame

LEMMA LoadStep ==
    ASSUME SizeAssumption, AlertInv, NEW w \in Workers, Load(w)
    PROVE  AlertInv'
<1> DEFINE a == Oldest(todo[w])
           copy == [status |-> status[a], attempts |-> attempts[a]]
<1>1. VarsOK /\ RunOK(w) /\ Alone
  BY DEF AlertInv
<1>2. a \in todo[w] /\ a \in Alerts /\ status[a] # "absent"
  <2>1. todo[w] \in SUBSET Alerts /\ todo[w] # {}
    BY <1>1 DEF Load, VarsOK
  <2> QED
    BY <1>1, <2>1, OldestIn DEF RunOK
<1>3. /\ todo' = [todo EXCEPT ![w] = @ \ {a}]
      /\ Enter(w, a, copy, attempts[a] + 1)
      /\ at[w] = "pick"
      /\ UNCHANGED <<db, history, faults>>
  BY DEF Load
<1>4. AlertOK(a)
  BY <1>2 DEF AlertInv
<1> HIDE DEF a
<1>5. copy \in Copy /\ copy.status = status[a] /\ copy.attempts = attempts[a]
  BY <1>1, <1>2 DEF VarsOK, Copy
<1>6. attempts[a] + 1 \in 1 .. MaxAttempts + 1 /\ attempts[a] \in 0 .. MaxAttempts
  BY <1>1, <1>2, SizeAssumption DEF VarsOK
<1> HIDE DEF copy
<1>7. /\ MemoryType /\ OthersKeep(w)
      /\ alert'[w] = a /\ synced'[w] = copy /\ attempt'[w] = attempts[a] + 1
      /\ doc'[w].attempts = copy.attempts
      /\ \/ at'[w] = "post" /\ attempts[a] + 1 <= MaxAttempts /\ doc'[w] = copy
         \/ at'[w] = "fail" /\ attempts[a] + 1 = MaxAttempts + 1 /\ doc'[w].status = "failed"
  BY <1>1, <1>2, <1>3, <1>5, <1>6, EnterStep
<1>8. alert[w] = 0 /\ alert[w] \notin Alerts
  BY <1>1, <1>3, SizeAssumption DEF RunOK, Busy, Alerts
<1>9. todo' \in [Workers -> SUBSET Alerts] /\ todo'[w] = todo[w] \ {a}
  BY <1>1, <1>3 DEF VarsOK
<1>10. VarsOK'
  BY <1>1, <1>3, <1>7, <1>9 DEF MemoryType, VarsOK, db, history
<1>11. Frame(w)
  BY <1>1, <1>3, <1>7 DEF Frame, OthersKeep, VarsOK, db, history
<1>12. Alone'
  <2>1. Hands(w)' \subseteq Hands(w)
    BY <1>2, <1>7, <1>9 DEF Hands
  <2> QED
    BY <1>1, <1>11, <2>1, HandsFrame
<1>13. RunOK(w)'
  BY <1>1, <1>2, <1>3, <1>4, <1>5, <1>6, <1>7, <1>9
  DEF RunOK, Busy, Trying, AlertOK, db, history
<1>14. CopyOK(w)'
  BY <1>2, <1>3, <1>4, <1>5, <1>6, <1>7, SizeAssumption
  DEF CopyOK, Busy, Trying, Unsaved, AlertOK, db, history
<1> QED
  BY <1>8, <1>10, <1>11, <1>12, <1>13, <1>14, RunFrame

(* A step that leaves in hand the alert the run was working on. *)
LEMMA KeepsHands ==
    ASSUME AlertInv, NEW w \in Workers, Frame(w), todo' = todo, alert'[w] = alert[w]
    PROVE  Alone'
<1>1. Hands(w)' = Hands(w) /\ Alone
  BY DEF Hands, AlertInv
<1> QED
  BY <1>1, HandsFrame

(* A post: one more try of an alert whose others are all written down. *)
LEMMA PostStep ==
    ASSUME SizeAssumption, AlertInv, NEW w \in Workers, at[w] = "post",
           Posted(w), UNCHANGED <<db, todo, alert, synced, attempt, shared>>,
           NEW d \in Copy, doc' = [doc EXCEPT ![w] = d],
           d.attempts = attempt[w], d.status \in {doc[w].status, "sent"},
           NEW r \in BOOLEAN, received' = [received EXCEPT ![alert[w]] = r],
           received[alert[w]] => r, d.status = "sent" => r,
           NEW s \in {"save", "note", "catch"}, Goto(w, s),
           faults' \in 0 .. MaxFaults, faults <= faults'
    PROVE  AlertInv'
<1>1. VarsOK /\ RunOK(w) /\ CopyOK(w) /\ Busy(w) /\ Trying(w) /\ ~Unsaved(w)
  BY DEF AlertInv, Busy, Trying, Unsaved
<1> DEFINE b == alert[w]
<1>2. b \in Alerts /\ AlertOK(b) /\ status[b] # "absent" /\ attempt[w] \in 1 .. MaxAttempts
  BY <1>1 DEF RunOK, AlertInv
<1>3. tries' = [tries EXCEPT ![b] = @ + 1] /\ at' = [at EXCEPT ![w] = s]
  BY DEF Posted, Goto
<1>4. tries[b] \in Nat /\ tries[b] + 1 \in Nat
  BY <1>1, <1>2 DEF VarsOK
<1> HIDE DEF b
<1>5. /\ tries' \in [Alerts -> Nat] /\ tries'[b] = tries[b] + 1
      /\ \A a \in Alerts \ {b} : tries'[a] = tries[a]
  BY <1>1, <1>2, <1>3, <1>4 DEF VarsOK
<1>6. /\ received' \in [Alerts -> BOOLEAN] /\ received'[b] = r
      /\ \A a \in Alerts \ {b} : received'[a] = received[a]
  BY <1>1, <1>2 DEF VarsOK, b
<1>7. at'[w] = s /\ doc'[w] = d /\ alert'[w] = b
  BY <1>1, <1>3 DEF VarsOK, b
<1>8. VarsOK'
  BY <1>1, <1>3, <1>5, <1>6 DEF VarsOK, db
<1>9. Frame(w)
  <2>1. \A v \in Workers \ {w} :
            /\ at'[v] = at[v] /\ todo'[v] = todo[v] /\ alert'[v] = alert[v]
            /\ doc'[v] = doc[v] /\ synced'[v] = synced[v] /\ attempt'[v] = attempt[v]
    BY <1>1, <1>3 DEF VarsOK
  <2>2. \A a \in Alerts : received[a] => received'[a]
    BY <1>6 DEF b
  <2> QED
    BY <1>5, <1>6, <2>1, <2>2 DEF Frame, db, b
<1>10. Alone'
  BY <1>7, <1>9, KeepsHands DEF b
<1>11. RunOK(w)'
  BY <1>1, <1>2, <1>6, <1>7 DEF RunOK, Busy, Trying, db, b
<1>12. CopyOK(w)'
  BY <1>1, <1>7 DEF CopyOK, Busy, Trying, Unsaved, db, b
<1>13. ASSUME NEW a \in Alerts, a = alert[w] PROVE AlertOK(a)'
  <2>1. a = b
    BY <1>13 DEF b
  <2>2. ~Calm(a)'
    BY <1>7, <2>1 DEF Calm, Unsaved
  <2>3. b \notin shared => Calm(b)
    <3>1. \A v \in Workers \ {w} : b \notin shared /\ Busy(v) => alert[v] # b
      BY <1>1, OthersElsewhere DEF b
    <3> QED
      BY <1>1, <3>1 DEF Calm, Unsaved, Busy
  <2>4. attempts[b] \in Nat /\ faults \in Nat /\ faults' \in Nat
    BY <1>1, <1>2, SizeAssumption DEF VarsOK
  <2>5. a \notin shared' => tries'[a] <= attempts'[a] + faults' + 1
    BY <1>2, <1>4, <1>5, <2>1, <2>3, <2>4 DEF AlertOK, db
  <2>6. received[a] => received'[a]
    BY <1>6, <2>1 DEF b
  <2> QED
    BY <1>2, <2>1, <2>2, <2>5, <2>6 DEF AlertOK, db
<1> QED
  BY <1>8, <1>9, <1>10, <1>11, <1>12, <1>13, RunFrame

LEMMA PostSteps ==
    ASSUME SizeAssumption, AlertInv, NEW w \in Workers
    PROVE  /\ PostAccepted(w) => AlertInv'
           /\ PostRefused(w) => AlertInv'
           /\ \A arrived \in BOOLEAN : PostUnanswered(w, arrived) => AlertInv'
<1>1. VarsOK /\ RunOK(w)
  BY DEF AlertInv
<1>2. faults \in 0 .. MaxFaults /\ faults <= faults
  BY <1>1, SizeAssumption DEF VarsOK
<1>3. at[w] = "post" =>
          /\ alert[w] \in Alerts /\ received[alert[w]] \in BOOLEAN
          /\ attempt[w] \in 0 .. MaxAttempts
          /\ doc[w].status = "sent" => received[alert[w]]
  BY <1>1, SizeAssumption DEF RunOK, Busy, Trying, VarsOK
<1>4. doc[w] \in Copy
  BY <1>1 DEF VarsOK
<1>5. CASE PostAccepted(w)
  <2> DEFINE d == [status |-> "sent", attempts |-> attempt[w]]
  <2>1. d \in Copy /\ d.attempts = attempt[w] /\ d.status \in {doc[w].status, "sent"}
    BY <1>3, <1>5 DEF PostAccepted, Copy
  <2>2. /\ at[w] = "post" /\ Posted(w) /\ Goto(w, "save")
        /\ received' = [received EXCEPT ![alert[w]] = TRUE]
        /\ doc' = [doc EXCEPT ![w] = d]
        /\ UNCHANGED <<db, todo, alert, synced, attempt, shared, faults>>
    BY <1>5 DEF PostAccepted
  <2> HIDE DEF d
  <2> QED
    BY <1>2, <2>1, <2>2, PostStep
<1>6. CASE PostRefused(w)
  <2> DEFINE d == [doc[w] EXCEPT !.attempts = attempt[w]]
  <2>1. d \in Copy /\ d.attempts = attempt[w] /\ d.status = doc[w].status
    BY <1>3, <1>4, <1>6 DEF PostRefused, Copy
  <2>2. /\ at[w] = "post" /\ Posted(w) /\ Goto(w, "note")
        /\ doc' = [doc EXCEPT ![w] = d]
        /\ UNCHANGED <<db, todo, alert, synced, attempt, shared, faults>>
        /\ received' = received
    BY <1>1, <1>6 DEF PostRefused, VarsOK
  <2>3. received' = [received EXCEPT ![alert[w]] = received[alert[w]]]
    BY <1>1, <2>2 DEF VarsOK
  <2> HIDE DEF d
  <2> QED
    BY <1>2, <1>3, <2>1, <2>2, <2>3, PostStep
<1>7. ASSUME NEW arrived \in BOOLEAN, PostUnanswered(w, arrived) PROVE AlertInv'
  <2> DEFINE d == [doc[w] EXCEPT !.attempts = attempt[w]]
             r == received[alert[w]] \/ arrived
  <2>1. d \in Copy /\ d.attempts = attempt[w] /\ d.status = doc[w].status
    BY <1>3, <1>4, <1>7 DEF PostUnanswered, Copy
  <2>2. /\ at[w] = "post" /\ Posted(w) /\ Goto(w, "catch")
        /\ doc' = [doc EXCEPT ![w] = d]
        /\ UNCHANGED <<db, todo, alert, synced, attempt, shared>>
    BY <1>1, <1>7 DEF PostUnanswered, VarsOK
  <2>3. received' = [received EXCEPT ![alert[w]] = r] /\ r \in BOOLEAN
        /\ (received[alert[w]] => r)
    BY <1>1, <1>7 DEF PostUnanswered, VarsOK
  <2>4. faults' \in 0 .. MaxFaults /\ faults <= faults'
    BY <1>2, <1>7, SizeAssumption DEF PostUnanswered, Fault
  <2> HIDE DEF d, r
  <2> QED
    BY <1>3, <2>1, <2>2, <2>3, <2>4, PostStep
<1> QED
  BY <1>5, <1>6, <1>7

(* A save takes the alert to where the copy is: a post the database did not count
   is counted by it. *)
LEMMA SavedAlert ==
    ASSUME SizeAssumption, AlertInv, NEW w \in Workers, Unsaved(w) \/ at[w] = "fail", Save(w),
           UNCHANGED <<tries, received, shared, faults>>
    PROVE  \A a \in Alerts : a = alert[w] => AlertOK(a)'
<1> SUFFICES ASSUME NEW a \in Alerts, a = alert[w] PROVE AlertOK(a)'
  OBVIOUS
<1>1. VarsOK /\ RunOK(w) /\ CopyOK(w) /\ AlertOK(a)
  BY DEF AlertInv
<1>2. /\ status'[a] \in {doc[w].status, status[a]}
      /\ a \notin shared => status'[a] = doc[w].status /\ attempts'[a] = doc[w].attempts
  BY SaveStep DEF Unsaved, Busy
<1>3. status'[a] = "sent" => received'[a]
  BY <1>1, <1>2 DEF RunOK, AlertOK, Unsaved, Busy
<1>4. ASSUME a \notin shared'
      PROVE  /\ status'[a] = "failed" => attempts'[a] = MaxAttempts
             /\ tries'[a] <= attempts'[a] + faults' + 1
             /\ tries'[a] <= attempts'[a] + faults'
  <2>1. a \notin shared /\ status'[a] = doc[w].status /\ attempts'[a] = doc[w].attempts
    BY <1>2, <1>4
  <2>2. tries[a] \in Nat /\ attempts[a] \in Nat /\ faults \in Nat
    BY <1>1, SizeAssumption DEF VarsOK
  <2>3. CASE Unsaved(w)
    <3>1. doc[w].status # "failed" /\ doc[w].attempts = attempts[a] + 1
      BY <1>1, <2>1, <2>3 DEF CopyOK, Unsaved, Trying, Busy
    <3> QED
      BY <1>1, <2>1, <2>2, <3>1 DEF AlertOK
  <2>4. CASE at[w] = "fail"
    <3>1. ASSUME NEW v \in Workers, Unsaved(v) PROVE alert[v] # a
      <4>1. v # w /\ Busy(v) /\ Busy(w)
        BY <2>4, <3>1 DEF Unsaved, Busy
      <4> QED
        BY <2>1, <4>1, OthersElsewhere
    <3>2. tries[a] <= attempts[a] + faults
      BY <1>1, <2>1, <3>1 DEF AlertOK, Calm
    <3>3. doc[w].attempts = MaxAttempts /\ attempts[a] = MaxAttempts
      BY <1>1, <2>1, <2>4 DEF CopyOK, Busy
    <3> QED
      BY <2>1, <2>2, <3>2, <3>3
  <2> QED
    BY <2>3, <2>4
<1> QED
  BY <1>3, <1>4 DEF AlertOK

(* The save, and what the run has in hand afterwards. *)
LEMMA SaveLoopStep ==
    ASSUME SizeAssumption, AlertInv, NEW w \in Workers, at[w] \in {"note", "catch"},
           Save(w), Loop(w), UNCHANGED <<faults, todo, history>>
    PROVE  AlertInv'
<1> DEFINE b == alert[w]
           copy == doc[w]
           n == attempt[w] + 1
<1>1. VarsOK /\ RunOK(w) /\ CopyOK(w) /\ Busy(w) /\ Trying(w) /\ Unsaved(w)
  BY DEF AlertInv, Busy, Trying, Unsaved
<1>2. /\ b \in Alerts /\ copy \in Copy /\ n \in 1 .. MaxAttempts + 1
      /\ status[b] # "absent" /\ attempt[w] \in 1 .. MaxAttempts
      /\ copy.status = "sent" => received[b]
  BY <1>1, SizeAssumption DEF RunOK, VarsOK
<1>3. /\ status' \in [Alerts -> {"absent", "pending", "sent", "failed"}]
      /\ attempts' \in [Alerts -> 0 .. MaxAttempts]
      /\ \A a \in Alerts \ {b} :
            status'[a] = status[a] /\ attempts'[a] = attempts[a]
      /\ \A a \in Alerts : status[a] # "absent" => status'[a] # "absent"
      /\ b \notin shared => status'[b] = copy.status /\ attempts'[b] = copy.attempts
  BY <1>1, SaveStep
<1>4. b \notin shared => copy.status # "failed" /\ copy.attempts = attempt[w]
  BY <1>1 DEF CopyOK
<1>5. \A a \in Alerts : a = alert[w] => AlertOK(a)'
  BY <1>1, SavedAlert DEF history
<1>6. Enter(w, b, copy, n)
  BY DEF Loop
<1>7. copy = doc[w] /\ b = alert[w] /\ n = attempt[w] + 1
  OBVIOUS
<1> HIDE DEF copy, b, n
<1>8. /\ MemoryType /\ OthersKeep(w)
      /\ alert'[w] = b /\ synced'[w] = copy /\ attempt'[w] = n
      /\ doc'[w].attempts = copy.attempts
      /\ \/ at'[w] = "post" /\ n <= MaxAttempts /\ doc'[w] = copy
         \/ at'[w] = "fail" /\ n = MaxAttempts + 1 /\ doc'[w].status = "failed"
  BY <1>1, <1>2, <1>6, EnterStep
<1>9. VarsOK'
  BY <1>1, <1>3, <1>8 DEF MemoryType, VarsOK, history
<1>10. Frame(w)
  BY <1>1, <1>3, <1>7, <1>8, SizeAssumption DEF Frame, OthersKeep, VarsOK, history
<1>11. Alone'
  BY <1>7, <1>8, <1>10, KeepsHands
<1>12. RunOK(w)'
  BY <1>1, <1>2, <1>3, <1>8 DEF RunOK, Busy, Trying, history, VarsOK
<1>13. CopyOK(w)'
  BY <1>2, <1>3, <1>4, <1>7, <1>8, SizeAssumption DEF CopyOK, Busy, Trying, Unsaved, history
<1> QED
  BY <1>5, <1>9, <1>10, <1>11, <1>12, <1>13, RunFrame

LEMMA SaveDropStep ==
    ASSUME SizeAssumption, AlertInv, NEW w \in Workers, at[w] \in {"save", "fail"},
           Save(w), Goto(w, "pick"), Drop(w), UNCHANGED <<faults, todo, history>>
    PROVE  AlertInv'
<1>1. VarsOK /\ RunOK(w) /\ Busy(w) /\ (Unsaved(w) \/ at[w] = "fail")
  BY DEF AlertInv, Busy, Unsaved
<1>2. /\ status' \in [Alerts -> {"absent", "pending", "sent", "failed"}]
      /\ attempts' \in [Alerts -> 0 .. MaxAttempts]
      /\ \A a \in Alerts \ {alert[w]} :
            status'[a] = status[a] /\ attempts'[a] = attempts[a]
      /\ \A a \in Alerts : status[a] # "absent" => status'[a] # "absent"
  BY <1>1, SaveStep
<1>3. \A a \in Alerts : a = alert[w] => AlertOK(a)'
  BY <1>1, SavedAlert DEF history
<1>4. MemoryType /\ OthersKeep(w) /\ at'[w] = "pick" /\ alert'[w] = 0
  BY <1>1, DropStep
<1>5. VarsOK'
  BY <1>1, <1>2, <1>4 DEF MemoryType, VarsOK, history
<1>6. Frame(w)
  BY <1>1, <1>2, <1>4, SizeAssumption DEF Frame, OthersKeep, VarsOK, history
<1>7. Alone'
  <2>1. Hands(w)' \subseteq Hands(w)
    BY <1>4 DEF Hands
  <2> QED
    BY <1>6, <2>1, HandsFrame DEF AlertInv
<1>8. RunOK(w)'
  BY <1>1, <1>2, <1>4 DEF RunOK, Busy, Trying, VarsOK
<1>9. CopyOK(w)'
  BY <1>4 DEF CopyOK, Busy
<1> QED
  BY <1>3, <1>5, <1>6, <1>7, <1>8, <1>9, RunFrame

(* A fault pays for the post that will not be written down. *)
LEMMA FaultPays ==
    ASSUME SizeAssumption, AlertInv, Fault, UNCHANGED <<db, history>>
    PROVE  /\ faults' \in 0 .. MaxFaults /\ faults <= faults'
           /\ \A a \in Alerts : AlertOK(a)'
<1>1. VarsOK /\ faults \in Nat /\ faults' = faults + 1 /\ faults < MaxFaults
  BY SizeAssumption DEF AlertInv, VarsOK, Fault
<1>2. ASSUME NEW a \in Alerts PROVE AlertOK(a)'
  <2>1. AlertOK(a) /\ tries[a] \in Nat /\ attempts[a] \in Nat
    BY <1>1, SizeAssumption DEF AlertInv, VarsOK
  <2> QED
    BY <1>1, <2>1 DEF AlertOK, db, history
<1> QED
  BY <1>1, <1>2, SizeAssumption

LEMMA DropFaultStep ==
    ASSUME SizeAssumption, AlertInv, NEW w \in Workers, Fault,
           NEW s \in {"idle", "pick"}, Goto(w, s), Drop(w), UNCHANGED <<db, history>>,
           NEW T \in SUBSET todo[w], todo' = [todo EXCEPT ![w] = T]
    PROVE  AlertInv'
<1>1. VarsOK /\ RunOK(w)
  BY DEF AlertInv
<1>2. MemoryType /\ OthersKeep(w) /\ at'[w] = s /\ alert'[w] = 0
  BY <1>1, DropStep
<1>3. /\ todo' \in [Workers -> SUBSET Alerts] /\ todo'[w] = T
      /\ \A v \in Workers \ {w} : todo'[v] = todo[v]
  BY <1>1 DEF VarsOK
<1>4. VarsOK'
  BY <1>1, <1>2, <1>3, FaultPays DEF MemoryType, VarsOK, db, history
<1>5. Frame(w)
  BY <1>1, <1>2, <1>3, FaultPays DEF Frame, OthersKeep, db, history
<1>6. Alone'
  <2>1. Hands(w)' \subseteq Hands(w)
    BY <1>2, <1>3 DEF Hands
  <2> QED
    BY <1>5, <2>1, HandsFrame DEF AlertInv
<1>7. RunOK(w)'
  BY <1>1, <1>2, <1>3 DEF RunOK, Busy, Trying, db
<1>8. CopyOK(w)'
  BY <1>2 DEF CopyOK, Busy
<1> QED
  BY <1>4, <1>5, <1>6, <1>7, <1>8, FaultPays, RunFrame

LEMMA CatchStep ==
    ASSUME SizeAssumption, AlertInv, NEW w \in Workers, at[w] \in {"save", "note"},
           Fault, Goto(w, "catch"), UNCHANGED <<db, memory, todo, history>>
    PROVE  AlertInv'
<1>1. VarsOK /\ RunOK(w) /\ CopyOK(w)
  BY DEF AlertInv
<1>2. at' = [at EXCEPT ![w] = "catch"] /\ at'[w] = "catch"
  BY <1>1 DEF Goto, VarsOK
<1>3. VarsOK'
  BY <1>1, <1>2, FaultPays DEF VarsOK, db, memory, history
<1>4. Frame(w)
  BY <1>1, <1>2, FaultPays DEF Frame, VarsOK, db, memory, history
<1>5. Alone'
  BY <1>4, KeepsHands DEF memory
<1>6. RunOK(w)'
  BY <1>1, <1>2 DEF RunOK, Busy, Trying, db, memory, history
<1>7. CopyOK(w)'
  BY <1>1, <1>2 DEF CopyOK, Busy, Trying, Unsaved, db, memory, history
<1> QED
  BY <1>3, <1>4, <1>5, <1>6, <1>7, FaultPays, RunFrame

LEMMA EndStep ==
    ASSUME SizeAssumption, AlertInv, NEW w \in Workers, RunEnds(w)
    PROVE  AlertInv'
<1>1. VarsOK /\ RunOK(w) /\ CopyOK(w)
  BY DEF AlertInv
<1>2. at' = [at EXCEPT ![w] = "idle"] /\ at'[w] = "idle" /\ at[w] = "pick"
  BY <1>1 DEF Goto, VarsOK, RunEnds
<1>3. alert[w] = 0 /\ alert[w] \notin Alerts
  BY <1>1, <1>2 DEF RunOK, Busy, Alerts
<1>4. VarsOK'
  BY <1>1, <1>2 DEF RunEnds, VarsOK, db, memory, history
<1>5. Frame(w)
  BY <1>1, <1>2, SizeAssumption DEF RunEnds, Frame, VarsOK, db, memory, history
<1>6. Alone'
  BY <1>5, KeepsHands DEF RunEnds, memory
<1>7. RunOK(w)'
  BY <1>1, <1>2, <1>3 DEF RunEnds, RunOK, Busy, Trying, db, memory, history
<1>8. CopyOK(w)'
  BY <1>2 DEF CopyOK, Busy
<1> QED
  BY <1>3, <1>4, <1>5, <1>6, <1>7, <1>8, RunFrame

(* A new alert is in nobody's hands. *)
LEMMA SendStep ==
    ASSUME SizeAssumption, AlertInv, NEW b \in Alerts, SendPollerAlert(b)
    PROVE  AlertInv'
<1>1. VarsOK /\ Alone
  BY DEF AlertInv
<1>2. /\ status' = [status EXCEPT ![b] = "pending"] /\ status[b] = "absent"
      /\ UNCHANGED <<attempts, todo, at, memory, history, faults>>
  BY DEF SendPollerAlert
<1>3. /\ status'[b] = "pending" /\ \A a \in Alerts \ {b} : status'[a] = status[a]
  BY <1>1, <1>2 DEF VarsOK
<1>4. VarsOK'
  BY <1>1, <1>2 DEF VarsOK, memory, history
<1>5. Alone'
  BY <1>1, <1>2 DEF Alone, Hands, memory, history
<1>6. ASSUME NEW w \in Workers PROVE RunOK(w)' /\ CopyOK(w)'
  <2>1. RunOK(w) /\ CopyOK(w) /\ todo[w] \subseteq Alerts
    BY <1>1 DEF AlertInv, VarsOK
  <2>2. RunOK(w)'
    BY <1>2, <1>3, <2>1 DEF RunOK, Busy, Trying, memory, history
  <2>3. Busy(w) => alert[w] \in Alerts \ {b}
    BY <1>2, <2>1 DEF RunOK
  <2>4. CopyOK(w)'
    BY <1>2, <1>3, <2>1, <2>3 DEF CopyOK, Busy, Trying, Unsaved, memory, history
  <2> QED
    BY <2>2, <2>4
<1>7. ASSUME NEW a \in Alerts PROVE AlertOK(a)'
  <2>1. AlertOK(a)
    BY DEF AlertInv
  <2>2. Calm(a)' <=> Calm(a)
    BY <1>2 DEF Calm, Unsaved, memory
  <2>3. status'[a] = status[a] \/ status'[a] = "pending"
    BY <1>3
  <2> QED
    BY <1>2, <2>1, <2>2, <2>3 DEF AlertOK, history
<1> QED
  BY <1>4, <1>5, <1>6, <1>7 DEF AlertInv

LEMMA AlertStep ==
    ASSUME SizeAssumption
    PROVE  AlertInv /\ [Next]_vars => AlertInv'
<1> SUFFICES ASSUME AlertInv, [Next]_vars PROVE AlertInv'
  OBVIOUS
<1>1. ASSUME NEW a \in Alerts, SendPollerAlert(a) PROVE AlertInv'
  BY <1>1, SendStep
<1>2. ASSUME NEW w \in Workers, RunStep(w) PROVE AlertInv'
  <2>1. CASE FindWaiting(w)
    BY <2>1, FindStep
  <2>2. CASE Load(w)
    BY <2>2, LoadStep
  <2>3. CASE PostAccepted(w) \/ PostRefused(w)
    BY <2>3, PostSteps
  <2>4. CASE SaveSent(w)
    <3>1. CASE Save(w) /\ Goto(w, "pick") /\ Drop(w) /\ UNCHANGED faults
      BY <2>4, <3>1, SaveDropStep DEF SaveSent
    <3>2. CASE Fault /\ Goto(w, "catch") /\ UNCHANGED <<db, memory>>
      BY <2>4, <3>2, CatchStep DEF SaveSent
    <3> QED
      BY <2>4, <3>1, <3>2 DEF SaveSent
  <2>5. CASE SaveAttempt(w)
    <3>1. CASE Save(w) /\ Loop(w) /\ UNCHANGED faults
      BY <2>5, <3>1, SaveLoopStep DEF SaveAttempt
    <3>2. CASE Fault /\ Goto(w, "catch") /\ UNCHANGED <<db, memory>>
      BY <2>5, <3>2, CatchStep DEF SaveAttempt
    <3> QED
      BY <2>5, <3>1, <3>2 DEF SaveAttempt
  <2>6. CASE SaveInCatch(w)
    <3>1. CASE Save(w) /\ Loop(w) /\ UNCHANGED faults
      BY <2>6, <3>1, SaveLoopStep DEF SaveInCatch
    <3>2. CASE Fault /\ Goto(w, "pick") /\ Drop(w) /\ UNCHANGED db
      <4>1. todo' = [todo EXCEPT ![w] = todo[w]]
        BY <2>6 DEF SaveInCatch, AlertInv, VarsOK
      <4> QED
        BY <2>6, <3>2, <4>1, DropFaultStep DEF SaveInCatch
    <3> QED
      BY <2>6, <3>1, <3>2 DEF SaveInCatch
  <2>7. CASE SaveFailed(w)
    <3>1. CASE Save(w) /\ UNCHANGED faults
      BY <2>7, <3>1, SaveDropStep DEF SaveFailed
    <3>2. CASE Fault /\ UNCHANGED db
      <4>1. todo' = [todo EXCEPT ![w] = todo[w]]
        BY <2>7 DEF SaveFailed, AlertInv, VarsOK
      <4> QED
        BY <2>7, <3>2, <4>1, DropFaultStep DEF SaveFailed
    <3> QED
      BY <2>7, <3>1, <3>2 DEF SaveFailed
  <2>8. CASE RunEnds(w)
    BY <2>8, EndStep
  <2> QED
    BY <1>2, <2>1, <2>2, <2>3, <2>4, <2>5, <2>6, <2>7, <2>8 DEF RunStep
<1>3. ASSUME NEW w \in Workers, NEW arrived \in BOOLEAN, PostUnanswered(w, arrived)
      PROVE  AlertInv'
  BY <1>3, PostSteps
<1>4. ASSUME NEW w \in Workers, RunDies(w) PROVE AlertInv'
  <2>1. {} \in SUBSET todo[w]
    OBVIOUS
  <2> QED
    BY <1>4, <2>1, DropFaultStep DEF RunDies
<1>5. CASE UNCHANGED vars
  BY <1>5 DEF vars, AlertInv, VarsOK, RunOK, Alone, CopyOK, AlertOK, Calm, Busy, Trying,
              Unsaved, Hands
<1> QED
  BY <1>1, <1>2, <1>3, <1>4, <1>5 DEF Next

LEMMA AlertInit == ASSUME SizeAssumption PROVE Init => AlertInv
<1> SUFFICES ASSUME Init PROVE AlertInv
  OBVIOUS
<1>1. NoCopy \in Copy /\ 0 \in 0 .. Last /\ 0 \in 0 .. MaxAttempts + 1
      /\ 0 \in 0 .. MaxAttempts /\ 0 \in 0 .. MaxFaults
  BY SizeAssumption DEF NoCopy, Copy
<1>2. VarsOK
  BY <1>1 DEF Init, VarsOK
<1>3. ASSUME NEW w \in Workers PROVE RunOK(w) /\ CopyOK(w) /\ Hands(w) = {}
  BY DEF Init, RunOK, CopyOK, Busy, Trying, Hands
<1>4. ASSUME NEW a \in Alerts PROVE AlertOK(a)
  BY DEF Init, AlertOK
<1> QED
  BY <1>2, <1>3, <1>4 DEF AlertInv, Alone

LEMMA AlertAlways == ASSUME SizeAssumption PROVE Spec => []AlertInv
BY AlertInit, AlertStep, PTL DEF Spec

-----------------------------------------------------------------------------
(* A query takes at most a batch: all but the newest alert it takes are among the
   fewer than BatchSize that are older than that one. *)
LEMMA BatchSmall ==
    ASSUME SizeAssumption, NEW S \in SUBSET Alerts
    PROVE  IsFiniteSet(FirstBatch(S)) /\ Cardinality(FirstBatch(S)) <= BatchSize
<1> DEFINE F == FirstBatch(S)
<1>0. F \subseteq S /\ F \subseteq Alerts
  BY BatchIn
<1>1. IsFiniteSet(Alerts)
  BY SizeAssumption, FS_Interval DEF Alerts
<1>2. IsFiniteSet(F) /\ IsFiniteSet(S)
  BY <1>0, <1>1, FS_Subset
<1>3. CASE F = {}
  BY <1>2, <1>3, FS_EmptySet, SizeAssumption
<1>4. CASE F # {}
  <2>1. PICK m \in F : \A b \in F : b <= m
    BY <1>0, <1>4, NewestIn
  <2> DEFINE Older == {b \in S : b < m}
  <2>2. Cardinality(Older) < BatchSize
    BY <2>1 DEF FirstBatch
  <2>3. F \ {m} \subseteq Older
    <3>1. ASSUME NEW b \in F, b # m PROVE b < m
      BY <1>0, <2>1, <3>1 DEF Alerts
    <3> QED
      BY <1>0, <3>1
  <2>4. IsFiniteSet(Older)
    BY <1>2, FS_Subset
  <2>5. IsFiniteSet(F \ {m}) /\ Cardinality(F \ {m}) <= Cardinality(Older)
    BY <2>3, <2>4, FS_Subset
  <2>6. Cardinality(F \ {m}) = Cardinality(F) - 1
    BY <1>2, <2>1, FS_RemoveElement
  <2>7. /\ Cardinality(F) \in Nat /\ Cardinality(Older) \in Nat
        /\ Cardinality(F \ {m}) \in Nat /\ BatchSize \in Nat
    BY <1>2, <2>4, <2>5, FS_CardinalityType, SizeAssumption
  <2>8. Cardinality(F) <= BatchSize
    BY <2>2, <2>5, <2>6, <2>7
  <2> QED
    BY <1>2, <2>8
<1> QED
  BY <1>3, <1>4

(* After its query a run only takes alerts off its list. *)
LEMMA BatchStep ==
    ASSUME SizeAssumption, VarsOK, AtMostABatch, [Next]_vars
    PROVE  AtMostABatch'
<1> SUFFICES ASSUME NEW w \in Workers PROVE Cardinality(todo'[w]) <= BatchSize
  BY DEF AtMostABatch
<1>1. Cardinality(todo[w]) <= BatchSize /\ todo \in [Workers -> SUBSET Alerts]
  BY DEF AtMostABatch, VarsOK
<1>2. IsFiniteSet(Alerts)
  BY SizeAssumption, FS_Interval DEF Alerts
<1>3. \/ todo'[w] \subseteq todo[w]
      \/ todo'[w] = FirstBatch(Waiting)
  <2>1. CASE \E a \in Alerts : SendPollerAlert(a)
    BY <2>1 DEF SendPollerAlert
  <2>2. ASSUME NEW v \in Workers, RunStep(v) PROVE <1>3
    BY <1>1, <2>2 DEF RunStep, FindWaiting, Load, PostAccepted, PostRefused, SaveSent, SaveAttempt,
                      SaveInCatch, SaveFailed, RunEnds
  <2>3. ASSUME NEW v \in Workers, NEW arrived \in BOOLEAN, PostUnanswered(v, arrived)
        PROVE <1>3
    BY <2>3 DEF PostUnanswered
  <2>4. ASSUME NEW v \in Workers, RunDies(v) PROVE <1>3
    BY <1>1, <2>4 DEF RunDies
  <2>5. CASE UNCHANGED vars
    BY <2>5 DEF vars
  <2> QED
    BY <2>1, <2>2, <2>3, <2>4, <2>5 DEF Next
<1>4. CASE todo'[w] = FirstBatch(Waiting)
  <2>1. Waiting \in SUBSET Alerts
    BY DEF Waiting
  <2> QED
    BY <1>4, <2>1, BatchSmall
<1>5. CASE todo'[w] \subseteq todo[w]
  <2>1. IsFiniteSet(todo[w]) /\ IsFiniteSet(todo'[w])
    BY <1>1, <1>2, <1>5, FS_Subset
  <2>2. /\ Cardinality(todo'[w]) <= Cardinality(todo[w])
        /\ Cardinality(todo'[w]) \in Nat /\ Cardinality(todo[w]) \in Nat
    BY <1>5, <2>1, FS_Subset, FS_CardinalityType
  <2> QED
    BY <1>1, <2>2, SizeAssumption
<1> QED
  BY <1>3, <1>4, <1>5

(* The types, for every number of alerts, runs and attempts: no run writes more
   attempts than SLACK_MAX_ATTEMPTS, however the runs overlap. *)
THEOREM TypeCorrect == ASSUME SizeAssumption PROVE Spec => []TypeOK
<1>1. Init => AtMostABatch
  BY SizeAssumption, FS_EmptySet DEF Init, AtMostABatch
<1>2. AlertInv /\ AtMostABatch /\ [Next]_vars => AtMostABatch'
  BY BatchStep DEF AlertInv
<1>3. AlertInv => VarsOK
  BY DEF AlertInv
<1> QED
  BY <1>1, <1>2, <1>3, AlertAlways, PTL DEF Spec, TypeOK

(* An alert the database has as sent was accepted by Slack, although runs load,
   post and save without anything to keep them apart. *)
THEOREM SentIsReceived == ASSUME SizeAssumption PROVE Spec => []SentWasReceived
<1>1. AlertInv => SentWasReceived
  BY DEF AlertInv, AlertOK, SentWasReceived
<1> QED
  BY <1>1, AlertAlways, PTL

(* The budget of posts of an alert no two runs had in hand at once. *)
THEOREM BudgetKept == ASSUME SizeAssumption PROVE Spec => []RetryBudget
<1>1. AlertInv => RetryBudget
  <2> SUFFICES ASSUME AlertInv, NEW a \in Alerts \ shared
               PROVE  tries[a] <= MaxAttempts + faults
    BY DEF RetryBudget
  <2>1. /\ VarsOK /\ AlertOK(a) /\ tries[a] \in Nat /\ faults \in Nat
        /\ attempts[a] \in 0 .. MaxAttempts
    BY SizeAssumption DEF AlertInv, VarsOK
  <2>2. CASE Calm(a)
    BY <2>1, <2>2, SizeAssumption DEF AlertOK
  <2>3. CASE ~Calm(a)
    <3>1. PICK v \in Workers : Unsaved(v) /\ alert[v] = a
      BY <2>3 DEF Calm
    <3>2. attempt[v] \in 1 .. MaxAttempts /\ attempt[v] = attempts[a] + 1
      BY <3>1 DEF AlertInv, RunOK, CopyOK, Busy, Trying, Unsaved
    <3> QED
      BY <2>1, <3>2, SizeAssumption DEF AlertOK
  <2> QED
    BY <2>2, <2>3
<1> QED
  BY <1>1, AlertAlways, PTL

(* An alert no two runs had in hand at once is marked failed only when its
   attempts are used up: the query never finds it again. *)
THEOREM GivenUp == ASSUME SizeAssumption PROVE Spec => []GivenUpWhenExhausted
<1>1. AlertInv => GivenUpWhenExhausted
  BY DEF AlertInv, AlertOK, GivenUpWhenExhausted
<1> QED
  BY <1>1, AlertAlways, PTL
===============================================================================
