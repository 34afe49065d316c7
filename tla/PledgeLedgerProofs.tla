-------------------------- MODULE PledgeLedgerProofs --------------------------
(***************************************************************************)
(* Theorems about PledgeLedger, for any fundraisers, ids, spellings and    *)
(* slots, any cap and any bounds; the last one about OnchainLedger: the    *)
(* on-chain path implements IdempotentLedger as long as no request goes    *)
(* through pledge.ts.                                                      *)
(***************************************************************************)
EXTENDS OnchainLedger, FiniteSetTheorems, FunctionTheorems, TLAPS

(* A donor list that is pushed to is still a list of ids within the cap. *)
LEMMA PushType ==
    ASSUME NEW s \in DonorList, NEW e \in Ids
    PROVE  Push(s, e) \in DonorList
BY BoundAssumption DEF Push, DonorList

(* What a request can be working on. *)
LEMMA TargetType ==
    /\ NoTarget \in Targets
    /\ \A f \in Fundraisers : <<f>> \in Targets
    /\ \A f \in Fundraisers, e \in Ids : <<f, e>> \in Targets
BY DEF Targets, Keys

LEMMA Retarget ==
    ASSUME TypeOK, NEW r \in Requests, NEW t \in Targets
    PROVE  [target EXCEPT ![r] = t] \in [Requests -> Targets]
BY DEF TypeOK

(* Counting an id changes its own count only. *)
LEMMA AddType ==
    ASSUME NEW bag \in Bag, NEW e \in Ids
    PROVE  /\ Add(bag, e) \in Bag
           /\ Add(bag, e)[e] = bag[e] + 1
           /\ \A x \in Ids \ {e} : Add(bag, e)[x] = bag[x]
BY DEF Add, Bag

(* createPledgeAtomic keeps the types of what it writes. *)
LEMMA RecordOnceType ==
    ASSUME TypeOK, NEW f \in Fundraisers, NEW e \in Ids, RecordOnce(f, e)
    PROVE  /\ raised' \in [Fundraisers -> Bag]
           /\ taxCollected' \in [Fundraisers -> Bag]
           /\ recentDonors' \in [Fundraisers -> DonorList]
           /\ pledge' \in [Fundraisers -> [Ids -> {"none", "form", "chain", "foreign", "webhook"}]]
<1>1. CASE pledge[f][e] # "none"
  BY <1>1 DEF RecordOnce, TypeOK, book
<1>2. CASE RecordAs(f, e, "chain") /\ Credit(f, e)
  <2>1. /\ raised' = [raised EXCEPT ![f] = Add(@, e)]
        /\ taxCollected' = [taxCollected EXCEPT ![f] = Add(@, e)]
        /\ recentDonors' = [recentDonors EXCEPT ![f] = Push(@, e)]
        /\ pledge' = [pledge EXCEPT ![f][e] = "chain"]
    BY <1>2 DEF RecordAs, Credit
  <2>2. Add(raised[f], e) \in Bag /\ Add(taxCollected[f], e) \in Bag
    BY AddType DEF TypeOK
  <2>3. Push(recentDonors[f], e) \in DonorList
    BY PushType DEF TypeOK
  <2> QED
    BY <2>1, <2>2, <2>3 DEF TypeOK
<1>3. CASE RecordAs(f, e, "foreign") /\ UNCHANGED <<raised, taxCollected, recentDonors>>
  BY <1>3 DEF RecordAs, TypeOK
<1> QED
  BY <1>1, <1>2, <1>3 DEF RecordOnce

(* Every variable keeps its type. *)
LEMMA TypeInit == Init => TypeOK
BY BoundAssumption DEF Init, TypeOK, EmptyBag, Bag, Blank, Targets, Stages, DonorList

LEMMA BlankType == Blank \in [raised : Bag, version : Nat, recent : DonorList]
BY BoundAssumption DEF Blank, EmptyBag, Bag, DonorList

LEMMA TypeStep == TypeOK /\ [Next]_vars => TypeOK'
<1> SUFFICES ASSUME TypeOK, [Next]_vars PROVE TypeOK'
  OBVIOUS
<1> USE BlankType, TargetType, BoundAssumption
<1>1. ASSUME NEW f \in Fundraisers, CreateFundraiser(f) PROVE TypeOK'
  BY <1>1 DEF CreateFundraiser, TypeOK, book, run
<1>2. ASSUME NEW f \in Fundraisers, Administer(f) PROVE TypeOK'
  BY <1>2 DEF Administer, TypeOK, book, run
<1>3. ASSUME NEW f \in Fundraisers, NEW i \in Inviters, InviteLoad(i, f) PROVE TypeOK'
  <2>1. [Blank EXCEPT !.version = version[f]] \in [raised : Bag, version : Nat, recent : DonorList]
    BY DEF Blank, EmptyBag, Bag, DonorList, TypeOK
  <2>2. draft' \in [Requests -> [raised : Bag, version : Nat, recent : DonorList]]
    BY <1>3, <2>1 DEF InviteLoad, TypeOK
  <2>3. target' \in [Requests -> Targets]
    BY <1>3, Retarget DEF InviteLoad, Requests
  <2> QED
    BY <1>3, <2>2, <2>3 DEF InviteLoad, TypeOK, ledger, run, Goto, Stages
<1>4. ASSUME NEW f \in Fundraisers, NEW i \in Inviters, InviteSave(i, f) PROVE TypeOK'
  <2>1. version' = version \/ version' = [version EXCEPT ![f] = @ + 1]
    BY <1>4 DEF InviteSave
  <2>2. version' \in [Fundraisers -> Nat]
    <3>1. version \in [Fundraisers -> Nat] /\ version[f] + 1 \in Nat
      BY DEF TypeOK
    <3> QED
      BY <2>1, <3>1
  <2>3. Finish(i) /\ UNCHANGED <<status, active, unchecked, book, run, aborts>>
    BY <1>4 DEF InviteSave
  <2> QED
    BY <2>2, <2>3 DEF TypeOK, book, run, Goto, Finish, Stages, Requests
<1>5. ASSUME NEW f \in Fundraisers, NEW e \in Ids, WebhookUpsert(f, e) PROVE TypeOK'
  BY <1>5 DEF WebhookUpsert, TypeOK, run
<1>6. ASSUME NEW f \in Fundraisers, NEW e \in Ids, NEW d \in Donors, DonorStep(d, f, e)
      PROVE TypeOK'
  <2>1. CASE DonorStart(d, f, e)
    <3>1. <<f, e>> \in Targets
      BY TargetType
    <3> QED
      BY <2>1, <3>1 DEF DonorStart, TypeOK, ledger, run, Goto, Stages, Requests
  <2>2. CASE DonorInsert(d, f, e)
    <3>1. CASE pledge[f][e] = "none"
      <4>1. /\ pledge' = [pledge EXCEPT ![f][e] = "form"]
            /\ Goto(d, "load")
            /\ UNCHANGED <<status, active, version, unchecked, raised, taxCollected,
                           recentDonors, run, aborts, target, draft>>
        BY <2>2, <3>1 DEF DonorInsert
      <4>2. pledge' \in [Fundraisers -> [Ids -> {"none", "form", "chain", "foreign", "webhook"}]]
        BY <4>1 DEF TypeOK
      <4> QED
        BY <4>1, <4>2 DEF TypeOK, run, Goto, Stages, Requests
    <3>2. CASE pledge[f][e] # "none"
      <4>1. /\ Finish(d)
            /\ UNCHANGED <<status, active, version, unchecked, raised, taxCollected,
                           recentDonors, run, aborts, pledge>>
        BY <2>2, <3>2 DEF DonorInsert
      <4> QED
        BY <4>1 DEF TypeOK, run, Goto, Finish, Stages, Requests
    <3> QED
      BY <3>1, <3>2
  <2>3. CASE DonorLoad(d, f, e)
    BY <2>3 DEF DonorLoad, TypeOK, ledger, run, Goto, Stages, Requests
  <2>4. CASE DonorSave(d, f, e)
    <3>1. Add(draft[d].raised, e) \in Bag
      BY AddType DEF TypeOK, Requests
    <3>2. Push(draft[d].recent, e) \in DonorList
      BY PushType DEF TypeOK, Requests
    <3>3. raised' \in [Fundraisers -> Bag]
      BY <2>4, <3>1 DEF DonorSave, TypeOK
    <3>4. /\ version' \in [Fundraisers -> Nat] /\ unchecked' \subseteq Fundraisers
          /\ recentDonors' \in [Fundraisers -> DonorList]
      <4>1. version[f] + 1 \in Nat
        BY DEF TypeOK
      <4>2. CASE UNCHANGED <<recentDonors, version>> /\ unchecked' = unchecked \cup {f}
        BY <4>2 DEF TypeOK
      <4>3. CASE /\ recentDonors' = [recentDonors EXCEPT ![f] = Push(draft[d].recent, e)]
                 /\ version' = [version EXCEPT ![f] = @ + 1]
                 /\ UNCHANGED unchecked
        BY <3>2, <4>1, <4>3 DEF TypeOK
      <4> QED
        BY <2>4, <4>2, <4>3 DEF DonorSave
    <3> QED
      BY <2>4, <3>3, <3>4 DEF DonorSave, TypeOK, run, Goto, Finish, Stages, Requests
  <2>5. CASE DonorConflict(d, f, e)
    BY <2>5 DEF DonorConflict, TypeOK, ledger, run, Goto, Finish, Stages, Requests
  <2> QED
    BY <1>6, <2>1, <2>2, <2>3, <2>4, <2>5 DEF DonorStep
<1>7. ASSUME NEW f \in Fundraisers, NEW e \in Ids, NEW v \in Verifiers, VerifierStep(v, f, e)
      PROVE TypeOK'
  <2>1. CASE VerifyStart(v, f, e)
    <3>1. <<f, e>> \in Targets
      BY TargetType
    <3> QED
      BY <2>1, <3>1 DEF VerifyStart, TypeOK, ledger, run, Goto, Stages, Requests
  <2>2. CASE VerifyLookup(v, f, e)
    <3>1. CASE Finish(v)
      BY <2>2, <3>1 DEF VerifyLookup, TypeOK, ledger, run, Goto, Finish, Stages, Requests
    <3>2. CASE Goto(v, "record") /\ UNCHANGED <<target, draft>>
      BY <2>2, <3>2 DEF VerifyLookup, TypeOK, ledger, run, Goto, Stages, Requests
    <3> QED
      BY <2>2, <3>1, <3>2 DEF VerifyLookup
  <2>3. CASE VerifyRecord(v, f, e)
    <3>1. RecordOnce(f, e)
      BY <2>3 DEF VerifyRecord
    <3> QED
      BY <2>3, <3>1, RecordOnceType DEF VerifyRecord, TypeOK, run, Goto, Finish, Stages, Requests
  <2> QED
    BY <1>7, <2>1, <2>2, <2>3 DEF VerifierStep
<1>8. ASSUME NEW p \in Pollers, PollerStep(p) PROVE TypeOK'
  <2>1. CASE PollerStart(p)
    BY <2>1 DEF PollerStart, TypeOK, ledger, Goto, Stages, Requests
  <2>2. ASSUME NEW f \in Fundraisers, NEW shown \in SUBSET Pays, PollerFetch(p, f, shown)
        PROVE TypeOK'
    <3>1. shown \in SUBSET Keys
      BY TransferAssumption DEF Keys
    <3> QED
      BY <2>2, <3>1 DEF PollerFetch, TypeOK, ledger
  <2>3. ASSUME NEW f \in Fundraisers, NEW e \in Ids, NEW found \in BOOLEAN,
               PollerLookup(p, f, e, found)
        PROVE TypeOK'
    <3>1. <<f, Lower[e]>> \in Targets
      BY TargetType, LowerAssumption
    <3>2. target' \in [Requests -> Targets]
      BY <2>3, <3>1, Retarget DEF PollerLookup, TypeOK, Requests
    <3> QED
      BY <2>3, <3>2 DEF PollerLookup, TypeOK, ledger, Goto, Stages, Requests
  <2>4. ASSUME NEW f \in Fundraisers, NEW e \in Ids, PollerRecord(p, f, e) PROVE TypeOK'
    <3>1. RecordOnce(f, e)
      BY <2>4 DEF PollerRecord
    <3> QED
      BY <2>4, <3>1, RecordOnceType DEF PollerRecord, TypeOK, run, Goto, Stages, Requests
  <2>5. CASE PollerSkip(p)
    BY <2>5 DEF PollerSkip, TypeOK, ledger, run, Goto, Stages, Requests
  <2>6. CASE PollerFinish(p)
    BY <2>6 DEF PollerFinish, TypeOK, ledger, run, Goto, Stages, Requests
  <2> QED
    BY <1>8, <2>1, <2>2, <2>3, <2>4, <2>5, <2>6 DEF PollerStep
<1>9. ASSUME NEW r \in Requests, Abort(r) PROVE TypeOK'
  BY <1>9 DEF Abort, TypeOK, ledger, Goto, Finish, Stages
<1>10. CASE UNCHANGED vars
  BY <1>10 DEF vars, TypeOK
<1> QED
  BY <1>1, <1>2, <1>3, <1>4, <1>5, <1>6, <1>7, <1>8, <1>9, <1>10 DEF Next

(* Type correctness of the ledger, for every behaviour of the requests. *)
THEOREM TypeCorrect == Spec => []TypeOK
BY TypeInit, TypeStep, PTL DEF Spec

-----------------------------------------------------------------------------
(* No donation is counted twice. *)

(* What every step but three of pledge.ts does to the ledger: at most it inserts
   a pledge of another writer, counting it once or not at all, bumps versions,
   and takes requests of pledge.ts to where they hold no copy. *)
LEMMA Undisturbed ==
    ASSUME TypeOK, LedgerInv,
           \A f \in Fundraisers, e \in Ids :
              \/ pledge'[f][e] = pledge[f][e] /\ raised'[f][e] = raised[f][e]
              \/ /\ pledge[f][e] = "none" /\ pledge'[f][e] \in {"chain", "foreign", "webhook"}
                 /\ raised'[f][e] \in {0, 1},
           \A f \in Fundraisers : version'[f] \in Nat /\ version[f] <= version'[f],
           unchecked \subseteq unchecked',
           \A d \in Donors :
              \/ stage'[d] = stage[d] /\ target'[d] = target[d] /\ draft'[d] = draft[d]
              \/ stage'[d] \notin {"load", "save"}
    PROVE  LedgerInv'
<1>1. \A d \in Donors, f \in Fundraisers, e \in Ids :
         Booking(d, f, e)' => Booking(d, f, e) /\ draft'[d] = draft[d]
  BY DEF Booking
<1>2. RaisedNeverOverstated'
  <2> SUFFICES ASSUME NEW f \in Fundraisers, NEW e \in Ids
               PROVE  raised'[f][e] <= (IF pledge'[f][e] = "none" THEN 0 ELSE 1)
    BY DEF RaisedNeverOverstated
  <2>1. raised[f][e] <= (IF pledge[f][e] = "none" THEN 0 ELSE 1)
    BY DEF LedgerInv, RaisedNeverOverstated
  <2> QED
    BY <2>1
<1>3. PendingInv'
  <2> SUFFICES ASSUME NEW d \in Donors, NEW f \in Fundraisers, NEW e \in Ids, Booking(d, f, e)'
               PROVE  /\ pledge'[f][e] = "form" /\ raised'[f][e] = 0
                      /\ \A c \in Donors : Booking(c, f, e)' => c = d
    BY DEF PendingInv
  <2>1. pledge[f][e] = "form" /\ raised[f][e] = 0
    BY <1>1 DEF LedgerInv, PendingInv
  <2>2. \A c \in Donors : Booking(c, f, e) => c = d
    BY <1>1 DEF LedgerInv, PendingInv
  <2> QED
    BY <1>1, <2>1, <2>2
<1>4. DraftInv'
  <2> SUFFICES ASSUME NEW d \in Donors, NEW f \in Fundraisers, NEW e \in Ids,
                      stage'[d] = "save", target'[d] = <<f, e>>
               PROVE  /\ draft'[d].version <= version'[f]
                      /\ \A x \in Ids :
                            /\ draft'[d].raised[x] <= (IF pledge'[f][x] = "none" THEN 0 ELSE 1)
                            /\ (\E c \in Donors : Booking(c, f, x)') => draft'[d].raised[x] = 0
                            /\ /\ f \notin unchecked' /\ draft'[d].version = version'[f]
                               /\ pledge'[f][x] = "form"
                               => draft'[d].raised[x] = raised'[f][x]
    BY DEF DraftInv
  <2>1. stage[d] = "save" /\ target[d] = <<f, e>> /\ draft'[d] = draft[d]
    OBVIOUS
  <2>2. draft[d].version \in Nat /\ draft[d].raised \in Bag /\ version[f] \in Nat
    BY DEF TypeOK, Requests
  <2>3. draft[d].version <= version[f]
    BY <2>1 DEF LedgerInv, DraftInv
  <2>4. ASSUME NEW x \in Ids
        PROVE  /\ draft[d].raised[x] <= (IF pledge'[f][x] = "none" THEN 0 ELSE 1)
               /\ (\E c \in Donors : Booking(c, f, x)') => draft[d].raised[x] = 0
               /\ /\ f \notin unchecked' /\ draft[d].version = version'[f]
                  /\ pledge'[f][x] = "form"
                  => draft[d].raised[x] = raised'[f][x]
    <3>1. /\ draft[d].raised[x] <= (IF pledge[f][x] = "none" THEN 0 ELSE 1)
          /\ (\E c \in Donors : Booking(c, f, x)) => draft[d].raised[x] = 0
          /\ /\ f \notin unchecked /\ draft[d].version = version[f]
             /\ pledge[f][x] = "form"
             => draft[d].raised[x] = raised[f][x]
      BY <2>1 DEF LedgerInv, DraftInv
    <3>2. draft[d].raised[x] \in Nat
      BY <2>2 DEF Bag
    <3>3. draft[d].raised[x] <= (IF pledge'[f][x] = "none" THEN 0 ELSE 1)
      BY <3>1, <3>2
    <3>4. (\E c \in Donors : Booking(c, f, x)') => draft[d].raised[x] = 0
      BY <1>1, <3>1
    <3>5. draft[d].version = version'[f] => draft[d].version = version[f]
      BY <2>2, <2>3
    <3>6. pledge'[f][x] = "form" => pledge[f][x] = "form" /\ raised'[f][x] = raised[f][x]
      OBVIOUS
    <3> QED
      BY <3>1, <3>3, <3>4, <3>5, <3>6
  <2>5. draft[d].version <= version'[f]
    BY <2>2, <2>3
  <2> QED
    BY <2>1, <2>4, <2>5
<1> QED
  BY <1>2, <1>3, <1>4 DEF LedgerInv

(* createPledgeAtomic is such a step: an id without a pledge is not counted yet. *)
LEMMA RecordOnceCounts ==
    ASSUME TypeOK, RaisedNeverOverstated, NEW f \in Fundraisers, NEW e \in Ids, RecordOnce(f, e)
    PROVE  \A g \in Fundraisers, x \in Ids :
              \/ pledge'[g][x] = pledge[g][x] /\ raised'[g][x] = raised[g][x]
              \/ /\ pledge[g][x] = "none" /\ pledge'[g][x] \in {"chain", "foreign"}
                 /\ raised[g][x] = 0
                 /\ raised'[g][x] = (IF pledge'[g][x] = "chain" THEN 1 ELSE 0)
                 /\ pledge'[g][x] = "chain" => Named(Matching, g, x)
<1>1. CASE pledge[f][e] # "none"
  BY <1>1 DEF RecordOnce, book
<1>2. CASE pledge[f][e] = "none"
  <2>0. raised[f][e] = 0
    BY <1>2 DEF RaisedNeverOverstated, TypeOK, Bag
  <2>1. CASE /\ Named(Matching, f, e)
             /\ RecordAs(f, e, "chain") /\ Credit(f, e)
    <3>1. \A g \in Fundraisers, x \in Ids :
             pledge'[g][x] = IF g = f /\ x = e THEN "chain" ELSE pledge[g][x]
      BY <2>1 DEF RecordAs, TypeOK
    <3>2. raised' = [raised EXCEPT ![f] = Add(@, e)]
      BY <2>1 DEF Credit
    <3>3. raised'[f][e] = 1 /\ \A x \in Ids \ {e} : raised'[f][x] = raised[f][x]
      BY <2>0, <3>2, AddType DEF TypeOK
    <3>4. \A g \in Fundraisers \ {f} : raised'[g] = raised[g]
      BY <3>2 DEF TypeOK
    <3> QED
      BY <1>2, <2>0, <2>1, <3>1, <3>3, <3>4
  <2>2. CASE RecordAs(f, e, "foreign") /\ UNCHANGED <<raised, taxCollected, recentDonors>>
    <3>1. \A g \in Fundraisers, x \in Ids :
             pledge'[g][x] = IF g = f /\ x = e THEN "foreign" ELSE pledge[g][x]
      BY <2>2 DEF RecordAs, TypeOK
    <3> QED
      BY <1>2, <2>0, <2>2, <3>1
  <2> QED
    BY <1>2, <2>1, <2>2 DEF RecordOnce
<1> QED
  BY <1>1, <1>2

(* The three steps of pledge.ts that do more. *)
LEMMA InsertKeeps ==
    ASSUME TypeOK, LedgerInv, NEW d \in Donors, NEW f \in Fundraisers, NEW e \in Ids,
           stage[d] = "insert", target[d] = <<f, e>>, pledge[f][e] = "none",
           pledge' = [pledge EXCEPT ![f][e] = "form"],
           Goto(d, "load"),
           UNCHANGED <<version, unchecked, raised, target, draft>>
    PROVE  LedgerInv'
<1>1. \A g \in Fundraisers, x \in Ids :
         pledge'[g][x] = IF g = f /\ x = e THEN "form" ELSE pledge[g][x]
  BY DEF TypeOK
<1>2. stage'[d] = "load" /\ \A c \in Donors \ {d} : stage'[c] = stage[c]
  BY DEF Goto, TypeOK, Requests
<1>3. raised[f][e] = 0
  BY DEF LedgerInv, RaisedNeverOverstated, TypeOK, Bag
<1>4. \A c \in Donors : ~Booking(c, f, e)
  BY DEF LedgerInv, PendingInv
<1>5. \A c \in Donors, g \in Fundraisers, x \in Ids :
         Booking(c, g, x)' <=> Booking(c, g, x) \/ (c = d /\ g = f /\ x = e)
  BY <1>2 DEF Booking
<1>6. RaisedNeverOverstated'
  <2> SUFFICES ASSUME NEW g \in Fundraisers, NEW x \in Ids
               PROVE  raised'[g][x] <= (IF pledge'[g][x] = "none" THEN 0 ELSE 1)
    BY DEF RaisedNeverOverstated
  <2>1. raised'[g][x] <= (IF pledge[g][x] = "none" THEN 0 ELSE 1)
    BY DEF LedgerInv, RaisedNeverOverstated
  <2> QED
    BY <1>1, <1>3, <2>1
<1>7. PendingInv'
  <2> SUFFICES ASSUME NEW c \in Donors, NEW g \in Fundraisers, NEW x \in Ids, Booking(c, g, x)'
               PROVE  /\ pledge'[g][x] = "form" /\ raised'[g][x] = 0
                      /\ \A b \in Donors : Booking(b, g, x)' => b = c
    BY DEF PendingInv
  <2>1. CASE g = f /\ x = e
    BY <1>1, <1>3, <1>4, <1>5, <2>1
  <2>2. CASE ~(g = f /\ x = e)
    <3>1. /\ pledge[g][x] = "form" /\ raised[g][x] = 0
          /\ \A b \in Donors : Booking(b, g, x) => b = c
      BY <1>5, <2>2 DEF LedgerInv, PendingInv
    <3> QED
      BY <1>1, <1>5, <2>2, <3>1
  <2> QED
    BY <2>1, <2>2
<1>8. DraftInv'
  <2> SUFFICES ASSUME NEW c \in Donors, NEW g \in Fundraisers, NEW y \in Ids,
                      stage'[c] = "save", target'[c] = <<g, y>>, NEW x \in Ids
               PROVE  /\ draft'[c].version <= version'[g]
                      /\ draft'[c].raised[x] <= (IF pledge'[g][x] = "none" THEN 0 ELSE 1)
                      /\ (\E b \in Donors : Booking(b, g, x)') => draft'[c].raised[x] = 0
                      /\ /\ g \notin unchecked' /\ draft'[c].version = version'[g]
                         /\ pledge'[g][x] = "form"
                         => draft'[c].raised[x] = raised'[g][x]
    BY DEF DraftInv
  <2>1. stage[c] = "save" /\ target[c] = <<g, y>>
    BY <1>2
  <2>2. /\ draft[c].version <= version[g]
        /\ draft[c].raised[x] <= (IF pledge[g][x] = "none" THEN 0 ELSE 1)
        /\ (\E b \in Donors : Booking(b, g, x)) => draft[c].raised[x] = 0
        /\ /\ g \notin unchecked /\ draft[c].version = version[g]
           /\ pledge[g][x] = "form"
           => draft[c].raised[x] = raised[g][x]
    BY <2>1 DEF LedgerInv, DraftInv
  <2>3. draft[c].raised[x] \in Nat
    BY DEF TypeOK, Requests, Bag
  <2>4. CASE g = f /\ x = e
    BY <1>1, <1>3, <2>2, <2>3, <2>4
  <2>5. CASE ~(g = f /\ x = e)
    BY <1>1, <1>5, <2>2, <2>5
  <2> QED
    BY <2>4, <2>5
<1> QED
  BY <1>6, <1>7, <1>8 DEF LedgerInv

LEMMA LoadKeeps ==
    ASSUME TypeOK, LedgerInv, NEW d \in Donors, NEW f \in Fundraisers, NEW e \in Ids,
           DonorLoad(d, f, e)
    PROVE  LedgerInv'
<1>1. UNCHANGED <<version, unchecked, raised, pledge, target>>
  BY DEF DonorLoad, ledger
<1>2. /\ stage[d] = "load" /\ stage'[d] = "save" /\ target[d] = <<f, e>>
      /\ \A c \in Donors \ {d} : stage'[c] = stage[c] /\ draft'[c] = draft[c]
  BY DEF DonorLoad, Goto, TypeOK, Requests
<1>3. draft'[d].raised = raised[f] /\ draft'[d].version = version[f]
  BY DEF DonorLoad, TypeOK, Requests
<1>4. \A c \in Donors, g \in Fundraisers, x \in Ids : Booking(c, g, x)' <=> Booking(c, g, x)
  BY <1>1, <1>2 DEF Booking
<1>5. RaisedNeverOverstated'
  BY <1>1 DEF LedgerInv, RaisedNeverOverstated
<1>6. PendingInv'
  BY <1>1, <1>4 DEF LedgerInv, PendingInv
<1>7. DraftInv'
  <2> SUFFICES ASSUME NEW c \in Donors, NEW g \in Fundraisers, NEW y \in Ids,
                      stage'[c] = "save", target'[c] = <<g, y>>, NEW x \in Ids
               PROVE  /\ draft'[c].version <= version'[g]
                      /\ draft'[c].raised[x] <= (IF pledge'[g][x] = "none" THEN 0 ELSE 1)
                      /\ (\E b \in Donors : Booking(b, g, x)') => draft'[c].raised[x] = 0
                      /\ /\ g \notin unchecked' /\ draft'[c].version = version'[g]
                         /\ pledge'[g][x] = "form"
                         => draft'[c].raised[x] = raised'[g][x]
    BY DEF DraftInv
  <2>1. CASE c = d
    <3>1. g = f
      BY <1>1, <1>2, <2>1
    <3>2. raised[f][x] <= (IF pledge[f][x] = "none" THEN 0 ELSE 1)
      BY DEF LedgerInv, RaisedNeverOverstated
    <3>3. (\E b \in Donors : Booking(b, f, x)) => raised[f][x] = 0
      BY DEF LedgerInv, PendingInv
    <3>4. version[f] \in Nat
      BY DEF TypeOK
    <3> QED
      BY <1>1, <1>3, <1>4, <2>1, <3>1, <3>2, <3>3, <3>4
  <2>2. CASE c # d
    <3>1. stage[c] = "save" /\ target[c] = <<g, y>>
      BY <1>1, <1>2, <2>2
    <3>2. /\ draft[c].version <= version[g]
          /\ draft[c].raised[x] <= (IF pledge[g][x] = "none" THEN 0 ELSE 1)
          /\ (\E b \in Donors : Booking(b, g, x)) => draft[c].raised[x] = 0
          /\ /\ g \notin unchecked /\ draft[c].version = version[g]
             /\ pledge[g][x] = "form"
             => draft[c].raised[x] = raised[g][x]
      BY <3>1 DEF LedgerInv, DraftInv
    <3> QED
      BY <1>1, <1>2, <1>4, <2>2, <3>2
  <2> QED
    BY <2>1, <2>2
<1> QED
  BY <1>5, <1>6, <1>7 DEF LedgerInv

(* What the save of pledge.ts writes, checked or not. *)
LEMMA SaveEffect ==
    ASSUME TypeOK, LedgerInv, NEW d \in Donors, NEW f \in Fundraisers, NEW e \in Ids,
           DonorSave(d, f, e)
    PROVE  /\ pledge' = pledge /\ pledge[f][e] = "form" /\ raised[f][e] = 0
           /\ unchecked \subseteq unchecked'
           /\ \/ version'[f] = version[f] + 1 /\ draft[d].version = version[f]
              \/ version'[f] = version[f] /\ f \in unchecked'
           /\ \A g \in Fundraisers \ {f} : raised'[g] = raised[g] /\ version'[g] = version[g]
           /\ raised'[f][e] = 1
           /\ \A x \in Ids \ {e} : raised'[f][x] = draft[d].raised[x]
<1>1. Booking(d, f, e) /\ stage[d] = "save" /\ target[d] = <<f, e>>
  BY DEF DonorSave, Booking
<1>2. draft[d].raised \in Bag
  BY DEF TypeOK, Requests
<1>3. draft[d].raised[e] = 0
  BY <1>1 DEF LedgerInv, DraftInv
<1>4. raised' = [raised EXCEPT ![f] = Add(draft[d].raised, e)]
  BY DEF DonorSave
<1>5. raised'[f] = Add(draft[d].raised, e) /\ \A g \in Fundraisers \ {f} : raised'[g] = raised[g]
  BY <1>4 DEF TypeOK
<1>6. raised'[f][e] = 1 /\ \A x \in Ids \ {e} : raised'[f][x] = draft[d].raised[x]
  BY <1>2, <1>3, <1>5, AddType
<1>7. /\ unchecked \subseteq unchecked'
      /\ \/ version'[f] = version[f] + 1 /\ draft[d].version = version[f]
         \/ version'[f] = version[f] /\ f \in unchecked'
      /\ \A g \in Fundraisers \ {f} : version'[g] = version[g]
  BY DEF DonorSave, Unmodified, TypeOK
<1>8. pledge[f][e] = "form" /\ raised[f][e] = 0
  BY <1>1 DEF LedgerInv, PendingInv
<1> QED
  BY <1>5, <1>6, <1>7, <1>8 DEF DonorSave

LEMMA SaveKeeps ==
    ASSUME TypeOK, LedgerInv, NEW d \in Donors, NEW f \in Fundraisers, NEW e \in Ids,
           DonorSave(d, f, e)
    PROVE  LedgerInv'
<1> DEFINE Has(g, x) == IF pledge[g][x] = "none" THEN 0 ELSE 1
<1>1. pledge' = pledge
  BY SaveEffect
<1>2. /\ stage'[d] = "idle" /\ Booking(d, f, e)
      /\ \A c \in Donors \ {d} :
            stage'[c] = stage[c] /\ target'[c] = target[c] /\ draft'[c] = draft[c]
  BY DEF DonorSave, Finish, Goto, Booking, TypeOK, Requests
<1>3. stage[d] = "save" /\ target[d] = <<f, e>>
  BY DEF DonorSave
<1>4. \A c \in Donors, g \in Fundraisers, x \in Ids :
         Booking(c, g, x)' => c # d /\ Booking(c, g, x) /\ ~(g = f /\ x = e)
  BY <1>2 DEF Booking, LedgerInv, PendingInv
<1>5. RaisedNeverOverstated'
  <2> SUFFICES ASSUME NEW g \in Fundraisers, NEW x \in Ids PROVE raised'[g][x] <= Has(g, x)
    BY <1>1 DEF RaisedNeverOverstated
  <2>1. raised[g][x] <= Has(g, x)
    BY DEF LedgerInv, RaisedNeverOverstated
  <2>2. draft[d].raised[x] <= (IF pledge[f][x] = "none" THEN 0 ELSE 1)
    BY <1>3 DEF LedgerInv, DraftInv
  <2>3. CASE g # f
    BY <2>1, <2>3, SaveEffect
  <2>4. CASE g = f /\ x = e
    BY <2>4, SaveEffect
  <2>5. CASE g = f /\ x # e
    BY <2>2, <2>5, SaveEffect
  <2> QED
    BY <2>3, <2>4, <2>5
<1>6. PendingInv'
  <2> SUFFICES ASSUME NEW c \in Donors, NEW g \in Fundraisers, NEW x \in Ids, Booking(c, g, x)'
               PROVE  /\ pledge'[g][x] = "form" /\ raised'[g][x] = 0
                      /\ \A b \in Donors : Booking(b, g, x)' => b = c
    BY DEF PendingInv
  <2>1. /\ pledge[g][x] = "form" /\ raised[g][x] = 0
        /\ \A b \in Donors : Booking(b, g, x) => b = c
    BY <1>4 DEF LedgerInv, PendingInv
  <2>2. raised'[g][x] = 0
    <3>1. CASE g # f
      BY <2>1, <3>1, SaveEffect
    <3>2. CASE g = f
      <4>1. x # e /\ Booking(c, f, x)
        BY <1>4, <3>2
      <4>2. draft[d].raised[x] = 0
        BY <1>3, <4>1 DEF LedgerInv, DraftInv
      <4> QED
        BY <3>2, <4>1, <4>2, SaveEffect
    <3> QED
      BY <3>1, <3>2
  <2> QED
    BY <1>1, <1>4, <2>1, <2>2
<1>7. DraftInv'
  <2> SUFFICES ASSUME NEW c \in Donors, NEW g \in Fundraisers, NEW y \in Ids,
                      stage'[c] = "save", target'[c] = <<g, y>>, NEW x \in Ids
               PROVE  /\ draft'[c].version <= version'[g]
                      /\ draft'[c].raised[x] <= (IF pledge'[g][x] = "none" THEN 0 ELSE 1)
                      /\ (\E b \in Donors : Booking(b, g, x)') => draft'[c].raised[x] = 0
                      /\ /\ g \notin unchecked' /\ draft'[c].version = version'[g]
                         /\ pledge'[g][x] = "form"
                         => draft'[c].raised[x] = raised'[g][x]
    BY DEF DraftInv
  <2>1. c # d
    BY <1>2
  <2>2. stage[c] = "save" /\ target[c] = <<g, y>> /\ draft'[c] = draft[c]
    BY <1>2, <2>1
  <2>3. /\ draft[c].version <= version[g]
        /\ draft[c].raised[x] <= (IF pledge[g][x] = "none" THEN 0 ELSE 1)
        /\ (\E b \in Donors : Booking(b, g, x)) => draft[c].raised[x] = 0
        /\ /\ g \notin unchecked /\ draft[c].version = version[g]
           /\ pledge[g][x] = "form"
           => draft[c].raised[x] = raised[g][x]
    BY <2>2 DEF LedgerInv, DraftInv
  <2>4. draft[c].version \in Nat /\ version[g] \in Nat
    BY DEF TypeOK, Requests
  <2>5. /\ draft'[c].version <= version'[g]
        /\ draft'[c].version = version'[g] /\ g = f => f \in unchecked'
        /\ g \notin unchecked' => g \notin unchecked
    BY <2>2, <2>3, <2>4, SaveEffect
  <2>6. g # f => raised'[g] = raised[g] /\ version'[g] = version[g]
    BY SaveEffect
  <2> QED
    BY <1>1, <1>4, <2>2, <2>3, <2>5, <2>6
<1> QED
  BY <1>5, <1>6, <1>7 DEF LedgerInv

LEMMA LedgerInit == Init => LedgerInv
BY DEF Init, LedgerInv, RaisedNeverOverstated, PendingInv, DraftInv, Booking, EmptyBag, Requests

(* A request that returns leaves the others where they are. *)
LEMMA FinishOnly ==
    ASSUME TypeOK, NEW r \in Requests, Finish(r)
    PROVE  \A d \in Donors :
              \/ stage'[d] = stage[d] /\ target'[d] = target[d] /\ draft'[d] = draft[d]
              \/ stage'[d] \notin {"load", "save"}
BY DEF Finish, Goto, TypeOK, Requests

(* So does one that moves on, if it is not a request of pledge.ts ... *)
LEMMA NoDonorMoves ==
    ASSUME TypeOK, NEW r \in Verifiers \cup Pollers \cup Inviters,
           \/ UNCHANGED stage \/ \E s \in Stages : Goto(r, s),
           \/ UNCHANGED target \/ \E t : target' = [target EXCEPT ![r] = t],
           \/ UNCHANGED draft \/ \E t : draft' = [draft EXCEPT ![r] = t]
    PROVE  \A d \in Donors :
              stage'[d] = stage[d] /\ target'[d] = target[d] /\ draft'[d] = draft[d]
<1> SUFFICES ASSUME NEW d \in Donors
             PROVE  stage'[d] = stage[d] /\ target'[d] = target[d] /\ draft'[d] = draft[d]
  OBVIOUS
<1>1. d # r /\ d \in Requests
  BY SlotAssumption DEF Requests
<1> QED
  BY <1>1 DEF Goto, TypeOK

LEMMA LedgerStep == TypeOK /\ LedgerInv /\ [Next]_vars => LedgerInv'
<1> SUFFICES ASSUME TypeOK, LedgerInv, [Next]_vars PROVE LedgerInv'
  OBVIOUS
<1>0. /\ \A f \in Fundraisers : version[f] \in Nat
      /\ Donors \subseteq Requests /\ Verifiers \subseteq Requests
      /\ Pollers \subseteq Requests /\ Inviters \subseteq Requests
      /\ RaisedNeverOverstated
  BY DEF TypeOK, Requests, LedgerInv
<1>1. ASSUME NEW f \in Fundraisers, CreateFundraiser(f) \/ Administer(f) PROVE LedgerInv'
  BY <1>0, <1>1, Undisturbed DEF CreateFundraiser, Administer, book
<1>2. ASSUME NEW f \in Fundraisers, NEW i \in Inviters, InviteLoad(i, f) PROVE LedgerInv'
  <2>1. UNCHANGED <<pledge, raised, version, unchecked>>
    BY <1>2 DEF InviteLoad, ledger
  <2>2. "save" \in Stages
    BY DEF Stages
  <2>3. \A d \in Donors :
           stage'[d] = stage[d] /\ target'[d] = target[d] /\ draft'[d] = draft[d]
    BY <1>2, <2>2, NoDonorMoves DEF InviteLoad
  <2> QED
    BY <1>0, <2>1, <2>3, Undisturbed
<1>3. ASSUME NEW f \in Fundraisers, NEW i \in Inviters, InviteSave(i, f) PROVE LedgerInv'
  <2>1. UNCHANGED <<pledge, raised, unchecked>> /\ Finish(i)
    BY <1>3 DEF InviteSave, book
  <2>2. \A g \in Fundraisers : version'[g] \in Nat /\ version[g] <= version'[g]
    <3>1. version' = version \/ version' = [version EXCEPT ![f] = @ + 1]
      BY <1>3 DEF InviteSave
    <3>2. \A g \in Fundraisers : version'[g] \in {version[g], version[g] + 1}
      BY <3>1 DEF TypeOK
    <3> QED
      BY <1>0, <3>2
  <2> QED
    BY <1>0, <2>1, <2>2, FinishOnly, Undisturbed
<1>4. ASSUME NEW f \in Fundraisers, NEW e \in Ids, WebhookUpsert(f, e) PROVE LedgerInv'
  <2>1. \A g \in Fundraisers, x \in Ids :
           \/ pledge'[g][x] = pledge[g][x] /\ raised'[g][x] = raised[g][x]
           \/ /\ pledge[g][x] = "none" /\ pledge'[g][x] = "webhook"
              /\ raised'[g][x] = raised[g][x] /\ raised[g][x] = 0
    BY <1>0, <1>4 DEF WebhookUpsert, TypeOK, Bag, RaisedNeverOverstated
  <2>2. UNCHANGED <<version, unchecked, stage, target, draft>>
    BY <1>4 DEF WebhookUpsert
  <2> QED
    BY <1>0, <2>1, <2>2, Undisturbed
<1>5. ASSUME NEW f \in Fundraisers, NEW e \in Ids, NEW d \in Donors, DonorStep(d, f, e)
      PROVE LedgerInv'
  <2>1. CASE DonorStart(d, f, e)
    <3>1. UNCHANGED <<pledge, raised, version, unchecked, draft>>
      BY <2>1 DEF DonorStart, ledger
    <3>2. \A c \in Donors :
             \/ stage'[c] = stage[c] /\ target'[c] = target[c]
             \/ stage'[c] \notin {"load", "save"}
      BY <2>1 DEF DonorStart, Goto, TypeOK, Requests
    <3> QED
      BY <1>0, <3>1, <3>2, Undisturbed
  <2>2. CASE DonorInsert(d, f, e)
    <3>1. CASE pledge[f][e] = "none"
      BY <2>2, <3>1, InsertKeeps DEF DonorInsert
    <3>2. CASE pledge[f][e] # "none"
      <4>1. UNCHANGED <<pledge, raised, version, unchecked>> /\ Finish(d)
        BY <2>2, <3>2 DEF DonorInsert
      <4> QED
        BY <1>0, <4>1, FinishOnly, Undisturbed
    <3> QED
      BY <3>1, <3>2
  <2>3. CASE DonorLoad(d, f, e)
    BY <2>3, LoadKeeps
  <2>4. CASE DonorSave(d, f, e)
    BY <2>4, SaveKeeps
  <2>5. CASE DonorConflict(d, f, e)
    <3>1. UNCHANGED <<pledge, raised, version, unchecked>> /\ Finish(d)
      BY <2>5 DEF DonorConflict, ledger
    <3> QED
      BY <1>0, <3>1, FinishOnly, Undisturbed
  <2> QED
    BY <1>5, <2>1, <2>2, <2>3, <2>4, <2>5 DEF DonorStep
<1>6. ASSUME NEW f \in Fundraisers, NEW e \in Ids, NEW v \in Verifiers, VerifierStep(v, f, e)
      PROVE LedgerInv'
  <2>1. CASE VerifyStart(v, f, e)
    <3>1. UNCHANGED <<pledge, raised, version, unchecked, draft>> /\ Goto(v, "lookup")
      BY <2>1 DEF VerifyStart, ledger
    <3>2. target' = [target EXCEPT ![v] = <<f, e>>] /\ "lookup" \in Stages
      BY <2>1 DEF VerifyStart, Stages
    <3>3. \A d \in Donors :
             stage'[d] = stage[d] /\ target'[d] = target[d] /\ draft'[d] = draft[d]
      BY <3>1, <3>2, NoDonorMoves
    <3> QED
      BY <1>0, <3>1, <3>3, Undisturbed
  <2>2. CASE VerifyLookup(v, f, e)
    <3>1. UNCHANGED <<pledge, raised, version, unchecked>>
      BY <2>2 DEF VerifyLookup, ledger
    <3>2. Finish(v) \/ (Goto(v, "record") /\ UNCHANGED <<target, draft>>)
      BY <2>2 DEF VerifyLookup
    <3>3. "record" \in Stages
      BY DEF Stages
    <3> QED
      BY <1>0, <3>1, <3>2, <3>3, FinishOnly, NoDonorMoves, Undisturbed
  <2>3. CASE VerifyRecord(v, f, e)
    <3>1. RecordOnce(f, e) /\ Finish(v) /\ UNCHANGED <<version, unchecked>>
      BY <2>3 DEF VerifyRecord
    <3>2. \A d \in Donors :
             \/ stage'[d] = stage[d] /\ target'[d] = target[d] /\ draft'[d] = draft[d]
             \/ stage'[d] \notin {"load", "save"}
      BY <1>0, <3>1, FinishOnly
    <3>3. \A g \in Fundraisers, x \in Ids :
             \/ pledge'[g][x] = pledge[g][x] /\ raised'[g][x] = raised[g][x]
             \/ /\ pledge[g][x] = "none" /\ pledge'[g][x] \in {"chain", "foreign", "webhook"}
                /\ raised'[g][x] \in {0, 1}
      BY <1>0, <3>1, RecordOnceCounts
    <3> QED
      BY <1>0, <3>1, <3>2, <3>3, Undisturbed
  <2> QED
    BY <1>6, <2>1, <2>2, <2>3 DEF VerifierStep
<1>7. ASSUME NEW p \in Pollers, PollerStep(p) PROVE LedgerInv'
  <2>0. "scan" \in Stages /\ "record" \in Stages /\ "idle" \in Stages
    BY DEF Stages
  <2>1. CASE PollerStart(p)
    BY <1>0, <2>0, <2>1, NoDonorMoves, Undisturbed DEF PollerStart, ledger
  <2>2. ASSUME NEW f \in Fundraisers, NEW shown \in SUBSET Pays, PollerFetch(p, f, shown)
        PROVE  LedgerInv'
    BY <1>0, <2>2, Undisturbed DEF PollerFetch, ledger
  <2>3. ASSUME NEW f \in Fundraisers, NEW e \in Ids, NEW found \in BOOLEAN,
               PollerLookup(p, f, e, found)
        PROVE  LedgerInv'
    <3>1. UNCHANGED <<pledge, raised, version, unchecked, draft>>
      BY <2>3 DEF PollerLookup, ledger
    <3>2. \/ UNCHANGED <<stage, target>>
          \/ Goto(p, "record") /\ target' = [target EXCEPT ![p] = <<f, Lower[e]>>]
      BY <2>3 DEF PollerLookup
    <3>3. \A d \in Donors :
             stage'[d] = stage[d] /\ target'[d] = target[d] /\ draft'[d] = draft[d]
      BY <2>0, <3>1, <3>2, NoDonorMoves
    <3> QED
      BY <1>0, <3>1, <3>3, Undisturbed
  <2>4. ASSUME NEW f \in Fundraisers, NEW e \in Ids, PollerRecord(p, f, e) PROVE LedgerInv'
    <3>1. RecordOnce(f, e) /\ UNCHANGED <<version, unchecked, draft>>
      BY <2>4 DEF PollerRecord
    <3>2. Goto(p, "scan") /\ target' = [target EXCEPT ![p] = NoTarget]
      BY <2>4 DEF PollerRecord
    <3>3. \A d \in Donors :
             stage'[d] = stage[d] /\ target'[d] = target[d] /\ draft'[d] = draft[d]
      BY <2>0, <3>1, <3>2, NoDonorMoves
    <3>4. \A g \in Fundraisers, x \in Ids :
             \/ pledge'[g][x] = pledge[g][x] /\ raised'[g][x] = raised[g][x]
             \/ /\ pledge[g][x] = "none" /\ pledge'[g][x] \in {"chain", "foreign", "webhook"}
                /\ raised'[g][x] \in {0, 1}
      BY <1>0, <3>1, RecordOnceCounts
    <3> QED
      BY <1>0, <3>1, <3>3, <3>4, Undisturbed
  <2>5. CASE PollerSkip(p)
    <3>1. UNCHANGED <<pledge, raised, version, unchecked, draft>>
      BY <2>5 DEF PollerSkip, ledger
    <3>2. Goto(p, "scan") /\ target' = [target EXCEPT ![p] = NoTarget]
      BY <2>5 DEF PollerSkip
    <3>3. \A d \in Donors :
             stage'[d] = stage[d] /\ target'[d] = target[d] /\ draft'[d] = draft[d]
      BY <2>0, <3>1, <3>2, NoDonorMoves
    <3> QED
      BY <1>0, <3>1, <3>3, Undisturbed
  <2>6. CASE PollerFinish(p)
    BY <1>0, <2>0, <2>6, NoDonorMoves, Undisturbed DEF PollerFinish, ledger
  <2> QED
    BY <1>7, <2>1, <2>2, <2>3, <2>4, <2>5, <2>6 DEF PollerStep
<1>8. ASSUME NEW r \in Requests, Abort(r) PROVE LedgerInv'
  <2>1. UNCHANGED <<pledge, raised, version, unchecked>> /\ Finish(r)
    BY <1>8 DEF Abort, ledger
  <2> QED
    BY <1>0, <2>1, FinishOnly, Undisturbed
<1>9. CASE UNCHANGED vars
  BY <1>0, <1>9, Undisturbed DEF vars
<1> QED
  BY <1>1, <1>2, <1>3, <1>4, <1>5, <1>6, <1>7, <1>8, <1>9 DEF Next

(* The inductive invariant holds of every reachable state. *)
THEOREM LedgerCorrect == Spec => []LedgerInv
BY TypeInit, TypeStep, LedgerInit, LedgerStep, PTL DEF Spec

(* No external id is counted twice in a raised total, and none without a pledge,
   for any number of concurrent and dying requests. *)
THEOREM NeverOverstated == Spec => []RaisedNeverOverstated
<1>1. LedgerInv => RaisedNeverOverstated
  BY DEF LedgerInv
<1> QED
  BY <1>1, LedgerCorrect, PTL

-----------------------------------------------------------------------------
(* What the totals mean. *)

(* Only createPledgeAtomic and the save of pledge.ts change a total, and a pledge
   keeps its writer. *)
LEMMA StepShape ==
    ASSUME TypeOK, [Next]_vars
    PROVE  \/ \E f \in Fundraisers, e \in Ids : RecordOnce(f, e)
           \/ \E d \in Donors, f \in Fundraisers, e \in Ids : DonorSave(d, f, e)
           \/ /\ UNCHANGED <<raised, taxCollected>>
              /\ \A f \in Fundraisers, e \in Ids :
                    \/ pledge'[f][e] = pledge[f][e]
                    \/ pledge[f][e] = "none" /\ pledge'[f][e] \in {"form", "webhook"}
<1> DEFINE Quiet ==
       /\ UNCHANGED <<raised, taxCollected>>
       /\ \A f \in Fundraisers, e \in Ids :
             \/ pledge'[f][e] = pledge[f][e]
             \/ pledge[f][e] = "none" /\ pledge'[f][e] \in {"form", "webhook"}
<1>1. ASSUME NEW f \in Fundraisers,
             \/ CreateFundraiser(f) \/ Administer(f)
             \/ \E i \in Inviters : InviteLoad(i, f) \/ InviteSave(i, f)
      PROVE  Quiet
  BY <1>1 DEF CreateFundraiser, Administer, InviteLoad, InviteSave, ledger, book
<1>2. ASSUME NEW f \in Fundraisers, NEW e \in Ids, WebhookUpsert(f, e) PROVE Quiet
  BY <1>2 DEF WebhookUpsert, TypeOK
<1>3. ASSUME NEW f \in Fundraisers, NEW e \in Ids, NEW d \in Donors, DonorStep(d, f, e)
      PROVE  DonorSave(d, f, e) \/ Quiet
  <2>1. CASE DonorInsert(d, f, e)
    <3>1. /\ UNCHANGED <<raised, taxCollected>>
          /\ \/ pledge' = pledge
             \/ pledge[f][e] = "none" /\ pledge' = [pledge EXCEPT ![f][e] = "form"]
      BY <2>1 DEF DonorInsert
    <3> QED
      BY <3>1 DEF TypeOK
  <2>2. CASE DonorStart(d, f, e) \/ DonorLoad(d, f, e) \/ DonorConflict(d, f, e)
    BY <2>2 DEF DonorStart, DonorLoad, DonorConflict, ledger
  <2> QED
    BY <1>3, <2>1, <2>2 DEF DonorStep
<1>4. ASSUME NEW f \in Fundraisers, NEW e \in Ids, NEW v \in Verifiers, VerifierStep(v, f, e)
      PROVE  RecordOnce(f, e) \/ Quiet
  BY <1>4 DEF VerifierStep, VerifyStart, VerifyLookup, VerifyRecord, ledger
<1>5. ASSUME NEW p \in Pollers, PollerStep(p)
      PROVE  Quiet \/ \E f \in Fundraisers, e \in Ids : RecordOnce(f, e)
  BY <1>5 DEF PollerStep, PollerStart, PollerFetch, PollerLookup, PollerRecord, PollerSkip,
              PollerFinish, ledger
<1>6. ASSUME NEW r \in Requests, Abort(r) PROVE Quiet
  BY <1>6 DEF Abort, ledger
<1>7. CASE UNCHANGED vars
  BY <1>7 DEF vars
<1> QED
  BY <1>1, <1>2, <1>3, <1>4, <1>5, <1>6, <1>7 DEF Next

(* What createPledgeAtomic does to the tax. *)
LEMMA RecordOnceTaxes ==
    ASSUME TypeOK, NEW f \in Fundraisers, NEW e \in Ids, RecordOnce(f, e)
    PROVE  \A g \in Fundraisers, x \in Ids :
              \/ pledge'[g][x] = pledge[g][x] /\ taxCollected'[g][x] = taxCollected[g][x]
              \/ /\ pledge[g][x] = "none" /\ pledge'[g][x] = "chain"
                 /\ taxCollected'[g][x] = taxCollected[g][x] + 1
              \/ /\ pledge[g][x] = "none" /\ pledge'[g][x] = "foreign"
                 /\ taxCollected'[g][x] = taxCollected[g][x]
<1>1. CASE pledge[f][e] # "none"
  BY <1>1 DEF RecordOnce, book
<1>2. CASE pledge[f][e] = "none"
  <2>1. CASE RecordAs(f, e, "chain") /\ Credit(f, e)
    <3>1. \A g \in Fundraisers, x \in Ids :
             pledge'[g][x] = IF g = f /\ x = e THEN "chain" ELSE pledge[g][x]
      BY <2>1 DEF RecordAs, TypeOK
    <3>2. taxCollected' = [taxCollected EXCEPT ![f] = Add(@, e)]
      BY <2>1 DEF Credit
    <3>3. /\ taxCollected'[f][e] = taxCollected[f][e] + 1
          /\ \A x \in Ids \ {e} : taxCollected'[f][x] = taxCollected[f][x]
      BY <3>2, AddType DEF TypeOK
    <3>4. \A g \in Fundraisers \ {f} : taxCollected'[g] = taxCollected[g]
      BY <3>2 DEF TypeOK
    <3> QED
      BY <1>2, <3>1, <3>3, <3>4
  <2>2. CASE RecordAs(f, e, "foreign") /\ UNCHANGED <<raised, taxCollected, recentDonors>>
    <3>1. \A g \in Fundraisers, x \in Ids :
             pledge'[g][x] = IF g = f /\ x = e THEN "foreign" ELSE pledge[g][x]
      BY <2>2 DEF RecordAs, TypeOK
    <3> QED
      BY <1>2, <2>2, <3>1
  <2> QED
    BY <1>2, <2>1, <2>2 DEF RecordOnce
<1> QED
  BY <1>1, <1>2

LEMMA TaxInit == Init => TaxExact
BY DEF Init, TaxExact, EmptyBag

LEMMA TaxStep == TypeOK /\ TaxExact /\ [Next]_vars => TaxExact'
<1> SUFFICES ASSUME TypeOK, TaxExact, [Next]_vars, NEW f \in Fundraisers, NEW e \in Ids
             PROVE  taxCollected'[f][e] = (IF pledge'[f][e] = "chain" THEN 1 ELSE 0)
  BY DEF TaxExact
<1>1. taxCollected[f][e] = (IF pledge[f][e] = "chain" THEN 1 ELSE 0)
  BY DEF TaxExact
<1>2. ASSUME NEW g \in Fundraisers, NEW x \in Ids, RecordOnce(g, x)
      PROVE  taxCollected'[f][e] = (IF pledge'[f][e] = "chain" THEN 1 ELSE 0)
  BY <1>1, <1>2, RecordOnceTaxes
<1>3. ASSUME NEW d \in Donors, NEW g \in Fundraisers, NEW x \in Ids, DonorSave(d, g, x)
      PROVE  taxCollected'[f][e] = (IF pledge'[f][e] = "chain" THEN 1 ELSE 0)
  BY <1>1, <1>3 DEF DonorSave
<1>4. CASE /\ UNCHANGED <<raised, taxCollected>>
           /\ \/ pledge'[f][e] = pledge[f][e]
              \/ pledge[f][e] = "none" /\ pledge'[f][e] \in {"form", "webhook"}
  BY <1>1, <1>4
<1> QED
  BY <1>2, <1>3, <1>4, StepShape

(* The tax collected is that of the pledges createPledgeAtomic recorded in the
   fundraiser's currency, no more and no less. *)
THEOREM TaxIsExact == Spec => []TaxExact
BY TypeInit, TypeStep, TaxInit, TaxStep, PTL DEF Spec

LEMMA FormCreditStep ==
    ASSUME TypeOK, LedgerInv, [Next]_vars, NEW f \in Fundraisers, NEW e \in Ids,
           f \notin unchecked', pledge[f][e] = "form", raised[f][e] = 1
    PROVE  raised'[f][e] = 1
<1>1. ASSUME NEW g \in Fundraisers, NEW x \in Ids, RecordOnce(g, x) PROVE raised'[f][e] = 1
  BY <1>1, RecordOnceCounts DEF LedgerInv
<1>2. ASSUME NEW d \in Donors, NEW g \in Fundraisers, NEW x \in Ids, DonorSave(d, g, x)
      PROVE  raised'[f][e] = 1
  <2>1. stage[d] = "save" /\ target[d] = <<g, x>>
    BY <1>2 DEF DonorSave
  <2>2. CASE g # f
    BY <1>2, <2>2, SaveEffect
  <2>3. CASE g = f
    <3>1. x # e
      BY <1>2, <2>3, SaveEffect
    <3>2. f \notin unchecked /\ draft[d].version = version[f]
      BY <1>2, <2>3, SaveEffect
    <3>3. draft[d].raised[e] = raised[f][e]
      BY <2>1, <2>3, <3>2 DEF LedgerInv, DraftInv
    <3> QED
      BY <1>2, <2>3, <3>1, <3>3, SaveEffect
  <2> QED
    BY <2>2, <2>3
<1> QED
  BY <1>1, <1>2, StepShape

(* A form donation once counted survives every later write of its fundraiser, as
   long as its saves are checked. *)
THEOREM FormCreditIsKept == Spec => FormCreditKept
<1>1. TypeOK /\ LedgerInv /\ [Next]_vars =>
         [\A f \in Fundraisers, e \in Ids :
             f \notin unchecked' /\ pledge[f][e] = "form" /\ raised[f][e] = 1
                => raised'[f][e] = 1]_vars
  BY FormCreditStep
<1> QED
  BY <1>1, TypeCorrect, LedgerCorrect, PTL DEF Spec, FormCreditKept

LEMMA ChainExactInit == Init => ChainExactWithoutForms
BY DEF Init, ChainExactWithoutForms, EmptyBag

LEMMA ChainExactStep ==
    TypeOK /\ LedgerInv /\ ChainExactWithoutForms /\ [Next]_vars => ChainExactWithoutForms'
<1> SUFFICES ASSUME TypeOK, LedgerInv, ChainExactWithoutForms, [Next]_vars,
                    NEW f \in Fundraisers, \A e \in Ids : pledge'[f][e] # "form",
                    NEW e \in Ids
             PROVE  raised'[f][e] = (IF pledge'[f][e] = "chain" THEN 1 ELSE 0)
  BY DEF ChainExactWithoutForms
<1>1. ASSUME NEW g \in Fundraisers, NEW x \in Ids, RecordOnce(g, x)
      PROVE  raised'[f][e] = (IF pledge'[f][e] = "chain" THEN 1 ELSE 0)
  <2>1. ASSUME NEW y \in Ids PROVE pledge[f][y] # "form"
    <3>1. pledge'[f][y] = pledge[f][y] \/ pledge[f][y] = "none"
      BY <1>1, RecordOnceCounts DEF LedgerInv
    <3> QED
      BY <3>1
  <2>2. raised[f][e] = (IF pledge[f][e] = "chain" THEN 1 ELSE 0)
    BY <2>1 DEF ChainExactWithoutForms
  <2> QED
    BY <1>1, <2>2, RecordOnceCounts DEF LedgerInv
<1>2. ASSUME NEW d \in Donors, NEW g \in Fundraisers, NEW x \in Ids, DonorSave(d, g, x)
      PROVE  raised'[f][e] = (IF pledge'[f][e] = "chain" THEN 1 ELSE 0)
  <2>1. g # f /\ pledge' = pledge /\ raised'[f] = raised[f]
    BY <1>2, SaveEffect
  <2> QED
    BY <2>1 DEF ChainExactWithoutForms
<1>3. CASE /\ UNCHANGED <<raised, taxCollected>>
           /\ \A g \in Fundraisers, x \in Ids :
                 \/ pledge'[g][x] = pledge[g][x]
                 \/ pledge[g][x] = "none" /\ pledge'[g][x] \in {"form", "webhook"}
  <2>1. ASSUME NEW y \in Ids PROVE pledge[f][y] # "form"
    <3>1. pledge'[f][y] = pledge[f][y] \/ pledge[f][y] = "none"
      BY <1>3
    <3> QED
      BY <3>1
  <2>2. raised[f][e] = (IF pledge[f][e] = "chain" THEN 1 ELSE 0)
    BY <2>1 DEF ChainExactWithoutForms
  <2> QED
    BY <1>3, <2>2
<1> QED
  BY <1>1, <1>2, <1>3, StepShape

(* Without form donations a raised total is exactly its on-chain pledges. *)
THEOREM ChainExact == Spec => []ChainExactWithoutForms
BY TypeInit, TypeStep, LedgerInit, LedgerStep, ChainExactInit, ChainExactStep, PTL DEF Spec

-----------------------------------------------------------------------------
(* The donor list and the total are two views of one history. *)

(* RecentMatchesRaised of one list and one total, without cardinalities: the list
   names counted donations only, none twice, and all of them until it is full. *)
View(bag, s) ==
    /\ \A n \in DOMAIN s : bag[s[n]] # 0
    /\ \A m, n \in DOMAIN s : s[m] = s[n] => m = n
    /\ Len(s) < DonorCap => \A x \in Ids : bag[x] # 0 => \E n \in DOMAIN s : s[n] = x

(* It has to hold of the copies of pledge.ts as well, which are what it saves. *)
RecentInv ==
    \A f \in Fundraisers \ unchecked :
        /\ View(raised[f], recentDonors[f])
        /\ \A d \in Donors, e \in Ids :
              stage[d] = "save" /\ target[d] = <<f, e>> => View(draft[d].raised, draft[d].recent)

(* Counting a donation that is not counted yet and listing it go together. *)
LEMMA PushViews ==
    ASSUME NEW bag \in Bag, NEW s \in DonorList, NEW e \in Ids, View(bag, s), bag[e] = 0
    PROVE  View(Add(bag, e), Push(s, e))
<1> DEFINE t == Append(s, e)
           b == Add(bag, e)
<1>1. /\ s \in Seq(Ids) /\ Len(s) \in Nat /\ Len(s) <= DonorCap /\ DOMAIN s = 1 .. Len(s)
      /\ \A n \in DOMAIN s : s[n] \in Ids
  BY DEF DonorList
<1>2. /\ t \in Seq(Ids) /\ Len(t) = Len(s) + 1 /\ DOMAIN t = 1 .. Len(s) + 1
      /\ t[Len(s) + 1] = e /\ \A n \in DOMAIN s : t[n] = s[n]
  BY <1>1
<1>3. b[e] # 0 /\ \A x \in Ids : bag[x] # 0 => b[x] # 0
  BY AddType DEF Bag
<1>4. \A x \in Ids \ {e} : b[x] = bag[x]
  BY AddType
<1>5. \A n \in DOMAIN t : b[t[n]] # 0
  <2> SUFFICES ASSUME NEW n \in DOMAIN t PROVE b[t[n]] # 0
    OBVIOUS
  <2>1. CASE n = Len(s) + 1
    BY <1>2, <1>3, <2>1
  <2>2. CASE n \in DOMAIN s
    BY <1>1, <1>2, <1>3, <2>2 DEF View
  <2> QED
    BY <1>1, <1>2, <2>1, <2>2
<1>6. \A n \in DOMAIN s : s[n] # e
  BY DEF View
<1>7. ASSUME NEW m \in DOMAIN t, NEW n \in DOMAIN t, t[m] = t[n] PROVE m = n
  <2>1. CASE m \in DOMAIN s /\ n \in DOMAIN s
    BY <1>2, <1>7, <2>1 DEF View
  <2>2. CASE m = Len(s) + 1 \/ n = Len(s) + 1
    BY <1>1, <1>2, <1>6, <1>7, <2>2
  <2> QED
    BY <1>1, <1>2, <2>1, <2>2
<1>8. CASE Len(t) > DonorCap
  <2>1. Push(s, e) = Tail(t)
    BY <1>8 DEF Push
  <2>2. /\ Len(Tail(t)) = Len(s) /\ DOMAIN Tail(t) = 1 .. Len(s)
        /\ \A n \in 1 .. Len(s) : Tail(t)[n] = t[n + 1] /\ n + 1 \in DOMAIN t
    BY <1>1, <1>2
  <2>3. ~(Len(Tail(t)) < DonorCap)
    BY <1>1, <1>2, <1>8, <2>2, BoundAssumption
  <2>4. \A m, n \in DOMAIN Tail(t) : Tail(t)[m] = Tail(t)[n] => m = n
    BY <1>1, <1>7, <2>2
  <2> HIDE DEF t, b
  <2>5. View(b, Tail(t))
    BY <1>5, <2>2, <2>3, <2>4 DEF View
  <2> QED
    BY <2>1, <2>5 DEF b
<1>9. CASE ~(Len(t) > DonorCap)
  <2>1. Push(s, e) = t
    BY <1>9 DEF Push
  <2>2. ASSUME Len(t) < DonorCap, NEW x \in Ids, b[x] # 0 PROVE \E n \in DOMAIN t : t[n] = x
    <3>1. CASE x = e
      BY <1>1, <1>2, <3>1
    <3>2. CASE x # e
      <4>1. bag[x] # 0 /\ Len(s) < DonorCap
        BY <1>1, <1>2, <1>4, <2>2, <3>2, BoundAssumption
      <4>2. PICK n \in DOMAIN s : s[n] = x
        BY <4>1 DEF View
      <4> QED
        BY <1>1, <1>2, <4>2
    <3> QED
      BY <3>1, <3>2
  <2> HIDE DEF t, b
  <2>3. View(b, t)
    BY <1>5, <1>7, <2>2 DEF View
  <2> QED
    BY <2>1, <2>3 DEF b
<1> QED
  BY <1>8, <1>9

(* Who writes the donor list, and where the copies come from. *)
LEMMA CopyShape ==
    ASSUME TypeOK, [Next]_vars
    PROVE  /\ unchecked \subseteq unchecked'
           /\ \/ UNCHANGED <<raised, recentDonors>>
              \/ \E f \in Fundraisers, e \in Ids : RecordOnce(f, e)
              \/ \E d \in Donors, f \in Fundraisers, e \in Ids : DonorSave(d, f, e)
           /\ \A d \in Donors :
                 \/ stage'[d] = stage[d] /\ target'[d] = target[d] /\ draft'[d] = draft[d]
                 \/ stage'[d] # "save"
                 \/ \E f \in Fundraisers, e \in Ids : DonorLoad(d, f, e)
<1> DEFINE Still(d) == stage'[d] = stage[d] /\ target'[d] = target[d] /\ draft'[d] = draft[d]
           Moves(d) == \/ Still(d) \/ stage'[d] # "save"
                       \/ \E f \in Fundraisers, e \in Ids : DonorLoad(d, f, e)
           Copies == \A d \in Donors : Moves(d)
           Quiet == unchecked' = unchecked /\ UNCHANGED <<raised, recentDonors>> /\ Copies
           Records == /\ unchecked' = unchecked /\ Copies
                      /\ \E f \in Fundraisers, e \in Ids : RecordOnce(f, e)
           Saves == /\ unchecked \subseteq unchecked' /\ Copies
                    /\ \E d \in Donors, f \in Fundraisers, e \in Ids : DonorSave(d, f, e)
<1>0. /\ Donors \subseteq Requests /\ Verifiers \subseteq Requests
      /\ Pollers \subseteq Requests /\ Inviters \subseteq Requests
      /\ \A s \in {"idle", "insert", "load", "save", "lookup", "record", "scan"} : s \in Stages
  BY DEF Requests, Stages
<1>1. ASSUME NEW f \in Fundraisers, CreateFundraiser(f) \/ Administer(f) PROVE Quiet
  BY <1>1 DEF CreateFundraiser, Administer, book
<1>2. ASSUME NEW f \in Fundraisers, NEW i \in Inviters, InviteLoad(i, f) PROVE Quiet
  <2>1. \A d \in Donors : Still(d)
    BY <1>0, <1>2, NoDonorMoves DEF InviteLoad
  <2> QED
    BY <1>2, <2>1 DEF InviteLoad, ledger
<1>3. ASSUME NEW f \in Fundraisers, NEW i \in Inviters, InviteSave(i, f) PROVE Quiet
  <2>1. Copies
    BY <1>0, <1>3, FinishOnly DEF InviteSave
  <2> QED
    BY <1>3, <2>1 DEF InviteSave, book
<1>4. ASSUME NEW f \in Fundraisers, NEW e \in Ids, WebhookUpsert(f, e) PROVE Quiet
  BY <1>4 DEF WebhookUpsert
<1>5. ASSUME NEW f \in Fundraisers, NEW e \in Ids, NEW d \in Donors, DonorStep(d, f, e)
      PROVE  Quiet \/ Saves
  <2>1. CASE DonorStart(d, f, e)
    <3>1. stage'[d] = "insert" /\ \A c \in Donors \ {d} : Still(c)
      BY <1>0, <2>1 DEF DonorStart, Goto, TypeOK
    <3> QED
      BY <2>1, <3>1 DEF DonorStart, ledger
  <2>2. CASE DonorInsert(d, f, e)
    <3>1. Copies
      <4>1. CASE Finish(d)
        BY <1>0, <4>1, FinishOnly
      <4>2. CASE Goto(d, "load") /\ UNCHANGED <<target, draft>>
        BY <1>0, <4>2 DEF Goto, TypeOK
      <4> QED
        BY <2>2, <4>1, <4>2 DEF DonorInsert
    <3> QED
      BY <2>2, <3>1 DEF DonorInsert
  <2>3. CASE DonorLoad(d, f, e)
    <3>1. \A c \in Donors \ {d} : Still(c)
      BY <1>0, <2>3 DEF DonorLoad, Goto, TypeOK
    <3> QED
      BY <2>3, <3>1 DEF DonorLoad, ledger
  <2>4. CASE DonorSave(d, f, e)
    <3>1. Copies
      BY <1>0, <2>4, FinishOnly DEF DonorSave
    <3> QED
      BY <2>4, <3>1 DEF DonorSave
  <2>5. CASE DonorConflict(d, f, e)
    <3>1. Copies
      BY <1>0, <2>5, FinishOnly DEF DonorConflict
    <3> QED
      BY <2>5, <3>1 DEF DonorConflict, ledger
  <2> QED
    BY <1>5, <2>1, <2>2, <2>3, <2>4, <2>5 DEF DonorStep
<1>6. ASSUME NEW f \in Fundraisers, NEW e \in Ids, NEW v \in Verifiers, VerifierStep(v, f, e)
      PROVE  Quiet \/ Records
  <2>1. Copies
    <3>1. CASE VerifyStart(v, f, e)
      BY <1>0, <3>1, NoDonorMoves DEF VerifyStart
    <3>2. CASE VerifyLookup(v, f, e)
      <4>1. CASE Finish(v)
        BY <1>0, <4>1, FinishOnly
      <4>2. CASE Goto(v, "record") /\ UNCHANGED <<target, draft>>
        BY <1>0, <4>2, NoDonorMoves
      <4> QED
        BY <3>2, <4>1, <4>2 DEF VerifyLookup
    <3>3. CASE VerifyRecord(v, f, e)
      BY <1>0, <3>3, FinishOnly DEF VerifyRecord
    <3> QED
      BY <1>6, <3>1, <3>2, <3>3 DEF VerifierStep
  <2> QED
    BY <1>6, <2>1 DEF VerifierStep, VerifyStart, VerifyLookup, VerifyRecord, ledger
<1>7. ASSUME NEW p \in Pollers, PollerStep(p) PROVE Quiet \/ Records
  <2>1. UNCHANGED stage \/ \E q \in Stages : Goto(p, q)
    BY <1>0, <1>7 DEF PollerStep, PollerStart, PollerFetch, PollerLookup, PollerRecord,
                      PollerSkip, PollerFinish
  <2>2. UNCHANGED draft /\ (UNCHANGED target \/ \E t : target' = [target EXCEPT ![p] = t])
    BY <1>7 DEF PollerStep, PollerStart, PollerFetch, PollerLookup, PollerRecord,
                PollerSkip, PollerFinish
  <2>3. \A d \in Donors : Still(d)
    BY <2>1, <2>2, NoDonorMoves
  <2> QED
    BY <1>7, <2>3 DEF PollerStep, PollerStart, PollerFetch, PollerLookup, PollerRecord,
                      PollerSkip, PollerFinish, ledger
<1>8. ASSUME NEW r \in Requests, Abort(r) PROVE Quiet
  <2>1. Copies
    BY <1>8, FinishOnly DEF Abort
  <2> QED
    BY <1>8, <2>1 DEF Abort, ledger
<1>9. CASE UNCHANGED vars
  BY <1>9 DEF vars
<1> QED
  BY <1>1, <1>2, <1>3, <1>4, <1>5, <1>6, <1>7, <1>8, <1>9 DEF Next

LEMMA RecentInit == Init => RecentInv
<1> SUFFICES ASSUME Init, NEW f \in Fundraisers
             PROVE  /\ View(raised[f], recentDonors[f])
                    /\ \A d \in Donors : stage[d] # "save"
  BY DEF RecentInv
<1>1. raised[f] = EmptyBag /\ recentDonors[f] = <<>> /\ \A d \in Donors : stage[d] = "idle"
  BY DEF Init, Requests
<1> QED
  BY <1>1 DEF View, EmptyBag

(* After a step the list of a fundraiser is a view of its total, as before it or by
   one donation more. *)
LEMMA ListStep ==
    ASSUME TypeOK, LedgerInv, RecentInv, [Next]_vars, NEW f \in Fundraisers \ unchecked'
    PROVE  View(raised'[f], recentDonors'[f])
<1>1. f \in Fundraisers \ unchecked /\ View(raised[f], recentDonors[f])
  BY CopyShape DEF RecentInv
<1>2. raised[f] \in Bag /\ recentDonors[f] \in DonorList
  BY DEF TypeOK
<1>3. ASSUME NEW g \in Fundraisers, NEW e \in Ids, RecordOnce(g, e)
      PROVE  View(raised'[f], recentDonors'[f])
  <2>1. CASE UNCHANGED <<raised, recentDonors>>
    BY <1>1, <2>1
  <2>2. CASE pledge[g][e] = "none" /\ Credit(g, e)
    <3>1. raised[g][e] = 0
      BY <2>2 DEF LedgerInv, RaisedNeverOverstated, TypeOK, Bag
    <3>2. /\ raised' = [raised EXCEPT ![g] = Add(@, e)]
          /\ recentDonors' = [recentDonors EXCEPT ![g] = Push(@, e)]
      BY <2>2 DEF Credit
    <3>3. CASE g = f
      <4>1. raised'[f] = Add(raised[f], e) /\ recentDonors'[f] = Push(recentDonors[f], e)
        BY <3>2, <3>3 DEF TypeOK
      <4>2. View(Add(raised[f], e), Push(recentDonors[f], e))
        BY <1>1, <1>2, <3>1, <3>3, PushViews
      <4> QED
        BY <4>1, <4>2
    <3>4. CASE g # f
      <4>1. raised'[f] = raised[f] /\ recentDonors'[f] = recentDonors[f]
        BY <1>1, <3>2, <3>4 DEF TypeOK
      <4> QED
        BY <1>1, <4>1
    <3> QED
      BY <3>3, <3>4
  <2> QED
    BY <1>3, <2>1, <2>2 DEF RecordOnce, book
<1>4. ASSUME NEW d \in Donors, NEW g \in Fundraisers, NEW e \in Ids, DonorSave(d, g, e)
      PROVE  View(raised'[f], recentDonors'[f])
  <2>1. stage[d] = "save" /\ target[d] = <<g, e>> /\ Booking(d, g, e)
    BY <1>4 DEF DonorSave, Booking
  <2>2. raised' = [raised EXCEPT ![g] = Add(draft[d].raised, e)]
    BY <1>4 DEF DonorSave
  <2>3. CASE g = f
    <3>1. recentDonors' = [recentDonors EXCEPT ![g] = Push(draft[d].recent, e)]
      BY <1>4, <2>3 DEF DonorSave
    <3>2. /\ raised'[f] = Add(draft[d].raised, e)
          /\ recentDonors'[f] = Push(draft[d].recent, e)
      BY <2>2, <2>3, <3>1 DEF TypeOK
    <3>3. draft[d].raised[e] = 0
      BY <2>1 DEF LedgerInv, DraftInv
    <3>4. draft[d].raised \in Bag /\ draft[d].recent \in DonorList
      BY DEF TypeOK, Requests
    <3>5. View(draft[d].raised, draft[d].recent)
      BY <1>1, <2>1, <2>3 DEF RecentInv
    <3>6. View(Add(draft[d].raised, e), Push(draft[d].recent, e))
      BY <3>3, <3>4, <3>5, PushViews
    <3> QED
      BY <3>2, <3>6
  <2>4. CASE g # f
    <3>1. raised'[f] = raised[f] /\ recentDonors'[f] = recentDonors[f]
      BY <1>1, <1>4, <2>2, <2>4 DEF DonorSave, TypeOK
    <3> QED
      BY <1>1, <3>1
  <2> QED
    BY <2>3, <2>4
<1> QED
  BY <1>1, <1>3, <1>4, CopyShape

LEMMA RecentStep == TypeOK /\ LedgerInv /\ RecentInv /\ [Next]_vars => RecentInv'
<1> SUFFICES ASSUME TypeOK, LedgerInv, RecentInv, [Next]_vars, NEW f \in Fundraisers \ unchecked'
             PROVE  /\ View(raised'[f], recentDonors'[f])
                    /\ \A d \in Donors, e \in Ids :
                          stage'[d] = "save" /\ target'[d] = <<f, e>>
                              => View(draft'[d].raised, draft'[d].recent)
  BY DEF RecentInv, View
<1>1. f \in Fundraisers \ unchecked
  BY CopyShape
<1>2. ASSUME NEW d \in Donors, NEW e \in Ids, stage'[d] = "save", target'[d] = <<f, e>>
      PROVE  View(draft'[d].raised, draft'[d].recent)
  <2>1. CASE stage'[d] = stage[d] /\ target'[d] = target[d] /\ draft'[d] = draft[d]
    BY <1>1, <1>2, <2>1 DEF RecentInv
  <2>2. ASSUME NEW g \in Fundraisers, NEW x \in Ids, DonorLoad(d, g, x)
        PROVE  View(draft'[d].raised, draft'[d].recent)
    <3>1. g = f
      BY <1>2, <2>2 DEF DonorLoad
    <3>2. draft'[d].raised = raised[f] /\ draft'[d].recent = recentDonors[f]
      BY <2>2, <3>1 DEF DonorLoad, TypeOK, Requests
    <3> QED
      BY <1>1, <3>2 DEF RecentInv
  <2> QED
    BY <1>2, <2>1, <2>2, CopyShape
<1> QED
  BY <1>2, ListStep

(* What a view says of the numbers. *)
LEMMA ViewCounts ==
    ASSUME NEW bag \in Bag, NEW s \in DonorList, View(bag, s), IsFiniteSet(Ids),
           NEW counted, counted = {e \in Ids : bag[e] # 0},
           NEW names, names = {s[n] : n \in DOMAIN s}
    PROVE  /\ names \subseteq counted
           /\ Cardinality(names) = Len(s)
           /\ Len(s) = IF Cardinality(counted) > DonorCap THEN DonorCap
                       ELSE Cardinality(counted)
<1>1. /\ Len(s) \in Nat /\ Len(s) <= DonorCap /\ DOMAIN s = 1 .. Len(s)
      /\ \A n \in DOMAIN s : s[n] \in Ids
  BY DEF DonorList
<1>2. names \subseteq counted
  BY <1>1 DEF View
<1>3. IsFiniteSet(counted) /\ Cardinality(counted) \in Nat
  BY FS_Subset, FS_CardinalityType
<1>4. Cardinality(names) = Len(s)
  <2>1. [n \in 1 .. Len(s) |-> s[n]] \in Bijection(1 .. Len(s), names)
    <3> DEFINE F == [n \in 1 .. Len(s) |-> s[n]]
    <3>1. F \in [1 .. Len(s) -> names]
      BY <1>1
    <3>2. \A m, n \in 1 .. Len(s) : F[m] = F[n] => m = n
      BY <1>1 DEF View
    <3>3. \A t \in names : \E n \in 1 .. Len(s) : F[n] = t
      BY <1>1
    <3> HIDE DEF F
    <3>4. F \in Bijection(1 .. Len(s), names)
      BY <3>1, <3>2, <3>3, Fun_IsBij
    <3> QED
      BY <3>4 DEF F
  <2>2. ExistsBijection(1 .. Len(s), names)
    BY <2>1 DEF ExistsBijection
  <2> QED
    BY <1>1, <2>2, FS_CountingElements
<1>5. Len(s) <= Cardinality(counted)
  BY <1>2, <1>3, <1>4, FS_Subset
<1>6. Len(s) < DonorCap => Cardinality(counted) = Len(s)
  <2> SUFFICES ASSUME Len(s) < DonorCap PROVE counted = names
    BY <1>4
  <2> QED
    BY <1>2 DEF View
<1>7. Len(s) = IF Cardinality(counted) > DonorCap THEN DonorCap
               ELSE Cardinality(counted)
  <2> SUFFICES ASSUME NEW k \in Nat, NEW c \in Nat, k <= DonorCap, k <= c,
                      k < DonorCap => c = k
               PROVE  k = IF c > DonorCap THEN DonorCap ELSE c
    BY <1>1, <1>3, <1>5, <1>6
  <2> QED
    BY BoundAssumption
<1> QED
  BY <1>2, <1>4, <1>7

(* As long as every save is checked, list and total tell the same story: as many
   donors as donations up to the cap, none twice and none uncounted, for any cap,
   whichever of the two code paths wrote them. *)
THEOREM RecentIsRaised == ASSUME IsFiniteSet(Ids) PROVE Spec => []RecentMatchesRaised
<1>1. TypeOK /\ RecentInv => RecentMatchesRaised
  <2> SUFFICES ASSUME TypeOK, RecentInv, NEW f \in Fundraisers \ unchecked,
                      NEW counted, counted = {e \in Ids : raised[f][e] # 0},
                      NEW names,
                      names = {recentDonors[f][n] : n \in DOMAIN recentDonors[f]}
               PROVE  /\ names \subseteq counted
                      /\ Cardinality(names) = Len(recentDonors[f])
                      /\ Len(recentDonors[f]) =
                            IF Cardinality(counted) > DonorCap THEN DonorCap
                            ELSE Cardinality(counted)
    BY DEF RecentMatchesRaised
  <2>1. raised[f] \in Bag /\ recentDonors[f] \in DonorList
    BY DEF TypeOK
  <2>2. View(raised[f], recentDonors[f])
    BY DEF RecentInv
  <2> QED
    BY <2>1, <2>2, ViewCounts
<1> QED
  BY <1>1, TypeCorrect, LedgerCorrect, RecentInit, RecentStep, PTL DEF Spec

-----------------------------------------------------------------------------
(* The on-chain path: its steps are those of the abstract ledger. *)

LEMMA NothingElseRecords ==
    ASSUME Donors = {}, [Next]_vars
    PROVE  \/ \E f \in Fundraisers, e \in Ids : RecordOnce(f, e) \/ WebhookUpsert(f, e)
           \/ UNCHANGED <<pledge, raised>>
<1>1. ASSUME NEW f \in Fundraisers,
             \/ CreateFundraiser(f) \/ Administer(f)
             \/ \E i \in Inviters : InviteLoad(i, f) \/ InviteSave(i, f)
      PROVE  UNCHANGED <<pledge, raised>>
  BY <1>1 DEF CreateFundraiser, Administer, InviteLoad, InviteSave, ledger, book
<1>2. ASSUME NEW f \in Fundraisers, NEW e \in Ids, NEW v \in Verifiers, VerifierStep(v, f, e)
      PROVE  RecordOnce(f, e) \/ UNCHANGED <<pledge, raised>>
  BY <1>2 DEF VerifierStep, VerifyStart, VerifyLookup, VerifyRecord, ledger
<1>3. ASSUME NEW p \in Pollers, PollerStep(p)
      PROVE  \/ UNCHANGED <<pledge, raised>>
             \/ \E f \in Fundraisers, e \in Ids : RecordOnce(f, e)
  BY <1>3 DEF PollerStep, PollerStart, PollerFetch, PollerLookup, PollerRecord, PollerSkip,
              PollerFinish, ledger
<1>4. ASSUME NEW r \in Requests, Abort(r) PROVE UNCHANGED <<pledge, raised>>
  BY <1>4 DEF Abort, ledger
<1>5. CASE UNCHANGED vars
  BY <1>5 DEF vars
<1> QED
  BY <1>1, <1>2, <1>3, <1>4, <1>5 DEF Next

LEMMA RefinesInit == Init => Ledger!Init
BY DEF Init, Ledger!Init, Recorded, Counted, EmptyBag

(* A first record of an id is one of the abstract steps, according to its currency. *)
LEMMA RefinesRecordOnce ==
    ASSUME TypeOK, RaisedNeverOverstated, NEW f \in Fundraisers, NEW e \in Ids, RecordOnce(f, e)
    PROVE  \/ Ledger!RecordCounted(f, e) \/ Ledger!RecordUncounted(f, e)
           \/ UNCHANGED <<Recorded, Counted>>
<1>1. CASE pledge[f][e] # "none"
  BY <1>1 DEF RecordOnce, book, Recorded, Counted
<1>2. CASE pledge[f][e] = "none"
  <2>1. PICK w \in {"chain", "foreign"} : pledge' = [pledge EXCEPT ![f][e] = w]
    BY <1>2 DEF RecordOnce, RecordAs
  <2>2. \A g \in Fundraisers, x \in Ids :
           pledge'[g][x] = IF g = f /\ x = e THEN w ELSE pledge[g][x]
    BY <2>1 DEF TypeOK
  <2>3. /\ raised'[f][e] = (IF w = "chain" THEN 1 ELSE 0)
        /\ raised[f][e] = 0
        /\ w = "chain" => Named(Matching, f, e)
    BY <1>2, <2>2, RecordOnceCounts
  <2>4. ASSUME NEW g \in Fundraisers, NEW x \in Ids, ~(g = f /\ x = e)
        PROVE  raised'[g][x] = raised[g][x]
    <3>1. pledge'[g][x] = pledge[g][x]
      BY <2>2, <2>4
    <3> QED
      BY <3>1, RecordOnceCounts
  <2>5. e \notin Recorded[f]
    BY <1>2 DEF Recorded
  <2>6. Recorded' = [Recorded EXCEPT ![f] = @ \cup {e}]
    <3>1. ASSUME NEW g \in Fundraisers, NEW x \in Ids
          PROVE  pledge'[g][x] # "none" <=> pledge[g][x] # "none" \/ (g = f /\ x = e)
      BY <2>2
    <3> QED
      BY <3>1 DEF Recorded
  <2>7. CASE w = "chain"
    <3>1. ASSUME NEW g \in Fundraisers, NEW x \in Ids
          PROVE  raised'[g][x] # 0 <=> raised[g][x] # 0 \/ (g = f /\ x = e)
      BY <2>3, <2>4, <2>7
    <3>2. Counted' = [Counted EXCEPT ![f] = @ \cup {e}]
      BY <3>1 DEF Counted
    <3>3. e \in InCurrency[f]
      BY <2>3, <2>7 DEF InCurrency
    <3> QED
      BY <2>5, <2>6, <3>2, <3>3 DEF Ledger!RecordCounted
  <2>8. CASE w = "foreign"
    <3>1. ASSUME NEW g \in Fundraisers, NEW x \in Ids
          PROVE  raised'[g][x] # 0 <=> raised[g][x] # 0
      BY <2>3, <2>4, <2>8
    <3>2. Counted' = Counted
      BY <3>1 DEF Counted
    <3> QED
      BY <2>5, <2>6, <3>2 DEF Ledger!RecordUncounted
  <2> QED
    BY <2>7, <2>8
<1> QED
  BY <1>1, <1>2

(* The webhook's upsert counts nothing. *)
LEMMA RefinesUpsert ==
    ASSUME TypeOK, NEW f \in Fundraisers, NEW e \in Ids, WebhookUpsert(f, e)
    PROVE  Ledger!RecordUncounted(f, e)
<1>1. /\ pledge[f][e] = "none" /\ raised' = raised
      /\ pledge' = [pledge EXCEPT ![f][e] = "webhook"]
  BY DEF WebhookUpsert
<1>2. \A g \in Fundraisers, x \in Ids :
         pledge'[g][x] = IF g = f /\ x = e THEN "webhook" ELSE pledge[g][x]
  BY <1>1 DEF TypeOK
<1>3. Recorded' = [Recorded EXCEPT ![f] = @ \cup {e}]
  <2>1. ASSUME NEW g \in Fundraisers, NEW x \in Ids
        PROVE  pledge'[g][x] # "none" <=> pledge[g][x] # "none" \/ (g = f /\ x = e)
    BY <1>2
  <2> QED
    BY <2>1 DEF Recorded
<1> QED
  BY <1>1, <1>3 DEF Ledger!RecordUncounted, Recorded, Counted

LEMMA RefinesStep ==
    ASSUME Donors = {}, TypeOK, RaisedNeverOverstated, [Next]_vars
    PROVE  [Ledger!Next]_(Ledger!vars)
<1>1. ASSUME NEW f \in Fundraisers, NEW e \in Ids, RecordOnce(f, e)
      PROVE  [Ledger!Next]_(Ledger!vars)
  BY <1>1, RefinesRecordOnce DEF Ledger!Next, Ledger!vars
<1>2. ASSUME NEW f \in Fundraisers, NEW e \in Ids, WebhookUpsert(f, e)
      PROVE  [Ledger!Next]_(Ledger!vars)
  BY <1>2, RefinesUpsert DEF Ledger!Next
<1>3. CASE UNCHANGED <<pledge, raised>>
  BY <1>3 DEF Ledger!vars, Recorded, Counted
<1> QED
  BY <1>1, <1>2, <1>3, NothingElseRecords

(* What explorers show and detectors confirm only narrows what the ledger allows. *)
LEMMA OnchainIsLedger == OnchainSpec => Spec
<1>1. OnchainInit => Init
  BY DEF OnchainInit
<1>2. [OnchainNext]_onchainVars => [Next]_vars
  BY DEF OnchainNext, WindowMoves, onchainVars
<1> QED
  BY <1>1, <1>2, PTL DEF OnchainSpec, Spec

(* Recording a transfer and counting it is one indivisible, once-only step of the
   on-chain path, whatever requests overlap or die and whatever the explorers show. *)
THEOREM OnchainImplements ==
    ASSUME Donors = {}
    PROVE  OnchainSpec => ImplementsLedger
<1>1. TypeOK /\ RaisedNeverOverstated /\ [Next]_vars => [Ledger!Next]_(Ledger!vars)
  BY RefinesStep
<1>2. Spec => ImplementsLedger
  BY <1>1, RefinesInit, TypeCorrect, NeverOverstated, PTL DEF Spec, ImplementsLedger, Ledger!Spec
<1> QED
  BY <1>2, OnchainIsLedger, PTL

===============================================================================
