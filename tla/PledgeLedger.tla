----------------------------- MODULE PledgeLedger -----------------------------
(***************************************************************************)
(* The pledge ledger: the Pledge and Fundraiser collections and every      *)
(* request that writes them.                                               *)
(*                                                                         *)
(*   Donors     requests to POST /api/fundraisers/pledge (pledge.ts),      *)
(*   Verifiers  requests to POST /api/fundraisers/verify-onchain,          *)
(*   Pollers    runs of /api/poller/run,                                   *)
(*   Inviters   requests to POST /api/fundraisers/invite,                  *)
(*                                                                         *)
(* and, as single database operations, the Giving Block webhook's upsert,  *)
(* the admin's approve / flag / close and the creation of a fundraiser.    *)
(* A slot runs one request at a time; each await of a handler is a step,   *)
(* so requests interleave wherever the code lets them.                     *)
(*                                                                         *)
(* A sum of amounts is kept as the multiset of the ids summed: raised[f][e]*)
(* is how many times the amount of e is in f.raised.  A read-modify-write  *)
(* of the number is then a read-modify-write of the multiset.              *)
(***************************************************************************)
EXTENDS Naturals, Sequences, FiniteSets

CONSTANTS
    Fundraisers,    \* ids of fundraisers
    Ids,            \* external ids, as spelled by whoever submits them
    Lower,          \* Lower[e]: e in lower case
    Pays,           \* <<f, e>>: a transfer its explorer spells e pays f's wallet (on
                    \* bitcoin, for the poller: any transaction of the wallet, run.ts:60)
    Matching,       \* the members of Pays whose token's symbol is f's currency
    EntryOf,        \* EntryOf[e]: the string "donor:amount" listed for the donation e
    Donors, Verifiers, Pollers, Inviters,
    DonorCap,       \* length recentDonors is cut to (10 in the code)
    MaxVersion,     \* bound: invites stop once a document was saved this often
    MaxAborts       \* bound: requests that die or throw half way

Requests == Donors \cup Verifiers \cup Pollers \cup Inviters

ASSUME LowerAssumption ==
    /\ Lower \in [Ids -> Ids]
    /\ \A e \in Ids : Lower[Lower[e]] = Lower[e]

ASSUME TransferAssumption ==
    /\ Pays \subseteq Fundraisers \X Ids
    /\ Matching \subseteq Pays

ASSUME SlotAssumption ==
    /\ Donors \cap (Verifiers \cup Pollers \cup Inviters) = {}
    /\ Verifiers \cap (Pollers \cup Inviters) = {}
    /\ Pollers \cap Inviters = {}

ASSUME EntryAssumption == DOMAIN EntryOf = Ids

ASSUME BoundAssumption == DonorCap \in Nat \ {0} /\ MaxVersion \in Nat /\ MaxAborts \in Nat

VARIABLES
    status,         \* Fundraiser.status, "absent" before the document exists
    active,         \* Fundraiser.active
    version,        \* Fundraiser.__v, kept by mongoose
    unchecked,      \* history: the fundraisers a save without the version check wrote
    raised,         \* Fundraiser.raised
    taxCollected,   \* Fundraiser.taxCollected
    recentDonors,   \* Fundraiser.recentDonors, as the ids of the donations listed
    pledge,         \* pledge[f][e]: "none", or who inserted the Pledge: pledge.ts ("form"),
                    \* the webhook, or createPledgeAtomic, in f's currency ("chain") or
                    \* in another ("foreign")
    stage,          \* where in its handler a request is
    target,         \* target[r]: the fundraiser and external id it works on
    draft,          \* draft[r]: the Fundraiser document it holds in memory
    left, batch,    \* a poller run's fundraisers and explorer transactions to come
    aborts          \* how many requests ended half way

ledger == <<status, active, version, unchecked, raised, taxCollected, recentDonors, pledge>>
book == <<raised, taxCollected, recentDonors, pledge>>
run == <<left, batch>>
vars == <<status, active, version, unchecked, raised, taxCollected, recentDonors,
          pledge, stage, target, draft, left, batch, aborts>>

Bag == [Ids -> Nat]
DonorList == {s \in Seq(Ids) : Len(s) <= DonorCap}
Keys == Fundraisers \X Ids
EmptyBag == [e \in Ids |-> 0]
Blank == [raised |-> EmptyBag, version |-> 0, recent |-> <<>>]
NoTarget == <<>>
Targets == Keys \cup {<<f>> : f \in Fundraisers} \cup {NoTarget}   \* <<f>>: an inviter's

Stages == {"idle", "insert", "load", "save", "lookup", "record", "scan"}

-----------------------------------------------------------------------------
(* Operations on the stored documents. *)

Add(bag, e) == [bag EXCEPT ![e] = @ + 1]

PushUncut(s, e) == Append(s, e)
PushShort(s, e) == LET t == Append(s, e) IN IF Len(t) >= DonorCap THEN Tail(t) ELSE t
(* The newest donors, at most DonorCap of them: [...recentDonors.slice(-9), entry]
   in pledge.ts, $push with $slice: -10 in pledgeService.ts. *)
Push(s, e) == LET t == Append(s, e) IN IF Len(t) > DonorCap THEN Tail(t) ELSE t

(* pledge.ts and verify-onchain.ts take money for an active, approved fundraiser. *)
Accepting(f) == status[f] = "approved" /\ active[f]

(* mongoose adds `__v: <version read>` to the filter of a save that assigns a
   whole array, and bumps it; an update with $inc or $set does neither. *)
Unmodified(r, f) == draft[r].version = version[f]

(* An array assigned is an array modified only if it differs from the one read:
   pushing an entry onto a full list of just that entry leaves the same strings. *)
Relists(s, e) == Len(s) < DonorCap \/ \E n \in DOMAIN s : EntryOf[s[n]] # EntryOf[e]

Credit(f, e) ==
    /\ raised' = [raised EXCEPT ![f] = Add(@, e)]
    /\ taxCollected' = [taxCollected EXCEPT ![f] = Add(@, e)]
    /\ recentDonors' = [recentDonors EXCEPT ![f] = Push(@, e)]

RecordAs(f, e, w) == pledge' = [pledge EXCEPT ![f][e] = w]

(* One of the transfers is named by e, in whatever case: hex ids are the same id,
   and verify-onchain.ts compares the others in lower case. *)
Named(transfers, f, e) == \E x \in Ids : <<f, x>> \in transfers /\ Lower[x] = Lower[e]

RecordAgain(f, e) ==
    \/ /\ Named(Matching, f, e)
       /\ RecordAs(f, e, "chain") /\ Credit(f, e)
    \/ /\ RecordAs(f, e, "foreign")
       /\ UNCHANGED <<raised, taxCollected, recentDonors>>
RecordUncredited(f, e) ==
    \/ pledge[f][e] # "none" /\ UNCHANGED book
    \/ /\ pledge[f][e] = "none"
       /\ \/ Named(Matching, f, e) /\ RecordAs(f, e, "chain")
          \/ RecordAs(f, e, "foreign")
       /\ UNCHANGED <<raised, taxCollected, recentDonors>>
RecordTaxFirst(f, e) ==
    \/ pledge[f][e] # "none" /\ UNCHANGED book
    \/ /\ pledge[f][e] = "none" /\ Named(Matching, f, e)
       /\ RecordAs(f, e, "chain") /\ Credit(f, e)
    \/ /\ pledge[f][e] = "none"
       /\ RecordAs(f, e, "foreign")
       /\ taxCollected' = [taxCollected EXCEPT ![f] = Add(@, e)]
       /\ UNCHANGED <<raised, recentDonors>>
(* createPledgeAtomic: one snapshot transaction, retried on write conflicts, so
   it takes effect at once or, if it throws, not at all.  The currency it is
   given is the token's symbol as the detector read it; when that read fails the
   detector passes the token's address, and a matching transfer is recorded as
   one in a foreign currency. *)
RecordOnce(f, e) ==
    \/ pledge[f][e] # "none" /\ UNCHANGED book
    \/ /\ pledge[f][e] = "none" /\ Named(Matching, f, e)
       /\ RecordAs(f, e, "chain") /\ Credit(f, e)
    \/ /\ pledge[f][e] = "none"
       /\ RecordAs(f, e, "foreign")
       /\ UNCHANGED <<raised, taxCollected, recentDonors>>

Goto(r, s) == stage' = [stage EXCEPT ![r] = s]

(* The handler returns: the slot is free, what it held in memory is gone. *)
Finish(r) ==
    /\ Goto(r, "idle")
    /\ target' = [target EXCEPT ![r] = NoTarget]
    /\ draft' = [draft EXCEPT ![r] = Blank]

-----------------------------------------------------------------------------
Init ==
    /\ status = [f \in Fundraisers |-> "absent"]
    /\ active = [f \in Fundraisers |-> FALSE]
    /\ version = [f \in Fundraisers |-> 0]
    /\ unchecked = {}
    /\ raised = [f \in Fundraisers |-> EmptyBag]
    /\ taxCollected = [f \in Fundraisers |-> EmptyBag]
    /\ recentDonors = [f \in Fundraisers |-> <<>>]
    /\ pledge = [f \in Fundraisers |-> [e \in Ids |-> "none"]]
    /\ stage = [r \in Requests |-> "idle"]
    /\ target = [r \in Requests |-> NoTarget]
    /\ draft = [r \in Requests |-> Blank]
    /\ left = [p \in Pollers |-> {}]
    /\ batch = [p \in Pollers |-> {}]
    /\ aborts = 0

(* POST /api/fundraisers: a new document, active and approved by default. *)
CreateFundraiser(f) ==
    /\ status[f] = "absent"
    /\ status' = [status EXCEPT ![f] = "approved"]
    /\ active' = [active EXCEPT ![f] = TRUE]
    /\ UNCHANGED <<version, unchecked, book, stage, target, draft, run, aborts>>

(* POST /api/fundraisers/admin: one updateOne per action. *)
Administer(f) ==
    /\ status[f] # "absent"
    /\ \/ /\ status' = [status EXCEPT ![f] = "approved"]
          /\ active' = [active EXCEPT ![f] = TRUE]
       \/ /\ status' = [status EXCEPT ![f] = "flagged"]
          /\ UNCHANGED active
       \/ /\ status' = [status EXCEPT ![f] = "closed"]
          /\ active' = [active EXCEPT ![f] = FALSE]
    /\ UNCHANGED <<version, unchecked, book, stage, target, draft, run, aborts>>

(* The webhook's upsert of a donation: inserts the Pledge if there is none,
   rewrites fields this module does not hold if there is one, and leaves the
   Fundraiser alone either way. *)
WebhookUpsert(f, e) ==
    /\ pledge[f][e] = "none"
    /\ pledge' = [pledge EXCEPT ![f][e] = "webhook"]
    /\ UNCHANGED <<status, active, version, unchecked, raised, taxCollected, recentDonors,
                   stage, target, draft, run, aborts>>

-----------------------------------------------------------------------------
(* POST /api/fundraisers/pledge, one action per await. *)

(* findOne: 404 or 400 unless the fundraiser accepts donations. *)
DonorStart(d, f, e) ==
    /\ stage[d] = "idle"
    /\ Accepting(f)
    /\ target' = [target EXCEPT ![d] = <<f, e>>]
    /\ Goto(d, "insert")
    /\ UNCHANGED <<ledger, draft, run, aborts>>

(* Pledge.create; the unique index turns a second one into "Already recorded". *)
DonorInsert(d, f, e) ==
    /\ stage[d] = "insert" /\ target[d] = <<f, e>>
    /\ \/ /\ pledge[f][e] = "none"
          /\ pledge' = [pledge EXCEPT ![f][e] = "form"]
          /\ Goto(d, "load")
          /\ UNCHANGED <<target, draft>>
       \/ /\ pledge[f][e] # "none"
          /\ Finish(d)
          /\ UNCHANGED pledge
    /\ UNCHANGED <<status, active, version, unchecked, raised, taxCollected, recentDonors,
                   run, aborts>>

(* findOne again, this time as a document to modify. *)
DonorLoad(d, f, e) ==
    /\ stage[d] = "load" /\ target[d] = <<f, e>>
    /\ draft' = [draft EXCEPT ![d] =
           [raised |-> raised[f], version |-> version[f], recent |-> recentDonors[f]]]
    /\ Goto(d, "save")
    /\ UNCHANGED <<ledger, target, run, aborts>>

DonorUpdate(d, f, e) ==
    /\ stage[d] = "save" /\ target[d] = <<f, e>>
    /\ raised' = [raised EXCEPT ![f] = Add(draft[d].raised, e)]
    /\ recentDonors' = [recentDonors EXCEPT ![f] = Push(draft[d].recent, e)]
    /\ Finish(d)
    /\ UNCHANGED <<status, active, version, unchecked, taxCollected, pledge, run, aborts>>
(* f.save() with the raised total and the donor list computed from the copy.  A
   donation that changes no string of the list is saved without the check. *)
DonorSave(d, f, e) ==
    /\ stage[d] = "save" /\ target[d] = <<f, e>>
    /\ raised' = [raised EXCEPT ![f] = Add(draft[d].raised, e)]
    /\ \/ /\ Relists(draft[d].recent, e) /\ Unmodified(d, f)
          /\ recentDonors' = [recentDonors EXCEPT ![f] = Push(draft[d].recent, e)]
          /\ version' = [version EXCEPT ![f] = @ + 1]
          /\ UNCHANGED unchecked
       \/ /\ ~Relists(draft[d].recent, e)
          /\ unchecked' = unchecked \cup {f}
          /\ UNCHANGED <<recentDonors, version>>
    /\ Finish(d)
    /\ UNCHANGED <<status, active, taxCollected, pledge, run, aborts>>

(* A VersionError: the handler answers 500 and the pledge stays. *)
DonorConflict(d, f, e) ==
    /\ stage[d] = "save" /\ target[d] = <<f, e>>
    /\ Relists(draft[d].recent, e) /\ ~Unmodified(d, f)
    /\ Finish(d)
    /\ UNCHANGED <<ledger, run, aborts>>

-----------------------------------------------------------------------------
(* POST /api/fundraisers/verify-onchain. *)

VerifyStart(v, f, e) ==
    /\ stage[v] = "idle"
    /\ Accepting(f)
    /\ target' = [target EXCEPT ![v] = <<f, e>>]
    /\ Goto(v, "lookup")
    /\ UNCHANGED <<ledger, draft, run, aborts>>

(* An existing pledge under this spelling ends the request; otherwise the chain
   is asked, and the request ends unless it finds a transfer to f's wallet. *)
VerifyLookup(v, f, e) ==
    /\ stage[v] = "lookup" /\ target[v] = <<f, e>>
    /\ \/ /\ pledge[f][e] = "none" /\ Named(Pays, f, e)
          /\ Goto(v, "record")
          /\ UNCHANGED <<target, draft>>
       \/ Finish(v)
    /\ UNCHANGED <<ledger, run, aborts>>

VerifyRecord(v, f, e) ==
    /\ stage[v] = "record" /\ target[v] = <<f, e>>
    /\ RecordOnce(f, e)
    /\ Finish(v)
    /\ UNCHANGED <<status, active, version, unchecked, run, aborts>>

-----------------------------------------------------------------------------
(* GET or POST /api/poller/run.  Runs are not excluded from overlapping. *)

PollerStartApproved(p) ==
    /\ stage[p] = "idle"
    /\ left' = [left EXCEPT ![p] = {f \in Fundraisers : Accepting(f)}]
    /\ Goto(p, "scan")
    /\ UNCHANGED <<ledger, target, draft, batch, aborts>>
(* find({active: true}): a flagged fundraiser is still polled. *)
PollerStart(p) ==
    /\ stage[p] = "idle"
    /\ left' = [left EXCEPT ![p] = {f \in Fundraisers : active[f]}]
    /\ Goto(p, "scan")
    /\ UNCHANGED <<ledger, target, draft, batch, aborts>>

(* The rows the explorer shows of f's wallet: the newest ones, none when it cannot
   be reached or is the explorer of another chain (OnchainLedger says which). *)
PollerFetch(p, f, shown) ==
    /\ stage[p] = "scan" /\ batch[p] = {} /\ f \in left[p]
    /\ \A k \in shown : k[1] = f
    /\ left' = [left EXCEPT ![p] = @ \ {f}]
    /\ batch' = [batch EXCEPT ![p] = shown]
    /\ UNCHANGED <<ledger, stage, target, draft, aborts>>

(* For one row of the batch, its id put in lower case: the existence check and the
   detector.  It is left for good in this run if recorded already or not `found'. *)
PollerLookup(p, f, e, found) ==
    /\ stage[p] = "scan" /\ <<f, e>> \in batch[p]
    /\ batch' = [batch EXCEPT ![p] = @ \ {<<f, e>>}]
    /\ \/ /\ pledge[f][Lower[e]] = "none" /\ found
          /\ Goto(p, "record")
          /\ target' = [target EXCEPT ![p] = <<f, Lower[e]>>]
       \/ /\ ~(pledge[f][Lower[e]] = "none" /\ found)
          /\ UNCHANGED <<stage, target>>
    /\ UNCHANGED <<ledger, draft, left, aborts>>

PollerRecord(p, f, e) ==
    /\ stage[p] = "record" /\ target[p] = <<f, e>>
    /\ RecordOnce(f, e)
    /\ Goto(p, "scan")
    /\ target' = [target EXCEPT ![p] = NoTarget]
    /\ UNCHANGED <<status, active, version, unchecked, draft, run, aborts>>

(* createPledgeAtomic throws: caught, and the run goes on with the next one. *)
PollerSkip(p) ==
    /\ stage[p] = "record"
    /\ aborts < MaxAborts
    /\ aborts' = aborts + 1
    /\ Goto(p, "scan")
    /\ target' = [target EXCEPT ![p] = NoTarget]
    /\ UNCHANGED <<ledger, draft, run>>

PollerFinish(p) ==
    /\ stage[p] = "scan" /\ batch[p] = {} /\ left[p] = {}
    /\ Goto(p, "idle")
    /\ UNCHANGED <<ledger, target, draft, run, aborts>>

-----------------------------------------------------------------------------
(* POST /api/fundraisers/invite: the owner's save of a longer circle assigns a
   whole array, so it takes part in the version check though it moves no money. *)

InviteLoad(i, f) ==
    /\ stage[i] = "idle"
    /\ status[f] # "absent"
    /\ version[f] < MaxVersion
    /\ target' = [target EXCEPT ![i] = <<f>>]
    /\ draft' = [draft EXCEPT ![i] = [Blank EXCEPT !.version = version[f]]]
    /\ Goto(i, "save")
    /\ UNCHANGED <<ledger, run, aborts>>

InviteSave(i, f) ==
    /\ stage[i] = "save" /\ target[i] = <<f>>
    /\ \/ /\ Unmodified(i, f)
          /\ version' = [version EXCEPT ![f] = @ + 1]
       \/ ~Unmodified(i, f) /\ UNCHANGED version
    /\ Finish(i)
    /\ UNCHANGED <<status, active, unchecked, book, run, aborts>>

-----------------------------------------------------------------------------
(* The process of a request dies, or one of its awaits throws: whatever it has
   written stays, the rest of the handler does not happen. *)
Abort(r) ==
    /\ stage[r] # "idle"
    /\ aborts < MaxAborts
    /\ aborts' = aborts + 1
    /\ Finish(r)
    /\ left' = [p \in Pollers |-> IF p = r THEN {} ELSE left[p]]
    /\ batch' = [p \in Pollers |-> IF p = r THEN {} ELSE batch[p]]
    /\ UNCHANGED ledger

DonorStep(d, f, e) ==
    \/ DonorStart(d, f, e) \/ DonorInsert(d, f, e) \/ DonorLoad(d, f, e)
    \/ DonorSave(d, f, e) \/ DonorConflict(d, f, e)

VerifierStep(v, f, e) ==
    VerifyStart(v, f, e) \/ VerifyLookup(v, f, e) \/ VerifyRecord(v, f, e)

PollerStep(p) ==
    \/ PollerStart(p)
    \/ \E f \in Fundraisers, shown \in SUBSET Pays : PollerFetch(p, f, shown)
    \/ \E f \in Fundraisers, e \in Ids :
          \/ \E found \in BOOLEAN : PollerLookup(p, f, e, found)
          \/ PollerRecord(p, f, e)
    \/ PollerSkip(p)
    \/ PollerFinish(p)

Next ==
    \/ \E f \in Fundraisers :
          \/ CreateFundraiser(f)
          \/ Administer(f)
          \/ \E i \in Inviters : InviteLoad(i, f) \/ InviteSave(i, f)
    \/ \E f \in Fundraisers, e \in Ids :
          \/ WebhookUpsert(f, e)
          \/ \E d \in Donors : DonorStep(d, f, e)
          \/ \E v \in Verifiers : VerifierStep(v, f, e)
    \/ \E p \in Pollers : PollerStep(p)
    \/ \E r \in Requests : Abort(r)

Spec == Init /\ [][Next]_vars

-----------------------------------------------------------------------------
(* Properties. *)

(* Every variable has its type; the donor list never outgrows its cap, in the
   collection or in a request's copy of it. *)
TypeOK ==
    /\ status \in [Fundraisers -> {"absent", "approved", "flagged", "closed"}]
    /\ active \in [Fundraisers -> BOOLEAN]
    /\ version \in [Fundraisers -> Nat]
    /\ unchecked \subseteq Fundraisers
    /\ raised \in [Fundraisers -> Bag]
    /\ taxCollected \in [Fundraisers -> Bag]
    /\ recentDonors \in [Fundraisers -> DonorList]
    /\ pledge \in [Fundraisers -> [Ids -> {"none", "form", "chain", "foreign", "webhook"}]]
    /\ stage \in [Requests -> Stages]
    /\ target \in [Requests -> Targets]
    /\ draft \in [Requests -> [raised : Bag, version : Nat, recent : DonorList]]
    /\ left \in [Pollers -> SUBSET Fundraisers]
    /\ batch \in [Pollers -> SUBSET Keys]
    /\ aborts \in 0 .. MaxAborts

(* However requests interleave, abort or overwrite each other, no external id is
   in `raised' twice and none is there without its Pledge: measured against the
   Pledge collection the total may be too low, never too high. *)
RaisedNeverOverstated ==
    \A f \in Fundraisers, e \in Ids :
        raised[f][e] <= (IF pledge[f][e] = "none" THEN 0 ELSE 1)

(* The strengthening that makes RaisedNeverOverstated, FormCreditKept and
   ChainExactWithoutForms inductive.  A request of pledge.ts between its insert
   and its save owns its pledge, ... *)
Booking(d, f, e) == stage[d] \in {"load", "save"} /\ target[d] = <<f, e>>
PendingInv ==
    \A d \in Donors, f \in Fundraisers, e \in Ids :
        Booking(d, f, e) =>
            /\ pledge[f][e] = "form" /\ raised[f][e] = 0
            /\ \A c \in Donors : Booking(c, f, e) => c = d
(* ... and the copy it holds counts no pledge twice, none whose request has yet
   to save, and, unless the version check was once left out or will reject this
   copy, all that were saved. *)
DraftInv ==
    \A d \in Donors, f \in Fundraisers, e \in Ids :
        stage[d] = "save" /\ target[d] = <<f, e>> =>
            /\ draft[d].version <= version[f]
            /\ \A x \in Ids :
                  /\ draft[d].raised[x] <= (IF pledge[f][x] = "none" THEN 0 ELSE 1)
                  /\ (\E c \in Donors : Booking(c, f, x)) => draft[d].raised[x] = 0
                  /\ /\ f \notin unchecked /\ draft[d].version = version[f]
                     /\ pledge[f][x] = "form"
                     => draft[d].raised[x] = raised[f][x]
LedgerInv == RaisedNeverOverstated /\ PendingInv /\ DraftInv

(* taxCollected, which only createPledgeAtomic writes, always holds the tax of
   exactly the pledges it recorded in the fundraiser's currency, whatever the
   concurrent saves of pledge.ts and invite.ts do to the same document. *)
TaxExact ==
    \A f \in Fundraisers, e \in Ids :
        taxCollected[f][e] = (IF pledge[f][e] = "chain" THEN 1 ELSE 0)

(* recentDonors and `raised' are written apart by two code paths but, as long as
   every save is checked, stay two views of one history: as many donors listed as
   donations counted, up to the cap, none listed twice and none not counted. *)
RecentMatchesRaised ==
    \A f \in Fundraisers \ unchecked :
        LET counted == {e \in Ids : raised[f][e] # 0}
            names == {recentDonors[f][n] : n \in DOMAIN recentDonors[f]}
        IN /\ names \subseteq counted
           /\ Cardinality(names) = Len(recentDonors[f])
           /\ Len(recentDonors[f]) =
                 IF Cardinality(counted) > DonorCap THEN DonorCap ELSE Cardinality(counted)

(* A donation made through pledge.ts and counted stays counted, until the first
   save of its fundraiser that changes no string of the donor list: a checked save
   bumps __v, so no later one computed from an older copy can replace it. *)
FormCreditKept ==
    [][\A f \in Fundraisers, e \in Ids :
          f \notin unchecked' /\ pledge[f][e] = "form" /\ raised[f][e] = 1
             => raised'[f][e] = 1]_vars

(* The credit of an on-chain donation is lost only to pledge.ts: as long as a
   fundraiser has no pledge made through the form, `raised' holds exactly the
   on-chain pledges in its currency. *)
ChainExactWithoutForms ==
    \A f \in Fundraisers :
        (\A e \in Ids : pledge[f][e] # "form") =>
            \A e \in Ids : raised[f][e] = (IF pledge[f][e] = "chain" THEN 1 ELSE 0)

(* Said of the code: verifying a transfer in the fundraiser's currency increments
   its raised amount "atomically" (FUNDRAISERS.md:20, pledgeService.ts:42), so a
   recorded one is in the total. *)
ChainCreditKept ==
    \A f \in Fundraisers, e \in Ids : pledge[f][e] = "chain" => raised[f][e] = 1

(* Said of the code: "if created, increment fundraiser raised amount" (pledge.ts:32),
   so a form donation once counted is not taken back by another one. *)
FormCreditNeverLost ==
    [][\A f \in Fundraisers, e \in Ids :
          pledge[f][e] = "form" /\ raised[f][e] = 1 => raised'[f][e] = 1]_vars

(* Said of the code: a Pledge is idempotent in its transaction hash
   (FUNDRAISERS.md:20), so one transfer is in the total once at most. *)
TransferCountedOnce ==
    \A f \in Fundraisers, e1, e2 \in Ids :
        /\ e1 # e2 /\ Lower[e1] = Lower[e2]
        /\ pledge[f][e1] = "chain" /\ pledge[f][e2] = "chain"
        => ~(raised[f][e1] = 1 /\ raised[f][e2] = 1)
=============================================================================
