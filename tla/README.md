# BlockPages411 in TLA+

BlockPages411 (`src/blockpage411`) is a Next.js application over MongoDB and
Redis: a directory of crypto wallets with flags, ratings and reports, and a place
to raise money for a wallet. Every API handler is a serverless function; several
run at once, in several processes, and the only things they share are the
database, Redis and the outside services. The code takes no locks except one. What
can go wrong is therefore what happens between two `await`s, and that is what
these modules model: **one action per database operation or answered call**, any
number of requests interleaved, requests that die half way.

## 1. Inventory

| Part | State it keeps | Operations | What makes it correct |
|---|---|---|---|
| **Pledge ledger** `pages/api/fundraisers/*`, `pages/api/poller/run.ts`, `lib/pledgeService.ts`, the webhook | `Fundraiser` (status, active, raised, taxCollected, recentDonors, circle, `__v`), `Pledge` (unique on fundraiserId + externalId) | donate by form, verify a transfer, poll the chains, webhook upsert, approve / flag / close, invite | a donation is recorded once and is in the total once; total, tax and donor list agree with the pledges |
| **Alert outbox** `lib/slack.ts`, `admin/alerts/retry.ts`, `scripts/alert-retry-worker.ts` | `Alert` (status, attempts) | persist, find waiting, post, note the attempt, give up | sent means received; attempts are bounded; nothing waits forever unseen |
| URL audit `pages/api/url/*`, dynamic worker | `UrlAudit` (score, reasons, `signals`) | audit, enqueue, worker's callback | a result is applied once and not overwritten; alert on crossing the threshold |
| Wallet flags, ratings, scan `flag/add.ts`, `flags.ts`, `ratings.ts`, `scanSuspicious.ts`, admin handlers | `Wallet` (flags, flagsCount, blacklisted, suspicious, ratings, avgRating), `Flag`, a Redis lock | flag, rate, blacklist, dismiss, delete, scan | counts agree with the documents; limits hold; one scan at a time |
| Reports and promotion `reports/index.ts`, `lib/autoPromote.ts` | `Report`, `Provider` counters | report, dismiss, promote | counters agree with reports |
| Provider importer `lib/importerCli.ts`, `lib/importProviderHelper.ts` | a checkpoint file, `ProviderWallet` | import in batches, time out, retry, resume | every item imported; nothing skipped on resume |
| Giving Block client `services/givingBlockService.ts` | cached access and refresh tokens | log in, refresh, authorised fetch | a refresh does not undo another's; one retry |
| RPC circuit breaker `services/provider.ts` | failures and openedAt per URL | call with time-out, retries, open / half-open | opens under failure, recovers after it |
| Login `auth/nonce.ts`, `auth/verify.ts`, `app/login/page.tsx` | nonce (cookie, User, page) | issue, sign, verify, try again | a stale nonce does not fail a login for good |
| Connection and limits `lib/db.ts`, `lib/*ateLimit.ts`, `lib/adminMiddleware.ts` | the cached connection and its promise, counters with a TTL | connect, count | a failed attempt is not remembered; a window ends |
| KYC and profile `kyc/*`, `me.patch.ts`, `profile/*`, `donation-request.ts`, `follow-wallet.ts`, `app/profile/edit/page.tsx` | User and its lists, Wallet mirror, the editor's draft | challenge, verify, review, edit, follow, autosave | locked fields stay; limits hold; the mirror is justified; what is shown was saved |
| Verification, appeals | User, EmailVerification | request, confirm, review | a token is used once |
| Live feed `components/LiveFeed/LiveFeed.tsx` | sockets, queues, a buffer with its timer, the list | announce, look up, poll, flush, reconnect | a transaction is listed once |
| Scoring, charities, search, the rest of the UI | caches, none | read, compute, render | not modelled (see 11) |

How they interact: the poller calls the circuit breaker (through the detector),
`createPledgeAtomic` and `sendPollerAlert`; reports mirror into `Wallet.flags`,
which the scan reads; KYC mirrors into `Wallet`; flags feed scores. Cron starts the
poller, the alert retries and the scan; nothing keeps two of those runs apart except
the scan's Redis lock.

Hard behaviours: read-modify-write of documents across awaits, with and without
mongoose's version check; check-then-insert; two writes that are not one
transaction; overlapping cron runs; answers lost after the effect; retries.

## 2. Plan

In this order, most important first; items marked (done) exist.

1. (done) `PledgeLedger`, with `OnchainLedger` refining `IdempotentLedger`, and
   their proofs `PledgeLedgerProofs`.
2. (done) `AlertDelivery`: the outbox.
3. (done) `WalletFlags`: the embedded flags under concurrent users and admins, with
   `WalletFlagsProofs`.
4. (done) `UrlAudit`: request, worker and callback of one audit; `UrlAuditProofs`.
5. (done) `Importer`: batches, time-outs, checkpoint and resume; `ImporterProofs`.
6. (done) `TokenRefresh` and `ProviderCircuit`: what the requests of one process share;
   `SharedConnection` and `RateLimits` of the same kind.
7. (done) `WalletStatus`: Flag documents against flagsCount, blacklisting, the scan under
   its Redis lock, the cached page; `WalletRatings`: ratings and their average.
8. (done) `UserIdentity` and `UserLists`, two halves of a user's document, with
   `UserProofs`; `Outreach`: reports, their counter and promotion; `LoginNonce`;
   `ProfileEditor` and `LiveFeed`, the two pages that keep state.
9. (done) `DocumentsProofs` and `ServicesProofs`: the two compositions, with what remained
   to be proved of their components.
10. (open) `scripts/poller.ts` as a further actor of `PledgeLedger`.

Composition: `MCDocuments` and `MCServices` put the components of 4 to 8 into two
specifications (sections 6 and 7), which are shown to implement those of the components
with proofs of their own. The abstract specification is `IdempotentLedger`; the other
components promise single facts, which are stated as properties.

## 3. Pledge ledger

### Modules and code

* `PledgeLedger` has a slot for each concurrent request: `Donors` run `pledge.ts`,
  `Verifiers` run `verify-onchain.ts`, `Pollers` run `poller/run.ts`, `Inviters` run
  `invite.ts`. `stage[r]` is where in its handler the request is. The webhook, the
  admin's actions and the creation of a fundraiser are single database operations
  and so single actions.
* Sums: `raised[f]` is the multiset of ids whose amounts are in the number, so that
  "lost" and "counted twice" can be told apart. A save computed from an old copy
  replaces the multiset by the old one plus the new id, exactly what it does to the
  number. `taxCollected` likewise.
* `pledge[f][e]` says whether a Pledge exists and who inserted it; amounts, donors,
  raw payloads and the response texts are not kept.
* Ids come with their spelling: `Lower[e]` is the lower-case form the poller uses;
  `verify-onchain.ts` keeps what the donor typed.
* The chain: `Pays` are the transfers that pay a fundraiser's wallet, `Matching`
  those whose token symbol is the fundraiser's currency. Both are constants. An
  explorer may show any rows and a look-up may fail at any time; what they really
  show and find is added in `OnchainLedger`, below. The token's symbol may not be readable, in which case
  the detector passes the contract's address as the currency (`services/evm.ts`
  42-43) and a matching transfer is recorded uncounted: `RecordOnce`'s last disjunct.
* External code: MongoDB and mongoose. The pledge's unique index makes the insert
  atomic. `createPledgeAtomic` is one transaction: it takes effect at once, or not at
  all if it throws (`PollerSkip`, `Abort`). `save()` writes the changed paths; when a
  whole array was assigned (`recentDonors` in `pledge.ts`, `circle` in `invite.ts`)
  mongoose adds the version read to the filter and bumps it, and a save that finds
  another version throws `VersionError` (`Unmodified`, `DonorConflict`). `updateOne`
  with `$inc` or `$set` neither checks nor bumps it; that asymmetry is what the two
  code paths fight over. Assigning an array equal to the one read modifies nothing:
  `EntryOf` gives the string listed for a donation (donors who leave the same name and
  amount share it), `Relists` says whether pushing it changes a list, and a save
  that does not relist writes the total without the check. `unchecked` remembers which
  fundraisers that happened to; no guard reads it.
* `Abort`: the function is killed or an await throws; what was written stays.

An invite re-sending the same circle assigns an array that mongoose finds equal and
so does nothing; only a save that changes something is modelled. `Administer` acts
on an existing document only, an update of a missing one changes nothing.

`IdempotentLedger` is what the on-chain path promises: an id is recorded once,
counted in the same step or never. `OnchainLedger` maps the pledge collection and the
total to it, and says what the poller can learn from outside:

* An explorer shows a window of a wallet's newest transactions (`listed`, `WindowMoves`),
  all of it or nothing. Solscan and Tronscan are asked for ten rows (`solscan.ts:17`,
  `tronscan.ts:19`), so a transfer is gone once ten newer ones follow between two
  runs. The window may hold nothing at all: fundraisers of Polygon and BSC are looked for
  at Etherscan's Ethereum endpoint (`run.ts:23-24`), whose `txlist` has no token
  transfers either. No route writes a fundraiser's `chain` and its schema has none, so
  that today every one is polled as Ethereum.
* The detector is asked for the id in lower case (`run.ts:51`). A Solana signature is
  base58 and case-sensitive, and the node is asked for exactly that string
  (`solana.ts:6`, `46`): of the fundraisers in `exact` only an id that is all lower case
  is `Traceable`. A look-up of any other never succeeds.
* A listed Bitcoin transfer is recorded with the amount 0 (`run.ts:60`); amounts are not
  modelled, so it counts as recorded.

### Runs

| Run | Instance | Shows |
|---|---|---|
| `pledge_ledger` | one fundraiser; a transfer under two spellings, a foreign one; two donors, a verifier, an inviter; all under the same entry; cap 2; one abort (528 356 states) | `RaisedNeverOverstated`, `TaxExact`, `RecentMatchesRaised`, `ChainExactWithoutForms`, `FormCreditKept` |
| `onchain_ledger` | two overlapping pollers, a verifier, one abort; the window moves, the id may be case-sensitive (47 152 states) | `ImplementsLedger`, and under fairness `PolledTransferRecorded` |
| `lost_credit` | one donor, one verifier | `ChainCreditKept` is violated |
| `same_donors` | two donors, three donations under the same entry, cap 1 | `FormCreditNeverLost` is violated |
| `spelling` | a verifier and a poller | `TransferCountedOnce` is violated |

Bounds. Two form donations are what the version check is about, a verifier is what
escapes it, and an invite bumps the version without touching money; with three ids and
a cap of two the donor list overflows, which is where the slicing matters (the code's
cap is ten) and where, the entries being equal, a save goes unchecked. `MaxVersion` stops only the invites, which otherwise bump `__v` without
end; `MaxAborts` bounds crashes. Fundraisers do not share state, one suffices. The two
donor slots are interchangeable in the safety run, hence its symmetry; the temporal run
has none.

Fairness (`OnchainLedger!FairSpec`): cron keeps starting a run, an await with an
answer resumes, an explorer asked over and over shows its window in the end, and a node
confirms in the end what it can trace (strong fairness of these two steps, the second
for `Traceable` ids only). Nothing is assumed of the window, of users, the admin, or the
payment processor. So `PolledTransferRecorded` promises only this: a traceable transfer
that stays in the window of its explorer, to a fundraiser that stays active, is
recorded. Every other transfer may be missed for good, and the specification has
behaviours in which it is. The poller of `poller/run.ts` polls flagged fundraisers too;
polling only approved ones breaks the property.

`RaisedNeverOverstated` and its like are about ids. The webhook's rewriting of the
amount of a pledge it finds (`givingblock.ts:148-161`) is outside them.

### Findings

1. `lost_credit`. Form donation: reads total 0. Verifier: credits 10 with `$inc`. Form
   donation: saves 0 + 5. The 10 are lost; the save is not rejected because `$inc` did
   not bump `__v`. `ChainExactWithoutForms` and `FormCreditKept` say how far the damage
   goes: never without the form, and never to an earlier form donation as long as
   saves are checked.
2. `same_donors`. Ten donations of 5 by "Anonymous" are listed and two more arrive
   together. Neither changes the list, so neither save carries the version; both write
   the old total plus 5.
3. `spelling`. A transfer verified under a mixed-case hash is recorded again by the
   poller in lower case, and counted twice.

### Proofs

`PledgeLedgerProofs` proves for every set of fundraisers, ids and requests, every cap
and every bound:

* `TypeCorrect`: `Spec => []TypeOK`.
* `NeverOverstated`, `FormCreditIsKept`, `ChainExact` from the inductive invariant
  `LedgerInv`. `RaisedNeverOverstated` alone is not inductive: `DonorSave` adds to
  whatever its draft holds. `PendingInv` says that a request between insert and save
  owns its pledge alone and that it is not yet counted, `DraftInv` that a draft counts
  nothing twice, nothing whose request has yet to save and, if its version is still
  current and no save went unchecked, every form pledge that was saved. The lemma
  `SaveEffect` says what either kind of save does; `NoDonorMoves` and `Undisturbed` dispose of the
  steps that leave the donors alone.
* `TaxIsExact`: inductive by itself with the types; `RecordOnceTaxes` is its core.

It ends with `OnchainImplements`: with `Donors = {}`, `OnchainSpec` implies
`ImplementsLedger`, by step simulation (the lemma `OnchainIsLedger`: a step of it is one of
`PledgeLedger` or moves the window only). The premise is the honest scope of the
claim, since with the form the counted set can shrink.

Assumptions: `LowerAssumption` (lower-casing is idempotent), `TransferAssumption`
(transfers are of fundraisers and ids, matching ones pay), `SlotAssumption` (the slots of
the four handlers are disjoint), `EntryAssumption` and
`BoundAssumption`. TLC evaluates them in every run.

* `RecentIsRaised`, for finitely many ids: `RecentMatchesRaised` is about the document
  only, so `RecentInv` says the same of every copy a donor holds. `View` relates a total
  and a list without cardinalities: the list names counted donations only, none twice, and
  all of them until it is full. Counting and listing together keep it (`PushViews`), so a
  save takes `View` of a copy to `View` of the document.

Model-checked only: `PolledTransferRecorded` (liveness under fairness, out of the prover's
reach).

## 4. Alert outbox

### Module and code

`AlertDelivery`: `sendPollerAlert` persists the alert and returns (what follows its
`return` in `lib/slack.ts` cannot be reached; without a webhook configured it returns
before persisting). A worker is a run of `/api/admin/alerts/retry` or of
`scripts/alert-retry-worker.ts`, which differ in the batch size only. It queries once
(`FindWaiting`), then takes each alert through `resendAlert`: `Load`, post, save, and so
on round the loop. `doc` is the copy in memory and `synced` what the copy looked like
when last read or saved: `save()` writes only what differs, and no version check
applies as no array is assigned. The back-off is time and adds no state. `tries`,
`received` and `shared` are history variables for the properties; no guard reads
them.

Faults (`MaxFaults`): a post with no answer that may or may not have arrived, a save
that fails, a run that dies. A refused post is ordinary and unbounded.

### Runs

| Run | Instance | Shows |
|---|---|---|
| `alert_delivery` | two alerts, two overlapping runs, batches of one, three attempts, one fault (424 781 states) | `SentWasReceived`, `RetryBudget`, `GivenUpWhenExhausted`; `RetriesEnd` under fairness |
| `alert_stuck` | one alert, one run, one fault | `PendingIsRetried` is violated |

Bounds. Two runs are the overlap; two alerts with batches of one make the queue
longer than a batch; three is the code's default of attempts. `RetryBudget` and
`GivenUpWhenExhausted` are about alerts that were never in two runs' hands at once: for
the others the code promises nothing, since each run writes its own count. With two
runs the sum of posts may reach twice the maximum. The bound allows one more post for
every fault, of whatever kind: an unanswered post is a fault although its attempt is
counted, so the bound is not tight there.

Fairness: weak fairness of each run's ordinary steps. Cron repeats, and a function that
is not killed continues. Slack may refuse for ever. `RetriesEnd` holds with that alone.

### Finding

4. `alert_stuck`. The last attempt's save and the save of `failed` are separate. A run
   that dies in the back-off between them (or whose last save throws) leaves the alert
   `pending` with all attempts used, which no query finds.

### Proofs

`AlertDeliveryProofs`, for any number of alerts, runs, attempts, faults and any batch:
`TypeCorrect`, `SentIsReceived`, `BudgetKept` and `GivenUp`. None is inductive, for what is
stored next is in a run's memory. `AlertInv` adds:

* `RunOK`: what a run has in hand exists, and a copy marked sent was accepted by Slack;
* `Alone`: two runs hold the same alert only if it is in `shared`;
* `CopyOK`: the copy of an alert not shared is in step with the database, and its count is
  the one the run's loop goes on from;
* `AlertOK`: the posts of such an alert exceed the attempts written down by the faults and,
  while a run is between post and save, by one more.

`TypeOK`, and with it `TypeCorrect`, says besides the types that no run ever has more
alerts to come than a batch (`BatchSmall`, `BatchStep`): the batch is cut off the list of
waiting alerts once and from then on only shrinks.

Assumption: `SizeAssumption` (the numbers are naturals, at least one attempt). `RetriesEnd`
is model-checked only.

## 5. Wallet flags

### Module and code

`WalletFlags`: a wallet document has a list of embedded flags that four kinds of
request write. `Flaggers` run `pages/api/flags.ts` (find or create the wallet, count the
user's flags of today over all wallets, push, save), `Reporters` the mirroring part of
`pages/api/reports/index.ts`, `Moderators` either `admin/dismiss-wallet-flag.ts` or
`admin/reports/[id]/dismiss.ts`, which load the wallet, take flags out of the list in
memory and save the list. Removals by `$pull` (`admin/dismissFlag.ts`,
`admin/remove-moderation-item.ts`: `Pull`) and the deletion of a wallet are single
operations of the database.

* mongoose: saving a `push` sends `$push` and bumps `__v` without checking it; saving a
  spliced or assigned list sends the list, checks `__v` and bumps it; `updateOne` with
  `$pull` does neither. Every save names the document's `_id` (`born`): one for a wallet
  that was deleted, and perhaps created again, throws (`Current`).
* A flag is an id, its user and whether it mirrors a report. The list is a set: the order
  only says which flag an index means, and an admin may mean any. `dismissFlag.ts` finds a
  wallet by its lower-case address on whichever chain comes first; `Pull` allows any.
* Other saves of a wallet (ratings, reviews, the scan) write other fields. They can bump
  the version and so reject an admin's save, nothing more; they are left out.
* A request that dies (`Abort`) frees its slot and leaves what it wrote; nothing bounds how
  many do, since none of it grows.
* Two more routes change no flag the model keeps. `flags/hideFlagComment.ts` blanks the
  comment of one flag, named by its position in the copy; comments are not kept.
  `flags/deleteFlag.ts` calls `.remove()` on a subdocument, which the installed mongoose
  (8.20.1) no longer has: it throws before its save.

### Runs

| Run | Instance | Shows |
|---|---|---|
| `wallet_flags` | one wallet, one user, two flag requests at a time, a report, an admin; limit 1, three flags, two births (1 719 737 states) | `FlagsKept`, `DailyOverrun` |
| `flag_returns` | the same without the report | `DismissedStaysGone` is violated |

Bounds. Wallets share nothing but the daily count, and with one user both flag requests
compete for the same limit, so one of each is the hardest case. Two births allow a
deletion and a new document under an older request; three flags allow the limit to be
passed by one flag and a mirrored one besides. A second user or wallet multiplies the
states without a new interaction; the theorems below cover them.

### Finding

5. `flag_returns`. Admin A's request loads flags 1 and 2 to dismiss 1; admin B removes 2 by
   `$pull`; A's save of the list {2} passes the version check, for `$pull` left `__v` alone,
   and flag 2 is back.

### Proofs

`WalletFlagsProofs`, for any wallets, users, requests, limit and bounds: `TypeCorrect`,
`FlagsAreKept` and `OverrunIsBounded`.

* `FlagsKept` is inductive together with `SaveInv`: a list that may still be saved (same
  `_id`, same version) differs from the stored one only in flags that were pulled
  meanwhile. A push makes every older copy stale (`SaveStale`), a deletion or a new
  document makes it dead (`SaveDead`), and everything else leaves it as it was
  (`SaveSame`).
* `DailyOverrun` needs `OverrunInv`, in which a request that passed the check counts as if
  it had pushed: it may move from the one set to the other (`PushOverrun`), join when the
  user is below the limit, and otherwise both sets only shrink (`ShrinkKeeps`). A push must
  not bring an old flag into today, hence `FreshInv`: ids are given out in order; and a
  stale save must not bring back more than pulled flags, hence `SaveInv` again.

Assumptions: `SlotAssumption` (the slots of the three kinds of request are disjoint, the
flaggers finitely many) and `LimitAssumption`.

## 6. Writers of the User document and its neighbours (`MCDocuments`)

Five components in which requests load a document, decide from the copy and save it, and
a sixth, `LiveFeed`, in which callbacks of one page write one list. They share no state
with one another, so `MCDocuments` runs them side by side: `focus` names the one that
moves, the state space is the union of theirs, and one run explores all. `UserIdentity`
and `UserLists`, two halves of a user's document that no request connects, are extended,
so that the properties checked are word for word the ones proved; the others are
instances.

### Modules and code

* `UserIdentity`: `verify/email/request.ts` and `confirm.ts`, `me.patch.ts`, `profile/*`,
  `kyc/*`, the KYC webhook and `admin/kyc-status.ts`. A request reads the user and fixes what
  it will write (`held`); `todo` are the awaits it has left, in the order link, user, mirror,
  mail or unlink. `Changed` is mongoose's save, which writes only the fields that differ
  from the copy read; `Update` is `findOneAndUpdate`. A write fails silently where the code
  catches it and ends the request where it does not (`Fails`). Signatures, mail and the
  KYC provider are external: a signature that matches is one that is given.
* `UserLists`: followed wallets, donation requests and the copies of fundraisers embedded in
  User. An assigned or `unshift`ed list is saved whole and version-checked, a `push` is
  merged and bumps, `findOneAndUpdate` does neither. Each list is its ids; a followed wallet
  its number of entries. A save that mongoose rejects leaves everything.
* `Outreach`: `POST /api/reports` (report, then `$inc` of the provider's counter) and the
  admins' promotion, an aggregate followed by a load and a save. A report is its reporter;
  the reports are a sequence, of which the aggregate counts the length and the different
  reporters.
* `WalletRatings`: `ratings.ts` against the moderator's `$pull`. The average is kept as the
  fraction it divides. A change in place names an array position and is version-checked, a
  push is not, `$pull` bumps nothing. Ghosts (`fresh`, `lone`) mark a rating no other write
  came between.
* `ProfileEditor`: the page `app/profile/edit/page.tsx`: the form, the server's values as the
  page believes them, the draft in `localStorage`, the single autosave timer, the button.
  A photo, uploaded or removed, is saved at once (`Photo`); a removal that fails is put
  back (`PutBack`). Requests arrive and are answered in any order, get lost, and survive
  the page when it is left by the application's own navigation; so do a pending timer
  and an upload, which send later (`orphans`), also under a page that was opened again
  meanwhile. A profile that cannot be loaded is shown as an empty form (`OpenBlank`).
  The route stores what its schema knows, as it sees fit: `Stripped` are the fields it
  drops (`donationWidgetEnabled`), `Stored` is what it makes of a field (`udDomain` in the
  spelling verified, `phoneApps` taken apart and trimmed), and its answer is not read.
  `Inputs` are the words a control can produce. The other writers of the document are
  those of `UserIdentity` and not repeated here.
* `LiveFeed`: `components/LiveFeed/LiveFeed.tsx`. Sockets, their queues and look-ups, a
  polled network, the buffer with its timer, and React, which runs the function given to
  `setTxs` at once or at the next render, when the buffer it reads has changed
  (`FlushAtOnce`, `FlushLater`, `Render`). A flush sorts the list and what is new by time
  and value, which the model does not keep: any order may result (`Merge`), and with it any
  choice of what is cut. One list stands for the networks of a page, and what nothing reads
  after the page was left is dropped in `Unmount`.

### Runs

| Run | Instance | Shows |
|---|---|---|
| `documents` | two requests at a time (symmetric); one e-mail, handle and link; one wallet to follow, three list items; two reporters, two raters, scores 1 and 5; two typed fields, one of them rewritten by the route, a picked one it strips, a photo, two changes and two requests; three transactions, a list of two, a second socket (1 643 303 states) | the properties below |
| `email_unconfirmed` | two requests, two e-mails, two links | `RequestedUnverified` is violated |

* `LateEditsBounded`: the profile's routes refuse the locked fields of a verified user, but
  an edit of the e-mail or the handle under way when the user is verified is still
  written. No more than that: there are fewer such late edits than requests. It is about
  these routes only. `verify/email/request.ts` and `confirm.ts` know no lock, although
  the e-mail is one of the fields the routes lock ("KYC lock: once verified, freeze
  sensitive fields", `me.patch.ts:141`; `KYC_LOCKED_FIELDS`, `profile/index.ts:69`), so a
  verified user's e-mail goes on changing without bound; `RequestLink` has no such guard
  either, and nothing here claims otherwise.
* `WalletKycJustified`: a wallet shown as verified has a verified user or an admin's word.
* `FollowedOnce`, `CopiesKept`: what the version check saves; `DonationOverrun`: what it does
  not, since a push is merged: two requests both pass "at most one active".
* `CounterNeverAhead`, `PromotedDeserved`: the counter and the decision against the
  reports, across awaits that fail.
* `AverageHeals`: concurrent raters leave a wrong average; the next undisturbed rating
  repairs it.
* `SavedWhatIsShown`: after a successful save and with no request on its way, the profile
  holds what the page shows, as the route stores it, in the fields the route knows; also
  when an autosave was dropped for the next field's or is still to be made, or a photo
  was put back. It does not say that the two are equal: of a field that is stripped or
  rewritten the page goes on to show what it sent.
* `ListedOnce`: a transaction enters the list once, although an abandoned socket goes on
  announcing it, a batch holds it twice, or the list was cut and it comes again.

Bounds. The hazards are pairs: two requests on one document, of which one read before the
other wrote. Three versions, items or ratings let a third write come between. A list
of two with three transactions is cut; one error gives the second socket. In the editor
two changes and two requests make any pair of an autosave, a photo, a save, and what an
earlier page left behind. A second e-mail
is needed for the finding only, which has its own run.

There is no fairness here, nothing in these components is promised in time; requests end
and the bounds are reached, so `CHECK_DEADLOCK` is off.

### Finding

6. `email_unconfirmed`. A link for the address a was mailed. Request 2, for the address b,
   reads the user: not verified. The link of a is opened: a, verified. Request 2 saves b;
   `emailVerified` is false in its copy already, so the save does not write it, and b
   stands as verified though no link of b was opened. The comment at
   `verify/email/request.ts:34` promises the opposite. The property is about this
   route's save, the step the counterexample ends with: a save of the profile's
   routes, which sets the e-mail and never touches `emailVerified`
   (`profile/index.ts:200-233`), is promised nothing by that comment and is no part of it.

### Proofs

* `UserProofs`, of `UserIdentity` (`SizeOK`: `MaxLinks` a natural, finitely many requests):
  `IdentityTypes`, `LateEditsStop`, `MirrorJustified`. `IdentityInv` adds what the requests
  hold: `WritesOK` (a mirror that will be marked verified has its reason, which may be an
  earlier step of the same request) and `FrozenOK`: the edits made late and the requests
  still going to make one (`Editing`) are together fewer than the requests, because the one
  that verified the user is not among them.
* `UserProofs`, of `UserLists` (`MaxItems` a natural; for donations finitely many writers):
  `ListsTypes`, `NeverFollowedTwice`, `CopiesAreKept`, `DonationsBounded`. `SeenInv` says that
  a copy whose version is current is current, which versions that only grow preserve;
  `DonationInv` counts a request that passed the check as if it had pushed.
* `DocumentsProofs`, of the composition and the four components that are instances in it,
  under `DocumentsAssumption`, which TLC evaluates in both runs. `ComponentSteps` shows that a
  step of the composition is a step or a stutter of every component; from it
  `ComponentsImplemented` (`DocumentsSpec => Spec /\ ListsSpec`, so that the theorems of
  `UserProofs` hold of what the run explores) and `DocumentsTypes`, and:
  * `CounterLags`, `PromotionDeserved` from `PromotionInv`: a request about to promote or to
    save found a candidate, which it stays, for reports are only added (`MoreReports`); the
    counter's bound is one over cardinalities, where a request between report and increment
    moves from one side to the other (`UncountingShrinks`).
  * `AverageRight` from `RatingsInv`: a fresh request's copy is the document, so what it saves
    is the mean of what it saves (`SaveRating`). That a sum of scores is a number is the one
    fact about recursive data proved here: `Total` is a recursive function, it exists because
    the partial sums do (`SumsExist`), and it is a natural because there is no least place
    where it is not (`Least`, by the well-foundedness of `<`, so that no induction theorem with
    an operator parameter is needed).
  * `SaveShown` from `EditorInv`, whose heart is `Settled`: while nothing disturbed the page
    since it was opened, no two of its requests set a field differently, the profile holds
    of a field what the route makes of what the page believes, unless a request that was
    done and not yet answered has set it, and after a save what it shows is what it
    believes. The timer's change is always the one that is shown, and what a failure puts
    back is a photo, which no timer is about to send (`PhotosBack`).
  * `ListsOnce`, an action property, from `FeedInv`: every listed transaction is in `seenRef`,
    which only grows, so a flush takes from the buffer only what is not listed, in one
    place each (`MergeStep`).

## 7. What runs by itself (`MCServices`)

Eight components whose properties include liveness, again side by side under `focus`.
`UrlAudit` and `Importer` are extended, the rest are instances.

### Modules and code

* `UrlAudit`: one audit. The request creates the document, asks the worker with a
  time-out of 1.8 s after which the worker may have accepted all the same, saves the whole
  `signals` object over whatever is there, and alerts if the static score is high. The
  callback loads, saves and alerts, and may be delivered several times. The heuristics
  (`auditUrl.ts`) and the sandbox are a choice of scores.
* `Importer`: `lib/importerCli.ts` and `importProviderHelper.ts`. Batches, attempts, the
  ten-second guard whose abandoned import goes on (`late`, line by line), checkpoint,
  resume, kill. A line names its provider by id (`Direct`), by name or alias (`Named`) or by
  part of a name (`Loose`). When the list of providers cannot be read
  (`importProviderHelper.ts:62-66` swallows the error) names are looked up one by one, and a
  look-up that fails counts as one that found nothing (134-149): the line is left out,
  the batch ends well, and the checkpoint is written past it. `Found` is what look-ups may
  find, `unresolved` the lines of `Named` left out in this way. The index of a checkpoint counts from one for lines and from zero for an array
  (`Mark`). `honest` is no field of the file: it marks checkpoints no dry run had a hand in.
* `WalletStatus`: `flag/add.ts` (insert, count, upsert), the wallet page with its 60-second
  cache, `scanSuspicious.ts` under its Redis lock, the admins. `heavy` stands for "more than
  three embedded flags", which `WalletFlags` models.
* `TokenRefresh`: the shared pair of `services/givingBlockService.ts`. A refresh is of whatever
  pair is cached by then; one answered with an error, whichever, clears it.
* `LoginNonce`: cookie, user document and login page each hold a nonce. A nonce is named by
  the tab that keeps it, all the others are `Spent`; that makes the states finite without
  a bound on logins. A request for a nonce that was aborted or whose answer got lost may
  have been handled: its background write is still to come, and its cookie may have
  arrived (`Unheard`). A cookie that takes the place of a later answer's counts as a
  fault, since the page waits for an answer before it asks again.
* `SharedConnection`: `lib/db.ts`; `ProviderCircuit`: `withProvider` of `services/provider.ts`, each
  concurrent first caller with a state object of its own; `RateLimits`: the limiter in Redis
  (`INCR`, then `EXPIRE`) and the one in memory.

### Run

`services` (125 062 states). Bounds: two callers, tabs, clients, scanners and handlers of
callbacks at a time; three deliveries; a file of four lines, one malformed and one of each
kind of naming a provider, batches of two, two attempts; scores on both sides of the alert limit and a delta that crosses it; a
flag threshold of two; one or two faults of each kind. Liveness is claimed for what
follows the last of the bounded faults, so a larger bound moves that moment and nothing
else. A component whose bounds are used up may stop, hence `CHECK_DEADLOCK FALSE`.

* `AppliedOnce`, `AlertedOnce`, `HighScoreAlerted`: results, alerts and the limit, for late and
  repeated callbacks.
* `CheckpointSound`: what an honest checkpoint has passed is stored: every line that names
  its provider by id, and of those that give a name every one but the lines whose
  look-up failed in a batch that ended well. `RunEnds`.
* `BlacklistTakesEffect`: views that passed the check cache the page once more, and then no
  more. `ScanConverges`: overlapping scans write verdicts in the wrong order, the last
  word is right.
* `TokensRecover`: a stale pair does not stay cached. `LoginGetsThrough`: a tab that goes on
  clicking, with no other tab between, gets in.
* `ConnectsAgain`, `CallsGetThrough`, `WindowEnds`: a failure is not remembered for good,
  except where `EXPIRE` was lost.

### Fairness

Weak, of what goes on without a new decision:

* a function that has begun and is not killed (`RunStep`, `ViewGoesOn`, `CallerStep`,
  `LoginGoesOn`, `CallGoesOn`, `Expire`), the end of an attempt to connect;
* time: `PageExpires`, `Cools`, `Tick`; strong for `KeptAges`, since a tab is not always on its
  page: the age of a kept nonce is looked at by a click, and four minutes pass however
  often it is enabled;
* cron, which begins scans (`ScanGoesOn`);
* for the connection, the circuit and the limits, clients that keep asking. What these
  promise, they promise to requests; without them nothing would be claimed.

Not assumed: that a user clicks (`LoginGetsThrough` and `TokensRecover` have it as a premise),
that an operator imports, that a network call succeeds, or that a lock expires.
`ConnectsAgain`, `CallsGetThrough` and `WindowEnds` have the premise that their component is the
one that runs.

### Proofs

* `UrlAuditProofs` (`ScoreAssumption`: scores, penalties and deltas are naturals):
  `AuditTypes`, `CountsOnce`, `AlertsOnce`, `HighScoresAreTold`. The request's late save can undo
  "completed", so the check at the head of the callback proves nothing. `AuditInv` rests on
  the copies instead: their base is the audit's, so the result gives the same score every
  time (`CopyOK`), and the first save renews the reasons and with them the version, so a copy
  with the old reasons is of an old version (`FirstOK`). `TellOK`: a score that was raised has
  a handler that has yet to say so, or was told.
* `ImporterProofs` (`FileAssumption`: the lines to import are in the file and parse; at least
  one attempt): `ImporterTypes`, `CheckpointIsSound`. `RunInv`: what an honest run has passed is
  settled (`Settled`: stored or, if it only gives a name, left unresolved) or in its batch.
* `ServicesProofs`, of the composition and the six components that are instances in it,
  under `ServicesAssumption`, which TLC evaluates in the run: `ServicesImplemented`
  (`ServicesSpec => Spec /\ ImporterSpec`, with the two assumptions above as consequences of
  this one) and `ServicesTypes`. The types are not inductive by themselves where a number
  would leave its range in a state that is not reached: `WaitersServed` and `LimitsInv` rule
  those out. What the six components promise is liveness; proved is the safe half of it,
  facts about their states that the promises rest on, each a theorem: a token is at hand
  where one is sent (`TokensAtHand`), a nonce that can let a tab in is the one it keeps
  (`NoncesKept`, which also justifies naming nonces by tabs), whoever waits for the connection
  waits for an attempt that runs (`OneAttemptServes`), a circuit opens only for failures that
  were counted (`CircuitOpensForFailures`), a key without a time to live is about to get it or
  its `EXPIRE` was lost (`KeysExpire`). They are conjuncts of `ServicesInv`, not properties of
  the run.

## 8. Noticed on the way

Behaviour the models contain and no document or comment contradicts; no run claims it.

* A verified user's e-mail, a locked field in the profile's routes, is changed by
  `verify/email/request.ts`, and a save of the profile never resets `emailVerified`.
* Of a field that `profile/index.ts` strips or rewrites the editor shows what it sent, until
  the page is opened again; a `donationWidgetEnabled` set there is never stored.
* The poller asks for a Solana signature in lower case, which no node finds.
* A line of an import whose provider could not be looked up is left out like one without a
  provider, and the checkpoint passes it.
* `hideFlagComment.ts` blanks the comment at the position the flag had when it was read.
* Dry imports write the checkpoint, and a real import resumed from it skips what they read.
  `ProviderWallet` has no unique index.
* The Wallet schema has no `transactions`, so the freshness check of the wallet page never
  succeeds and every uncached view fetches. `flagsCount` can stay behind until the next flag.
* `uniqueReporters` is never incremented: the look-up for an earlier report by the user finds
  the one just made.
* `createdAt` of a donation request is not in the schema, so none expires. The pushes to
  `profileUpdateHistory` in `pages/api/profile/index.ts` are not saved, so the limit of edits
  does not count there.
* A removed rating leaves `avgRating` and shifts positions without bumping the version: a
  rating changed in place at that time hits another's.
* After "Signature does not match" the login page signs the same kept nonce again, until it
  is four minutes old.
* The failures of the circuit breaker are never reset, and a caller's own state object can
  take the place of an open one.
* A blank draft blanks the fields of the profile editor, all but the avatar's.
* The live feed: a timer that fires with an empty buffer returns before `flushTimeout` is null
  again (line 110), and a poll that found nothing large sets that timer: from then on nothing
  is flushed (`FlushNothing`). A batch whose function React runs at the render is lost, for
  the buffer was emptied (line 142). A socket whose `connectNetwork` resumes after the page was
  left is never destroyed (`Connect`). Reconnects are counted and never given back.
* A webhook whose upsert fails is answered 200 (`givingblock.ts:166`).

## 9. Reading the project

Each `MC*.tla` gives the constants of a run, each `.cfg` is one run. Operators named
like a plausible bug (`DonorUpdate`, `RecordTaxFirst`, `NewToList`, ...) stand
beside the definition they alter; put in its place they break the property
`PROJECT.json` names with them, which shows that the property watches that code. They
are part of no specification. `PROJECT.json` also maps every definition to its lines.

The models share a vocabulary. A *copy* (`draft`, `seen`, `held`, `copy`, `doc`) is what a
request read; a *ghost* or *history* variable is read by properties only; `Abort`, `Kill`,
`Crash` are the end of a function in the middle; a constant `Max...` described as a bound
limits the run and nothing in the code.

## 10. What is proved and what is only checked

Proved for all values of the constants: every invariant that a run which passes checks,
of all components, with the types; the refinement of `IdempotentLedger` by `OnchainLedger`;
the action property `ListedOnce`; and that the two compositions implement the
specifications of the components they extend.

Checked on the instances only: liveness, that is `PolledTransferRecorded`, `RetriesEnd` and
the eight properties of section 7 from `RunEnds` to `WindowEnds`, since neither fairness nor
`ENABLED` is in the prover's reach. The six runs that expect a violation show a
counterexample, which needs no proof.

The proofs assume of the constants what the modules' `ASSUME`s say, or the hypothesis written
in the theorem (`SizeOK`, `ScoreAssumption`, `FileAssumption`, `MaxItems \in Nat`), which the
`ASSUME`s of `MCDocuments` and `MCServices` imply. Of the sequence operators the models take
from the community modules they use the definitions.

## 11. What is not modelled

* The pages under `app/` and `components/`, which are most of the lines: markup and
  fetch-and-render, with no state beside what the last answer said. Those that keep state
  with a life of its own, the login page, the profile editor and the live feed, are
  modelled. The landing page's list (`RealTimeTransactions.tsx`) and the search bar hold the
  last answer. This is why the modelled share of the source stays small: what remains has no
  behaviour to check beyond its data.
* `scripts/poller.ts`, the older poller that writes without `createPledgeAtomic`: what is
  shown of the ledger holds without it.
* Social verification and appeals: single pushes and creates, reviewed by an admin.
* Scoring, URL heuristics, NFT and wallet resolution, charities, search, trending: pure
  computation over fetched data, caches read through, single upserts by key.
* Amounts and their rounding (`toFixed(8)`, wei to float); prices in the feed.
* Expiry of fundraisers: no handler of a donation reads `expiresAt`.
* The order of webhook events, audit logs, e-mails' contents, avatars' upload.
