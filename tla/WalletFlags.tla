------------------------------ MODULE WalletFlags ------------------------------
(***************************************************************************)
(* The flags embedded in Wallet documents, and everyone who writes them:   *)
(*                                                                         *)
(*   Flaggers    requests to POST /api/flags (flags.ts),                   *)
(*   Reporters   requests to POST /api/reports, which mirror a report,     *)
(*   Moderators  requests of admins that load a wallet and save it with    *)
(*               fewer flags: dismiss-wallet-flag and reports/dismiss,     *)
(*                                                                         *)
(* and, as single operations, the admins' removals by $pull and the        *)
(* deletion of a wallet.  A wallet is a document: an address as somebody   *)
(* spelled it, on a chain.  Its flags are a set, for the order only decides*)
(* which of them an index means, and an admin may mean any.                *)
(***************************************************************************)
EXTENDS Naturals, FiniteSets

CONSTANTS
    Wallets, Users,
    Flaggers, Reporters, Moderators,
    Limit,          \* flags a user may set in a day (5 in the code)
    MaxFlags,       \* bound: flags ever pushed
    MaxBirths       \* bound: times a wallet is created

Requests == Flaggers \cup Reporters \cup Moderators

ASSUME SlotAssumption ==
    /\ Flaggers \cap (Reporters \cup Moderators) = {}
    /\ Reporters \cap Moderators = {}
    /\ IsFiniteSet(Flaggers)

ASSUME LimitAssumption ==
    Limit \in Nat \ {0} /\ MaxFlags \in Nat /\ MaxBirths \in Nat

VARIABLES
    exists,         \* is there a document for the wallet
    born,           \* how many were created for it: the document's _id
    version,        \* Wallet.__v
    flags,          \* Wallet.flags
    reported,       \* <<u, w>>: u has a Report on w
    minted,         \* ids of embedded flags are 1 .. minted
    today,          \* ids of the flags dated today
    stage,          \* where in its handler a request is
    held,           \* held[r]: whose request it is, and the wallet it holds in memory
    pushed,         \* history: the flags pushed to the wallet's document
    gone            \* history: ids of the flags a moderator took away

stored == <<exists, born, version, flags>>
history == <<pushed, gone>>
vars == <<exists, born, version, flags, reported, minted, today, stage, held,
          pushed, gone>>

FlagIds == 1 .. MaxFlags
Flag == [id : FlagIds, user : Users, mirror : BOOLEAN]
Nobody == {}
Blank == [user |-> Nobody, wallet |-> Nobody, born |-> 0, version |-> 0,
          copy |-> {}, drop |-> {}]
Held == [user : Users \cup {Nobody}, wallet : Wallets \cup {Nobody}, born : Nat,
         version : Nat, copy : SUBSET Flag, drop : SUBSET FlagIds]
Stages == {"idle", "create", "count", "push", "load", "save"}

-----------------------------------------------------------------------------
Goto(r, s) == stage' = [stage EXCEPT ![r] = s]

Finish(r) ==
    /\ Goto(r, "idle")
    /\ held' = [held EXCEPT ![r] = Blank]

(* The document a request loaded is still there: a save that finds none under
   its _id throws. *)
Current(r) ==
    LET w == held[r].wallet IN exists[w] /\ born[w] = held[r].born

(* A save that assigns the array carries the version read; one that pushes does
   not, but bumps it; an update with $pull does neither. *)
Unmodified(r) == version[held[r].wallet] = held[r].version

PusherUnknown(u, w) == [Blank EXCEPT !.wallet = w, !.born = born[w]]
(* What a request keeps in memory: the user and wallet it is about; of a document
   it loaded and will push to, the _id; of one whose array it will assign, the
   array and the version, too. *)
AskerOf(u, w) == [Blank EXCEPT !.user = u, !.wallet = w]
PusherOf(u, w) == [Blank EXCEPT !.user = u, !.wallet = w, !.born = born[w]]
DropperOf(w, ids) == [user |-> Nobody, wallet |-> w, born |-> born[w],
                      version |-> version[w], copy |-> flags[w], drop |-> ids]

(* Wallet.create: a fresh document. *)
Create(w) ==
    /\ exists' = [exists EXCEPT ![w] = TRUE]
    /\ born' = [born EXCEPT ![w] = @ + 1]
    /\ version' = [version EXCEPT ![w] = 0]
    /\ flags' = [flags EXCEPT ![w] = {}]
    /\ pushed' = [pushed EXCEPT ![w] = {}]

(* $push of a new subdocument, dated now. *)
Push(w, u, mirrored) ==
    LET n == minted + 1
        flag == [id |-> n, user |-> u, mirror |-> mirrored]
    IN /\ n <= MaxFlags
       /\ minted' = n
       /\ today' = today \cup {n}
       /\ flags' = [flags EXCEPT ![w] = @ \cup {flag}]
       /\ pushed' = [pushed EXCEPT ![w] = @ \cup {flag}]
       /\ version' = [version EXCEPT ![w] = @ + 1]

Without(fs, ids) == {x \in fs : x.id \notin ids}

-----------------------------------------------------------------------------
Init ==
    /\ exists = [w \in Wallets |-> FALSE]
    /\ born = [w \in Wallets |-> 0]
    /\ version = [w \in Wallets |-> 0]
    /\ flags = [w \in Wallets |-> {}]
    /\ reported = {}
    /\ minted = 0
    /\ today = {}
    /\ stage = [r \in Requests |-> "idle"]
    /\ held = [r \in Requests |-> Blank]
    /\ pushed = [w \in Wallets |-> {}]
    /\ gone = {}

-----------------------------------------------------------------------------
(* POST /api/flags. *)

(* findOne: the document is kept in memory, or has to be created. *)
FlagStart(g, u, w) ==
    /\ stage[g] = "idle"
    /\ held' = [held EXCEPT ![g] =
           IF exists[w] THEN PusherOf(u, w)
           ELSE AskerOf(u, w)]
    /\ Goto(g, IF exists[w] THEN "count" ELSE "create")
    /\ UNCHANGED <<stored, reported, minted, today, history>>

(* Wallet.create; the unique index makes a second one throw. *)
FlagCreate(g, w) ==
    /\ stage[g] = "create" /\ held[g].wallet = w
    /\ \/ /\ ~exists[w] /\ born[w] < MaxBirths
          /\ Create(w)
          /\ held' = [held EXCEPT ![g].born = born[w] + 1]
          /\ Goto(g, "count")
       \/ /\ exists[w]
          /\ Finish(g)
          /\ UNCHANGED <<stored, pushed>>
    /\ UNCHANGED <<reported, minted, today, gone>>

FlagsToday(u) == {x \in UNION {flags[w] : w \in Wallets} : x.user = u /\ x.id \in today}

OverLimitLate(u) == Cardinality(FlagsToday(u)) > Limit
(* The aggregate over all wallets: flags of the user dated since midnight. *)
OverLimit(u) == Cardinality(FlagsToday(u)) >= Limit

FlagCount(g) ==
    /\ stage[g] = "count"
    /\ \/ OverLimit(held[g].user) /\ Finish(g)
       \/ ~OverLimit(held[g].user) /\ Goto(g, "push") /\ UNCHANGED held
    /\ UNCHANGED <<stored, reported, minted, today, history>>

FlagPush(g) ==
    /\ stage[g] = "push"
    /\ \/ Current(g) /\ Push(held[g].wallet, held[g].user, FALSE)
       \/ ~Current(g) /\ UNCHANGED <<version, flags, pushed, minted, today>>
    /\ Finish(g)
    /\ UNCHANGED <<exists, born, reported, gone>>

-----------------------------------------------------------------------------
(* POST /api/reports, as far as it concerns the suspect's wallet. *)

ReportCreate(r, u, w) ==
    /\ stage[r] = "idle"
    /\ reported' = reported \cup {<<u, w>>}
    /\ held' = [held EXCEPT ![r] = AskerOf(u, w)]
    /\ Goto(r, "load")
    /\ UNCHANGED <<stored, minted, today, history>>

(* findOne: a suspect without a wallet document gets no flag. *)
ReportLoad(r) ==
    /\ stage[r] = "load" /\ r \in Reporters
    /\ LET w == held[r].wallet IN
       \/ /\ exists[w]
          /\ held' = [held EXCEPT ![r].born = born[w]]
          /\ Goto(r, "push")
       \/ ~exists[w] /\ Finish(r)
    /\ UNCHANGED <<stored, reported, minted, today, history>>

(* The save of the pushed flag; an error is caught and logged. *)
ReportPush(r) ==
    /\ stage[r] = "push" /\ r \in Reporters
    /\ \/ Current(r) /\ Push(held[r].wallet, held[r].user, TRUE)
       \/ ~Current(r) /\ UNCHANGED <<version, flags, pushed, minted, today>>
    /\ Finish(r)
    /\ UNCHANGED <<exists, born, reported, gone>>

-----------------------------------------------------------------------------
(* The admins. *)

(* dismiss-wallet-flag: any index within the list that was loaded. *)
DismissLoad(m, w, n) ==
    /\ stage[m] = "idle" /\ exists[w]
    /\ \E x \in flags[w] : x.id = n
    /\ held' = [held EXCEPT ![m] = DropperOf(w, {n})]
    /\ Goto(m, "save")
    /\ UNCHANGED <<stored, reported, minted, today, history>>

(* reports/dismiss: the mirrored flags of the reporter are to be filtered out. *)
FilterLoad(m, u, w) ==
    /\ stage[m] = "idle" /\ exists[w]
    /\ <<u, w>> \in reported
    /\ held' = [held EXCEPT ![m] = 
           DropperOf(w, {x.id : x \in {y \in flags[w] : y.user = u /\ y.mirror}})]
    /\ Goto(m, "save")
    /\ UNCHANGED <<stored, reported, minted, today, history>>

ModeratorUpdate(m) ==
    /\ stage[m] = "save"
    /\ LET w == held[m].wallet IN
       \/ /\ held[m].drop # {} /\ exists[w]
          /\ flags' = [flags EXCEPT ![w] = Without(held[m].copy, held[m].drop)]
          /\ gone' = gone \cup held[m].drop
       \/ held[m].drop = {} /\ UNCHANGED <<flags, gone>>
    /\ Finish(m)
    /\ UNCHANGED <<exists, born, version, reported, minted, today, pushed>>
(* The save of the shortened list, checked against the version.  One that is not
   shorter is not written. *)
ModeratorSave(m) ==
    /\ stage[m] = "save"
    /\ LET w == held[m].wallet IN
       \/ /\ held[m].drop # {} /\ Current(m) /\ Unmodified(m)
          /\ flags' = [flags EXCEPT ![w] = Without(held[m].copy, held[m].drop)]
          /\ version' = [version EXCEPT ![w] = @ + 1]
          /\ gone' = gone \cup held[m].drop
       \/ /\ held[m].drop = {} \/ ~Current(m) \/ ~Unmodified(m)
          /\ UNCHANGED <<flags, version, gone>>
    /\ Finish(m)
    /\ UNCHANGED <<exists, born, reported, minted, today, pushed>>

(* dismissFlag and remove-moderation-item: one update with $pull. *)
Pull(w, n) ==
    /\ exists[w]
    /\ \E x \in flags[w] : x.id = n
    /\ flags' = [flags EXCEPT ![w] = Without(@, {n})]
    /\ gone' = gone \cup {n}
    /\ UNCHANGED <<exists, born, version, reported, minted, today, stage, held,
                   pushed>>

DeleteWallet(w) ==
    /\ exists[w]
    /\ exists' = [exists EXCEPT ![w] = FALSE]
    /\ flags' = [flags EXCEPT ![w] = {}]
    /\ pushed' = [pushed EXCEPT ![w] = {}]
    /\ UNCHANGED <<born, version, reported, minted, today, stage, held, gone>>

-----------------------------------------------------------------------------
Midnight ==
    /\ today # {}
    /\ today' = {}
    /\ UNCHANGED <<stored, reported, minted, stage, held, history>>

(* The function is killed, or an await throws: what was written stays. *)
Abort(r) ==
    /\ stage[r] # "idle"
    /\ Finish(r)
    /\ UNCHANGED <<stored, reported, minted, today, history>>

FlaggerStep(g) ==
    \/ \E u \in Users, w \in Wallets : FlagStart(g, u, w)
    \/ \E w \in Wallets : FlagCreate(g, w)
    \/ FlagCount(g)
    \/ FlagPush(g)

ReporterStep(r) ==
    \/ \E u \in Users, w \in Wallets : ReportCreate(r, u, w)
    \/ ReportLoad(r)
    \/ ReportPush(r)

ModeratorStep(m) ==
    \/ \E w \in Wallets, n \in FlagIds : DismissLoad(m, w, n)
    \/ \E u \in Users, w \in Wallets : FilterLoad(m, u, w)
    \/ ModeratorSave(m)

Next ==
    \/ \E g \in Flaggers : FlaggerStep(g)
    \/ \E r \in Reporters : ReporterStep(r)
    \/ \E m \in Moderators : ModeratorStep(m)
    \/ \E w \in Wallets, n \in FlagIds : Pull(w, n)
    \/ \E w \in Wallets : DeleteWallet(w)
    \/ Midnight
    \/ \E r \in Requests : Abort(r)

Spec == Init /\ [][Next]_vars

-----------------------------------------------------------------------------
(* Properties. *)

(* Every variable has its type; a request under way knows its wallet and, if it is
   to set a flag, its user. *)
TypeOK ==
    /\ exists \in [Wallets -> BOOLEAN]
    /\ born \in [Wallets -> Nat]
    /\ version \in [Wallets -> Nat]
    /\ flags \in [Wallets -> SUBSET Flag]
    /\ reported \subseteq Users \X Wallets
    /\ minted \in 0 .. MaxFlags
    /\ today \subseteq FlagIds
    /\ stage \in [Requests -> Stages]
    /\ held \in [Requests -> Held]
    /\ \A r \in Requests : stage[r] # "idle" => held[r].wallet \in Wallets
    /\ \A r \in Requests : stage[r] \notin {"idle", "save"} => held[r].user \in Users
    /\ pushed \in [Wallets -> SUBSET Flag]
    /\ gone \subseteq FlagIds

(* A flag that was pushed stays until a moderator takes that one away or the
   wallet is deleted: saves of whole lists computed from older copies, and saves
   for a wallet that was deleted and created again, never lose one. *)
FlagsKept ==
    \A w \in Wallets : Without(pushed[w], gone) \subseteq flags[w]

(* The flags a user set today that no moderator has taken away. *)
SetToday(u) == {x \in FlagsToday(u) : ~x.mirror /\ x.id \notin gone}

(* The daily limit is checked before the push, so requests can pass it together,
   but by no more than the other requests under way: of the flags no moderator
   has taken away, a user set at most Limit + Cardinality(Flaggers) - 1 today. *)
DailyOverrun ==
    \A u \in Users : Cardinality(SetToday(u)) < Limit + Cardinality(Flaggers)

(* What makes FlagsKept and DailyOverrun inductive.  Ids are given out in order. *)
FreshInv ==
    /\ \A w \in Wallets : \A x \in flags[w] : x.id <= minted
    /\ \A r \in Requests : \A x \in held[r].copy : x.id <= minted
(* An array that may still be saved differs from the stored one only in flags that
   were taken away by $pull meanwhile. *)
SaveOK(m) ==
    LET w == held[m].wallet IN
    /\ held[m].born <= born[w]
    /\ Current(m) => held[m].version <= version[w]
    /\ Current(m) /\ Unmodified(m) =>
          Without(flags[w] \cup pushed[w], gone) = Without(held[m].copy, gone)
SaveInv == \A m \in Moderators : stage[m] = "save" => SaveOK(m)
(* The flaggers that have passed the limit count as if they had pushed. *)
Pushing(u) == {g \in Flaggers : stage[g] = "push" /\ held[g].user = u}
OverrunInv ==
    \A u \in Users :
        Cardinality(SetToday(u)) + Cardinality(Pushing(u)) < Limit + Cardinality(Flaggers)
FlagsInv == FreshInv /\ FlagsKept /\ SaveInv /\ OverrunInv

(* Said of the code: an admin's dismissal removes the flag from the wallet
   (dismissFlag.ts:14), so it is not on a wallet afterwards. *)
DismissedStaysGone ==
    \A w \in Wallets : \A x \in flags[w] : x.id \notin gone
===============================================================================
