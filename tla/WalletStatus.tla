------------------------------ MODULE WalletStatus ------------------------------
(***************************************************************************)
(* What is said of one wallet - flagsCount, blacklisted, suspicious - and  *)
(* the actors that write or show it at the same time:                      *)
(*                                                                         *)
(*   Flaggers   POST /api/flag/add, which counts the Flag documents and    *)
(*              blacklists a wallet that has many,                         *)
(*   Viewers    GET /api/wallet/[chain]/[address], with its page cache,    *)
(*   Scanners   POST /api/scanSuspicious, under a lock in Redis,           *)
(*                                                                         *)
(* and the admins, who blacklist, un-blacklist and delete.  The flags      *)
(* embedded in the document are in WalletFlags; here heavy says that there *)
(* are more than three.                                                    *)
(***************************************************************************)
EXTENDS Naturals

CONSTANTS
    Flaggers, Viewers, Scanners,
    Threshold,      \* HEAVY_FLAG_THRESHOLD (10 in the code)
    Attempts,       \* RETRY_COUNT (3 in the code)
    MaxFlags,       \* bound: Flag documents
    MaxChanges,     \* bound: admin actions and changes of heavy
    MaxFaults       \* bound: saves that fail, functions that are killed

VARIABLES
    wallet,         \* the Wallet document: does it exist, and its fields
    heavy,          \* has it more than three embedded flags
    flagDocs,       \* number of Flag documents
    page,           \* is the wallet's page in the cache
    lock,           \* is scanSuspicious:lock set
    phase, held,    \* where a request is, and what it has read
    changes, faults \* used up of the bounds

documents == <<wallet, heavy, flagDocs, page, lock>>
vars == <<wallet, heavy, flagDocs, page, lock, phase, held, changes, faults>>

Requests == Flaggers \cup Viewers \cup Scanners
Absent == [exists |-> FALSE, flagsCount |-> 0, blacklisted |-> FALSE,
           suspicious |-> FALSE]
Fresh == [Absent EXCEPT !.exists = TRUE]
Nothing == [count |-> 0, rule |-> FALSE, tries |-> 0]
Phases == {"idle", "count", "write", "fetch", "cache", "load", "save", "release"}

Init ==
    /\ wallet = Absent
    /\ heavy = FALSE
    /\ flagDocs = 0
    /\ page = FALSE
    /\ lock = FALSE
    /\ phase = [r \in Requests |-> "idle"]
    /\ held = [r \in Requests |-> Nothing]
    /\ changes = 0
    /\ faults = 0

Goto(r, p) ==
    /\ phase' = [phase EXCEPT ![r] = p]
    /\ held' = IF p = "idle" THEN [held EXCEPT ![r] = Nothing] ELSE held

Stored == IF wallet.exists THEN wallet ELSE Fresh

-----------------------------------------------------------------------------
(* POST /api/flag/add. *)

FlagAdd(f) ==
    /\ phase[f] = "idle" /\ flagDocs < MaxFlags
    /\ flagDocs' = flagDocs + 1
    /\ Goto(f, "count")
    /\ UNCHANGED <<wallet, heavy, page, lock, changes, faults>>

FlagCount(f) ==
    /\ phase[f] = "count"
    /\ phase' = [phase EXCEPT ![f] = "write"]
    /\ held' = [held EXCEPT ![f].count = flagDocs]
    /\ UNCHANGED <<documents, changes, faults>>

(* The upsert, which sets blacklisted to what the count read says. *)
FlagWrite(f) ==
    /\ phase[f] = "write"
    /\ wallet' = [Stored EXCEPT !.flagsCount = held[f].count,
                                !.blacklisted = held[f].count >= Threshold]
    /\ Goto(f, "idle")
    /\ UNCHANGED <<heavy, flagDocs, page, lock, changes, faults>>

-----------------------------------------------------------------------------
(* GET /api/wallet/[chain]/[address].  A cached page is served as it is.  The schema
   has no transactions field and gives every wallet a riskScore, so what is fetched
   is not stored, every uncached view fetches, and the score is never computed. *)

ViewAnyway(v) ==
    /\ phase[v] = "idle" /\ ~page
    /\ Goto(v, "fetch")
    /\ UNCHANGED <<documents, changes, faults>>
ViewLoad(v) ==
    /\ phase[v] = "idle" /\ ~page
    /\ ~(wallet.exists /\ wallet.blacklisted)
    /\ Goto(v, "fetch")
    /\ UNCHANGED <<documents, changes, faults>>

(* The upsert after the fetch; one that fails is caught. *)
ViewUpsert(v) ==
    /\ phase[v] = "fetch"
    /\ wallet' \in {Stored, wallet}
    /\ Goto(v, "cache")
    /\ UNCHANGED <<heavy, flagDocs, page, lock, changes, faults>>

(* Nobody looks again whether the wallet is blacklisted by now. *)
ViewCache(v) ==
    /\ phase[v] = "cache"
    /\ page' \in {TRUE, page}
    /\ Goto(v, "idle")
    /\ UNCHANGED <<wallet, heavy, flagDocs, lock, changes, faults>>

(* 60 seconds pass. *)
PageExpires ==
    /\ page
    /\ page' = FALSE
    /\ UNCHANGED <<wallet, heavy, flagDocs, lock, phase, held, changes, faults>>

-----------------------------------------------------------------------------
(* POST /api/scanSuspicious. *)

(* SET NX EX; a request that does not get the lock still runs the finally block. *)
ScanStart(s) ==
    /\ phase[s] = "idle"
    /\ Goto(s, IF lock THEN "release" ELSE "load")
    /\ lock' = TRUE
    /\ UNCHANGED <<wallet, heavy, flagDocs, page, changes, faults>>

(* find: the rule is applied to the copy, and saved if it says something new. *)
ScanLoad(s) ==
    LET rule == heavy \/ wallet.blacklisted
    IN /\ phase[s] = "load"
       /\ IF wallet.exists /\ wallet.suspicious # rule
          THEN /\ phase' = [phase EXCEPT ![s] = "save"]
               /\ held' = [held EXCEPT ![s] = [Nothing EXCEPT !.rule = rule]]
          ELSE Goto(s, "release")
       /\ UNCHANGED <<documents, changes, faults>>

ScanSaveOn(s) ==
    /\ phase[s] = "save"
    /\ wallet' = IF wallet.exists THEN [wallet EXCEPT !.suspicious = TRUE] ELSE wallet
    /\ Goto(s, "release")
    /\ UNCHANGED <<heavy, flagDocs, page, lock, changes, faults>>
(* The save writes this field only; a document that is gone makes it throw. *)
ScanSave(s) ==
    /\ phase[s] = "save"
    /\ wallet' = IF wallet.exists
                 THEN [wallet EXCEPT !.suspicious = held[s].rule] ELSE wallet
    /\ Goto(s, "release")
    /\ UNCHANGED <<heavy, flagDocs, page, lock, changes, faults>>

(* It is tried again, and in the end the scan throws. *)
ScanSaveFails(s) ==
    /\ phase[s] = "save" /\ faults < MaxFaults
    /\ faults' = faults + 1
    /\ IF held[s].tries + 1 < Attempts
       THEN held' = [held EXCEPT ![s].tries = @ + 1] /\ UNCHANGED phase
       ELSE Goto(s, "release")
    /\ UNCHANGED <<documents, changes>>

ScanRelease(s) ==
    /\ phase[s] = "release"
    /\ lock' = FALSE
    /\ Goto(s, "idle")
    /\ UNCHANGED <<wallet, heavy, flagDocs, page, changes, faults>>

(* Five minutes pass, whether or not the scan has ended. *)
LockExpires ==
    /\ lock
    /\ lock' = FALSE
    /\ UNCHANGED <<wallet, heavy, flagDocs, page, phase, held, changes, faults>>

-----------------------------------------------------------------------------
(* admin/blacklist-wallet and admin/blacklist, admin/delete-wallet, and whatever
   changes the number of embedded flags. *)

Change == changes < MaxChanges /\ changes' = changes + 1

SetBlacklisted(b) ==
    /\ Change /\ wallet.exists
    /\ wallet' = [wallet EXCEPT !.blacklisted = b]
    /\ UNCHANGED <<heavy, flagDocs, page, lock, phase, held, faults>>

DeleteWallet ==
    /\ Change /\ wallet.exists
    /\ wallet' = Absent
    /\ heavy' = FALSE
    /\ UNCHANGED <<flagDocs, page, lock, phase, held, faults>>

FlagsChange ==
    /\ Change /\ wallet.exists
    /\ heavy' = ~heavy
    /\ UNCHANGED <<wallet, flagDocs, page, lock, phase, held, faults>>

(* A function is killed. *)
Crash(r) ==
    /\ phase[r] # "idle" /\ faults < MaxFaults
    /\ faults' = faults + 1
    /\ Goto(r, "idle")
    /\ UNCHANGED <<documents, changes>>

-----------------------------------------------------------------------------
FlaggerStep(f) == FlagAdd(f) \/ FlagCount(f) \/ FlagWrite(f)
ViewerStep(v) == ViewLoad(v) \/ ViewUpsert(v) \/ ViewCache(v)
ScannerStep(s) ==
    ScanStart(s) \/ ScanLoad(s) \/ ScanSave(s) \/ ScanSaveFails(s) \/ ScanRelease(s)

Next ==
    \/ \E f \in Flaggers : FlaggerStep(f)
    \/ \E v \in Viewers : ViewerStep(v)
    \/ \E s \in Scanners : ScannerStep(s)
    \/ \E b \in BOOLEAN : SetBlacklisted(b)
    \/ DeleteWallet \/ FlagsChange
    \/ PageExpires \/ LockExpires
    \/ \E r \in Requests : Crash(r)

(* What goes on by itself: a view that has begun, the expiry of a page; a scan that
   has begun, and the cron job that begins them. *)
ViewGoesOn(v) == ViewUpsert(v) \/ ViewCache(v)
ScanGoesOn(s) == ScanStart(s) \/ ScanLoad(s) \/ ScanSave(s) \/ ScanRelease(s)

-----------------------------------------------------------------------------
(* Properties. *)

(* Every variable has its type. *)
TypeOK ==
    /\ wallet \in [exists : BOOLEAN, flagsCount : 0 .. MaxFlags,
                   blacklisted : BOOLEAN, suspicious : BOOLEAN]
    /\ heavy \in BOOLEAN /\ page \in BOOLEAN /\ lock \in BOOLEAN
    /\ flagDocs \in 0 .. MaxFlags
    /\ phase \in [Requests -> Phases]
    /\ held \in [Requests -> [count : 0 .. MaxFlags, rule : BOOLEAN, tries : 0 .. Attempts]]
    /\ changes \in 0 .. MaxChanges
    /\ faults \in 0 .. MaxFaults

(* A wallet that is blacklisted for good is at some time no longer shown: the views
   that had passed the check cache their page once more, and that expires. *)
BlacklistTakesEffect ==
    <>[](wallet.exists /\ wallet.blacklisted) => <>[](~page)

(* Scans can overlap - the lock expires, and whoever fails to get it deletes it - and
   write verdicts in the wrong order; but once flags and blacklisting stay as they
   are, the verdict is right at some time and stays right. *)
ScanConverges ==
    \A h, b \in BOOLEAN :
        <>[](wallet.exists /\ heavy = h /\ wallet.blacklisted = b)
            => <>[](wallet.suspicious = (h \/ b))
===============================================================================
