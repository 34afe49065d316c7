----------------------------- MODULE ServicesProofs -----------------------------
(***************************************************************************)
(* Theorems about the components of MCServices that are instances there,   *)
(* and the types of all of its variables, for any requests and any limits  *)
(* and bounds.  What these components promise is liveness, which is out of *)
(* reach here; proved are the facts about their states that it rests on.   *)
(*                                                                         *)
(* Each component has an inductive invariant.  A step of one leaves the    *)
(* variables of the others alone, so that each is an invariant of          *)
(* ServicesSpec.                                                           *)
(***************************************************************************)
EXTENDS MCServices, UrlAuditProofs, ImporterProofs

(* TokenRefresh: a token is at hand wherever one is sent. *)
TokenAtHand ==
    \A c \in Callers : trPhase[c] \in {"fetch", "refetch", "refresh"} => token[c] # 0

TokensInv == Tokens!TypeOK /\ TokenAtHand

(* LoginNonce: a nonce that goes by the name of a tab, in the cookie, in the user
   document or on its way there, is the one that the tab keeps, and a tab has it where
   it signs: of all nonces, only that one can be verified for the tab. *)
NonceKept ==
    \A t \in Tabs :
        \/ cookie = t \/ nonce = t \/ t \in pending
        \/ lnPhase[t] \in {"sign", "sign again"}
        => kept[t]

LoginInv == Login!TypeOK /\ NonceKept

(* SharedConnection: whoever waits, waits for the one attempt that runs; and the promise
   left behind by an attempt is the connection or gone. *)
WaitersServed ==
    /\ waiting # {} => attempts = 1
    /\ attempts = 1 <=> promise = "pending"
    /\ conn <=> promise = "resolved"
    /\ promise # "rejected"

ConnectionInv == Connection!TypeOK /\ WaitersServed

(* ProviderCircuit: calls are refused only for an endpoint that failed more often, since
   the process began, than one call is repeated. *)
RefusedForFailures ==
    \A o \in Callers : opened[o] # "never" => pcFailures[o] > Retries

CircuitInv == Circuit!TypeOK /\ RefusedForFailures

(* RateLimits: a key that would count for ever is about to get its time to live, or the
   call that sets it was lost; no other interleaving of requests leaves one. *)
NoKeyForGood ==
    counter > 0 /\ ttl = Limits!Forever => expiring = 1 \/ orphaned

LimitsInv ==
    /\ Limits!TypeOK /\ NoKeyForGood
    /\ counter = 0 => expiring = 0 /\ ttl = Limits!Forever
    /\ expiring = 1 => ttl = Limits!Forever

-----------------------------------------------------------------------------
(* WalletStatus. *)

Wallets == [exists : BOOLEAN, flagsCount : 0 .. MaxFlags,
            blacklisted : BOOLEAN, suspicious : BOOLEAN]
Copies == [count : 0 .. MaxFlags, rule : BOOLEAN, tries : 0 .. Attempts]

LEMMA StatusValues ==
    /\ Status!Nothing \in Copies
    /\ Status!Absent \in Wallets /\ Status!Fresh \in Wallets
<1>1. 0 \in 0 .. MaxFlags /\ 0 \in 0 .. Attempts
  BY ServicesAssumption
<1> QED
  BY <1>1 DEF Status!Nothing, Status!Absent, Status!Fresh, Copies, Wallets

(* What the request r does next changes nothing else about requests. *)
LEMMA StatusGoto ==
    ASSUME Status!TypeOK, NEW r, NEW p \in Status!Phases, Status!Goto(r, p)
    PROVE  /\ wsPhase' \in [Status!Requests -> Status!Phases]
           /\ held' \in [Status!Requests -> Copies]
BY StatusValues DEF Status!TypeOK, Status!Goto, Copies

(* The documents: each action writes the fields of the wallet that it means, or leaves
   it alone. *)
LEMMA StatusWallet ==
    ASSUME Status!TypeOK, Status!Next
    PROVE  wallet' \in Wallets
<1>1. wallet \in Wallets
  BY DEF Status!TypeOK, Wallets
<1>2. Status!Stored \in Wallets /\ Status!Absent \in Wallets
  BY <1>1, StatusValues DEF Status!Stored
<1>3. ASSUME NEW f \in Flaggers, Status!FlagWrite(f) PROVE wallet' \in Wallets
  <2>1. f \in Status!Requests /\ held[f].count \in 0 .. MaxFlags
    BY DEF Status!Requests, Status!TypeOK
  <2> DEFINE heavily == held[f].count >= Threshold
  <2>2. heavily \in BOOLEAN
    OBVIOUS
  <2>3. wallet' = [Status!Stored EXCEPT !.flagsCount = held[f].count, !.blacklisted = heavily]
    BY <1>3 DEF Status!FlagWrite
  <2> HIDE DEF heavily
  <2> QED
    BY <1>2, <2>1, <2>2, <2>3 DEF Wallets
<1>4. ASSUME NEW v \in Viewers, Status!ViewUpsert(v) PROVE wallet' \in Wallets
  BY <1>1, <1>2, <1>4 DEF Status!ViewUpsert
<1>5. ASSUME NEW s \in Scanners, Status!ScanSave(s) PROVE wallet' \in Wallets
  <2>1. s \in Status!Requests /\ held[s].rule \in BOOLEAN
    BY DEF Status!Requests, Status!TypeOK
  <2> QED
    BY <1>1, <1>5, <2>1 DEF Status!ScanSave, Wallets
<1>6. ASSUME NEW b \in BOOLEAN, Status!SetBlacklisted(b) PROVE wallet' \in Wallets
  BY <1>1, <1>6 DEF Status!SetBlacklisted, Wallets
<1>7. CASE Status!DeleteWallet
  BY <1>2, <1>7 DEF Status!DeleteWallet
<1>8. ASSUME NEW r, \/ Status!FlagAdd(r) \/ Status!FlagCount(r)
                    \/ Status!ViewLoad(r) \/ Status!ViewCache(r)
                    \/ Status!ScanStart(r) \/ Status!ScanLoad(r) \/ Status!ScanSaveFails(r)
                    \/ Status!ScanRelease(r) \/ Status!Crash(r)
      PROVE  wallet' = wallet
  BY <1>8 DEF Status!FlagAdd, Status!FlagCount, Status!ViewLoad, Status!ViewCache,
              Status!ScanStart, Status!ScanLoad, Status!ScanSaveFails, Status!ScanRelease,
              Status!Crash, Status!documents
<1>9. CASE Status!FlagsChange \/ Status!PageExpires \/ Status!LockExpires
  BY <1>1, <1>9 DEF Status!FlagsChange, Status!PageExpires, Status!LockExpires
<1> QED
  BY <1>1, <1>3, <1>4, <1>5, <1>6, <1>7, <1>8, <1>9
     DEF Status!Next, Status!FlaggerStep, Status!ViewerStep, Status!ScannerStep

(* Where requests are, and what they have read. *)
LEMMA StatusRequests ==
    ASSUME Status!TypeOK, Status!Next
    PROVE  /\ wsPhase' \in [Status!Requests -> Status!Phases]
           /\ held' \in [Status!Requests -> Copies]
<1>1. /\ wsPhase \in [Status!Requests -> Status!Phases]
      /\ held \in [Status!Requests -> Copies]
      /\ flagDocs \in 0 .. MaxFlags /\ heavy \in BOOLEAN /\ wallet.blacklisted \in BOOLEAN
  BY DEF Status!TypeOK, Copies
<1>2. ASSUME NEW r, \/ Status!FlagAdd(r) \/ Status!FlagWrite(r)
                    \/ Status!ViewLoad(r) \/ Status!ViewUpsert(r) \/ Status!ViewCache(r)
                    \/ Status!ScanStart(r) \/ Status!ScanSave(r) \/ Status!ScanRelease(r)
                    \/ Status!Crash(r)
      PROVE  \E p \in Status!Phases : Status!Goto(r, p)
  BY <1>2 DEF Status!FlagAdd, Status!FlagWrite, Status!ViewLoad, Status!ViewUpsert,
              Status!ViewCache, Status!ScanStart, Status!ScanSave, Status!ScanRelease,
              Status!Crash, Status!Phases
<1>3. ASSUME NEW f \in Flaggers, Status!FlagCount(f)
      PROVE  \/ \E p \in Status!Phases : Status!Goto(f, p)
             \/ /\ wsPhase' \in [Status!Requests -> Status!Phases]
                /\ held' \in [Status!Requests -> Copies]
  <2>1. wsPhase' = [wsPhase EXCEPT ![f] = "write"] /\ "write" \in Status!Phases
    BY <1>3 DEF Status!FlagCount, Status!Phases
  <2>2. held' = [held EXCEPT ![f].count = flagDocs]
    BY <1>3 DEF Status!FlagCount
  <2>3. held' \in [Status!Requests -> Copies]
    BY <1>1, <2>2 DEF Copies
  <2> QED
    BY <1>1, <2>1, <2>3
<1>4. ASSUME NEW s \in Scanners, Status!ScanLoad(s)
      PROVE  \/ \E p \in Status!Phases : Status!Goto(s, p)
             \/ /\ wsPhase' \in [Status!Requests -> Status!Phases]
                /\ held' \in [Status!Requests -> Copies]
  <2> DEFINE rule == heavy \/ wallet.blacklisted
  <2>1. CASE Status!Goto(s, "release")
    BY <2>1 DEF Status!Phases
  <2>2. CASE /\ wsPhase' = [wsPhase EXCEPT ![s] = "save"]
             /\ held' = [held EXCEPT ![s] = [Status!Nothing EXCEPT !.rule = rule]]
    <3>1. rule \in BOOLEAN /\ "save" \in Status!Phases
      BY DEF Status!Phases
    <3> HIDE DEF rule
    <3>2. [Status!Nothing EXCEPT !.rule = rule] \in Copies
      BY <3>1, StatusValues DEF Copies
    <3> QED
      BY <1>1, <2>2, <3>1, <3>2
  <2> QED
    BY <1>4, <2>1, <2>2 DEF Status!ScanLoad
<1>5. ASSUME NEW s \in Scanners, Status!ScanSaveFails(s)
      PROVE  \/ \E p \in Status!Phases : Status!Goto(s, p)
             \/ /\ wsPhase' \in [Status!Requests -> Status!Phases]
                /\ held' \in [Status!Requests -> Copies]
  <2>1. CASE Status!Goto(s, "release")
    BY <2>1 DEF Status!Phases
  <2>2. CASE /\ held[s].tries + 1 < Attempts /\ UNCHANGED wsPhase
             /\ held' = [held EXCEPT ![s].tries = @ + 1]
    <3>1. held[s] \in Copies
      BY <1>1 DEF Status!Requests
    <3>2. held[s].tries + 1 \in 0 .. Attempts
      BY <2>2, <3>1, ServicesAssumption DEF Copies
    <3>3. [held[s] EXCEPT !.tries = @ + 1] \in Copies
      BY <3>1, <3>2 DEF Copies
    <3>4. held' \in [Status!Requests -> Copies]
      BY <1>1, <2>2, <3>3
    <3> QED
      BY <1>1, <2>2, <3>4
  <2> QED
    BY <1>5, <2>1, <2>2 DEF Status!ScanSaveFails
<1>6. CASE \/ \E b \in BOOLEAN : Status!SetBlacklisted(b)
           \/ Status!DeleteWallet \/ Status!FlagsChange
           \/ Status!PageExpires \/ Status!LockExpires
  BY <1>1, <1>6 DEF Status!SetBlacklisted, Status!DeleteWallet, Status!FlagsChange,
                    Status!PageExpires, Status!LockExpires
<1> QED
  BY <1>2, <1>3, <1>4, <1>5, <1>6, StatusGoto
     DEF Status!Next, Status!FlaggerStep, Status!ViewerStep, Status!ScannerStep

(* The rest, which is switched or counted. *)
LEMMA StatusRest ==
    ASSUME Status!TypeOK, Status!Next
    PROVE  /\ heavy' \in BOOLEAN /\ page' \in BOOLEAN /\ lock' \in BOOLEAN
           /\ flagDocs' = flagDocs \/ (flagDocs < MaxFlags /\ flagDocs' = flagDocs + 1)
           /\ changes' = changes \/ (changes < MaxChanges /\ changes' = changes + 1)
           /\ wsFaults' = wsFaults \/ (wsFaults < MaxFaults /\ wsFaults' = wsFaults + 1)
<1> DEFINE Rest == /\ heavy' \in BOOLEAN /\ page' \in BOOLEAN /\ lock' \in BOOLEAN
                   /\ flagDocs' = flagDocs \/ (flagDocs < MaxFlags /\ flagDocs' = flagDocs + 1)
                   /\ changes' = changes \/ (changes < MaxChanges /\ changes' = changes + 1)
                   /\ wsFaults' = wsFaults \/ (wsFaults < MaxFaults /\ wsFaults' = wsFaults + 1)
<1>1. heavy \in BOOLEAN /\ page \in BOOLEAN /\ lock \in BOOLEAN
  BY DEF Status!TypeOK
<1>2. ASSUME NEW f, Status!FlaggerStep(f) PROVE Rest
  BY <1>1, <1>2 DEF Status!FlaggerStep, Status!FlagAdd, Status!FlagCount, Status!FlagWrite,
                    Status!documents
<1>3. ASSUME NEW v, Status!ViewerStep(v) PROVE Rest
  BY <1>1, <1>3 DEF Status!ViewerStep, Status!ViewLoad, Status!ViewUpsert, Status!ViewCache,
                    Status!documents
<1>4. ASSUME NEW s, Status!ScannerStep(s) PROVE Rest
  BY <1>1, <1>4 DEF Status!ScannerStep, Status!ScanStart, Status!ScanLoad, Status!ScanSave,
                    Status!ScanSaveFails, Status!ScanRelease, Status!documents
<1>5. ASSUME \/ \E b \in BOOLEAN : Status!SetBlacklisted(b)
             \/ Status!DeleteWallet \/ Status!FlagsChange
      PROVE  Rest
  BY <1>1, <1>5 DEF Status!SetBlacklisted, Status!DeleteWallet, Status!FlagsChange,
                    Status!Change
<1>6. ASSUME \/ Status!PageExpires \/ Status!LockExpires
             \/ \E r \in Status!Requests : Status!Crash(r)
      PROVE  Rest
  BY <1>1, <1>6 DEF Status!PageExpires, Status!LockExpires, Status!Crash, Status!documents
<1> HIDE DEF Rest
<1>7. Rest
  BY <1>2, <1>3, <1>4, <1>5, <1>6 DEF Status!Next
<1> QED
  BY <1>7 DEF Rest

LEMMA StatusStep == Status!TypeOK /\ [Status!Next]_statusVars => Status!TypeOK'
<1> SUFFICES ASSUME Status!TypeOK, [Status!Next]_statusVars PROVE Status!TypeOK'
  OBVIOUS
<1>1. CASE UNCHANGED statusVars
  BY <1>1 DEF statusVars, Status!TypeOK
<1>2. CASE Status!Next
  <2>1. /\ flagDocs' \in 0 .. MaxFlags /\ changes' \in 0 .. MaxChanges
        /\ wsFaults' \in 0 .. MaxFaults
    BY <1>2, StatusRest, ServicesAssumption DEF Status!TypeOK
  <2>2. heavy' \in BOOLEAN /\ page' \in BOOLEAN /\ lock' \in BOOLEAN
    BY <1>2, StatusRest
  <2> QED
    BY <1>2, <2>1, <2>2, StatusWallet, StatusRequests DEF Status!TypeOK, Wallets, Copies
<1> QED
  BY <1>1, <1>2

LEMMA StatusInit == Status!Init => Status!TypeOK
<1> SUFFICES ASSUME Status!Init PROVE Status!TypeOK
  OBVIOUS
<1>1. 0 \in 0 .. MaxFlags /\ 0 \in 0 .. MaxChanges /\ 0 \in 0 .. MaxFaults
  BY ServicesAssumption
<1>2. wallet \in Wallets /\ held \in [Status!Requests -> Copies]
  BY StatusValues DEF Status!Init
<1>3. wsPhase \in [Status!Requests -> Status!Phases]
  BY DEF Status!Init, Status!Phases
<1>4. /\ heavy \in BOOLEAN /\ page \in BOOLEAN /\ lock \in BOOLEAN
      /\ flagDocs = 0 /\ changes = 0 /\ wsFaults = 0
  BY DEF Status!Init
<1> QED
  BY <1>1, <1>2, <1>3, <1>4 DEF Status!TypeOK, Copies, Wallets

-----------------------------------------------------------------------------
(* TokenRefresh.  What a request leaves behind, whichever step it takes. *)
LEMMA TokensGoto ==
    ASSUME TokensInv, NEW c, NEW p \in Tokens!Phases, NEW t \in 0 .. issued',
           issued' \in Nat, issued <= issued', Tokens!Goto(c, p, t),
           p \in {"fetch", "refetch", "refresh"} => t # 0
    PROVE  /\ trPhase' \in [Callers -> Tokens!Phases]
           /\ token' \in [Callers -> 0 .. issued']
           /\ TokenAtHand'
<1>1. /\ trPhase \in [Callers -> Tokens!Phases] /\ token \in [Callers -> 0 .. issued]
      /\ issued \in Nat
  BY DEF TokensInv, Tokens!TypeOK
<1>2. 0 .. issued \subseteq 0 .. issued'
  BY <1>1
<1>3. /\ trPhase' = [trPhase EXCEPT ![c] = p]
      /\ token' = [token EXCEPT ![c] = t]
  BY DEF Tokens!Goto
<1>4. TokenAtHand'
  BY <1>1, <1>3 DEF TokensInv, TokenAtHand
<1> QED
  BY <1>1, <1>2, <1>3, <1>4

(* The service issues a pair, which is cached. *)
LEMMA TokensIssue ==
    ASSUME TokensInv, NEW c, NEW p \in {"fetch", "refetch"}, Tokens!Issue(c, p),
           UNCHANGED <<expired, answer, trFaults>>,
           used' = used \/ (token[c] \in 1 .. issued /\ used' = used \cup {token[c]})
    PROVE  TokensInv'
<1>1. /\ issued \in Nat /\ expired \subseteq 1 .. issued /\ used \subseteq 1 .. issued
      /\ answer \in [Callers -> Tokens!Answers] /\ trFaults \in 0 .. MaxTokenFaults
  BY DEF TokensInv, Tokens!TypeOK
<1>2. /\ issued' = issued + 1 /\ cached' = issued + 1
      /\ Tokens!Goto(c, p, issued + 1)
  BY DEF Tokens!Issue
<1>3. /\ issued' \in Nat /\ issued <= issued' /\ issued + 1 \in 0 .. issued'
      /\ issued + 1 # 0 /\ cached' \in 0 .. issued' /\ 1 .. issued \subseteq 1 .. issued'
  BY <1>1, <1>2
<1>4. p \in Tokens!Phases
  BY DEF Tokens!Phases
<1>5. /\ trPhase' \in [Callers -> Tokens!Phases]
      /\ token' \in [Callers -> 0 .. issued'] /\ TokenAtHand'
  BY <1>2, <1>3, <1>4, TokensGoto
<1>6. used' \subseteq 1 .. issued'
  <2>1. used' \subseteq 1 .. issued
    BY <1>1
  <2> QED
    BY <1>3, <2>1
<1> QED
  BY <1>1, <1>3, <1>5, <1>6 DEF TokensInv, Tokens!TypeOK

(* A request goes on or ends, and nothing is issued. *)
LEMMA TokensGoesOn ==
    ASSUME TokensInv, NEW c, NEW p \in Tokens!Phases, NEW t \in 0 .. issued,
           Tokens!Goto(c, p, t), p \in {"fetch", "refetch", "refresh"} => t # 0,
           UNCHANGED <<issued, expired>>, cached' \in {0, cached},
           used' = used \/ (token[c] \in 1 .. issued /\ used' = used \cup {token[c]}),
           answer' = answer \/ (\E a \in Tokens!Answers : answer' = [answer EXCEPT ![c] = a]),
           trFaults' \in 0 .. MaxTokenFaults
    PROVE  TokensInv'
<1>1. /\ issued \in Nat /\ expired \subseteq 1 .. issued /\ used \subseteq 1 .. issued
      /\ answer \in [Callers -> Tokens!Answers] /\ cached \in 0 .. issued
  BY DEF TokensInv, Tokens!TypeOK
<1>2. /\ trPhase' \in [Callers -> Tokens!Phases]
      /\ token' \in [Callers -> 0 .. issued'] /\ TokenAtHand'
  BY <1>1, TokensGoto
<1>3. used' \subseteq 1 .. issued
  <2>1. CASE used' = used
    BY <1>1, <2>1
  <2>2. CASE token[c] \in 1 .. issued /\ used' = used \cup {token[c]}
    BY <1>1, <2>2
  <2> QED
    BY <2>1, <2>2
<1>4. answer' \in [Callers -> Tokens!Answers]
  BY <1>1
<1>5. cached' \in 0 .. issued
  BY <1>1
<1> QED
  BY <1>1, <1>2, <1>3, <1>4, <1>5 DEF TokensInv, Tokens!TypeOK

LEMMA TokensStep == TokensInv /\ [Tokens!Next]_tokensVars => TokensInv'
<1> SUFFICES ASSUME TokensInv, [Tokens!Next]_tokensVars PROVE TokensInv'
  OBVIOUS
<1> USE DEF Tokens!service
<1>1. /\ issued \in Nat /\ cached \in 0 .. issued /\ expired \subseteq 1 .. issued
      /\ used \subseteq 1 .. issued /\ trPhase \in [Callers -> Tokens!Phases]
      /\ token \in [Callers -> 0 .. issued] /\ answer \in [Callers -> Tokens!Answers]
      /\ trFaults \in 0 .. MaxTokenFaults
  BY DEF TokensInv, Tokens!TypeOK
<1>2. 0 \in 0 .. issued
  BY <1>1
<1>3. ASSUME NEW c \in Callers, trPhase[c] \in {"fetch", "refetch", "refresh"}
      PROVE  token[c] \in 1 .. issued
  BY <1>1, <1>3 DEF TokensInv, TokenAtHand
<1>4. \A x \in {"login", "fetch", "relogin", "refresh", "refetch", "idle"} : x \in Tokens!Phases
  BY DEF Tokens!Phases
<1>5. \A x \in {"ok", "refused", "error"} : x \in Tokens!Answers
  BY DEF Tokens!Answers
<1>6. ASSUME NEW c \in Callers, Tokens!Request(c) PROVE TokensInv'
  <2>1. \/ Tokens!Goto(c, "login", 0) \/ (cached # 0 /\ Tokens!Goto(c, "fetch", cached))
    BY <1>6 DEF Tokens!Request
  <2>2. UNCHANGED <<issued, expired, used, cached, answer, trFaults>>
    BY <1>6 DEF Tokens!Request
  <2> QED
    BY <1>1, <1>2, <1>4, <2>1, <2>2, TokensGoesOn
<1>7. ASSUME NEW c \in Callers, Tokens!Login(c) PROVE TokensInv'
  <2>1. \E p \in {"fetch", "refetch"} : Tokens!Issue(c, p)
    BY <1>7 DEF Tokens!Login
  <2>2. UNCHANGED <<expired, used, answer, trFaults>>
    BY <1>7 DEF Tokens!Login
  <2> QED
    BY <2>1, <2>2, TokensIssue
<1>8. ASSUME NEW c \in Callers, Tokens!Fetch(c) PROVE TokensInv'
  <2>1. UNCHANGED <<issued, expired, used, cached, trFaults>>
    BY <1>8 DEF Tokens!Fetch
  <2>2. CASE Tokens!End(c, "ok")
    <3>1. Tokens!Goto(c, "idle", 0) /\ answer' = [answer EXCEPT ![c] = "ok"]
      BY <2>2 DEF Tokens!End
    <3> QED
      BY <1>1, <1>2, <1>4, <1>5, <2>1, <3>1, TokensGoesOn
  <2>3. CASE /\ Tokens!Goto(c, "relogin", 0) \/ (cached # 0 /\ Tokens!Goto(c, "refresh", cached))
             /\ UNCHANGED answer
    BY <1>1, <1>2, <1>4, <2>1, <2>3, TokensGoesOn
  <2> QED
    BY <1>8, <2>2, <2>3 DEF Tokens!Fetch
<1>9. ASSUME NEW c \in Callers, Tokens!Refetch(c) \/ Tokens!RefreshRefused(c)
      PROVE  TokensInv'
  <2>1. UNCHANGED <<issued, expired, used, trFaults>> /\ cached' \in {0, cached}
    BY <1>9 DEF Tokens!Refetch, Tokens!RefreshRefused
  <2>2. \E a \in Tokens!Answers : Tokens!End(c, a)
    BY <1>5, <1>9 DEF Tokens!Refetch, Tokens!RefreshRefused
  <2>3. /\ Tokens!Goto(c, "idle", 0)
        /\ \E a \in Tokens!Answers : answer' = [answer EXCEPT ![c] = a]
    BY <2>2 DEF Tokens!End
  <2> QED
    BY <1>1, <1>2, <1>4, <2>1, <2>3, TokensGoesOn
<1>10. ASSUME NEW c \in Callers, Tokens!Refresh(c) PROVE TokensInv'
  <2>1. token[c] \in 1 .. issued
    BY <1>3, <1>10 DEF Tokens!Refresh
  <2>2. /\ Tokens!Issue(c, "refetch") /\ used' = used \cup {token[c]}
        /\ UNCHANGED <<expired, answer, trFaults>>
    BY <1>10 DEF Tokens!Refresh
  <2> QED
    BY <2>1, <2>2, TokensIssue
<1>11. ASSUME NEW c \in Callers, Tokens!Fails(c) PROVE TokensInv'
  <2>1. /\ UNCHANGED <<issued, expired>> /\ cached' \in {0, cached}
        /\ trFaults' \in 0 .. MaxTokenFaults
    BY <1>1, <1>11, ServicesAssumption DEF Tokens!Fails
  <2>2. \E a \in Tokens!Answers : Tokens!End(c, a)
    BY <1>5, <1>11 DEF Tokens!Fails
  <2>3. /\ Tokens!Goto(c, "idle", 0)
        /\ \E a \in Tokens!Answers : answer' = [answer EXCEPT ![c] = a]
    BY <2>2 DEF Tokens!End
  <2>4. used' = used \/ (token[c] \in 1 .. issued /\ used' = used \cup {token[c]})
    BY <1>3, <1>11 DEF Tokens!Fails
  <2> QED
    BY <1>1, <1>2, <1>4, <2>1, <2>3, <2>4, TokensGoesOn
<1>12. ASSUME NEW t \in 1 .. issued, Tokens!Expire(t) PROVE TokensInv'
  BY <1>1, <1>12 DEF Tokens!Expire, TokensInv, Tokens!TypeOK, TokenAtHand
<1>13. CASE Tokens!Restart
  <2>1. trFaults' \in 0 .. MaxTokenFaults
    BY <1>1, <1>13, ServicesAssumption DEF Tokens!Restart
  <2>2. /\ cached' = 0 /\ trPhase' = [c \in Callers |-> "idle"]
        /\ token' = [c \in Callers |-> 0] /\ UNCHANGED <<issued, expired, used, answer>>
    BY <1>13 DEF Tokens!Restart
  <2>3. TokenAtHand'
    BY <2>2 DEF TokenAtHand
  <2> QED
    BY <1>1, <1>2, <1>4, <2>1, <2>2, <2>3 DEF TokensInv, Tokens!TypeOK
<1>14. CASE UNCHANGED tokensVars
  BY <1>14 DEF tokensVars, TokensInv, Tokens!TypeOK, TokenAtHand
<1> QED
  BY <1>6, <1>7, <1>8, <1>9, <1>10, <1>11, <1>12, <1>13, <1>14
     DEF Tokens!Next, Tokens!CallerStep

LEMMA TokensInit == Tokens!Init => TokensInv
<1>1. 0 \in 0 .. MaxTokenFaults /\ 0 \in 0 .. 0 /\ 0 \in Nat
  BY ServicesAssumption
<1> QED
  BY <1>1 DEF Tokens!Init, TokensInv, Tokens!TypeOK, TokenAtHand, Tokens!Phases, Tokens!Answers

-----------------------------------------------------------------------------
(* LoginNonce. *)

LEMMA NoSuchTab == ASSUME NEW t \in Tabs PROVE t # Login!Null /\ t # Login!Spent
BY ServicesAssumption DEF Login!Null, Login!Spent

LEMMA WithoutTab ==
    ASSUME NEW t \in Tabs, NEW n
    PROVE  /\ Login!Without(t, n) \in {n, Login!Spent} /\ Login!Without(t, n) # t
           /\ \A u \in Tabs : Login!Without(t, n) = u => n = u /\ u # t
BY NoSuchTab DEF Login!Without

LEMMA PendingWithoutTab ==
    ASSUME NEW t \in Tabs, pending \subseteq Login!Nonces
    PROVE  /\ Login!PendingWithout(t) \subseteq Login!Nonces
           /\ \A u \in Tabs : u \in Login!PendingWithout(t) => u \in pending /\ u # t
BY WithoutTab DEF Login!PendingWithout, Login!Nonces

(* The answer to a fetch: its nonce is in the cookie, on its way to the document and kept. *)
LEMMA LoginAnswered ==
    ASSUME LoginInv, NEW t \in Tabs, NEW unheard \in SUBSET {Login!Spent},
           Login!Answered(t, unheard),
           lnPhase' \in [Tabs -> Login!Phases],
           \A u \in Tabs \ {t} : lnPhase'[u] = lnPhase[u]
    PROVE  LoginInv'
<1>1. /\ cookie' \in {t, Login!Spent} /\ nonce' = Login!Without(t, nonce)
      /\ pending' = Login!PendingWithout(t) \cup {t} \cup unheard
      /\ kept' = [kept EXCEPT ![t] = TRUE] /\ warming' = [warming EXCEPT ![t] = FALSE]
      /\ lnFaults' = lnFaults \/ Login!Fault
  BY DEF Login!Answered
<1>0. lnFaults' \in 0 .. MaxFaults
  BY <1>1, ServicesAssumption DEF LoginInv, Login!TypeOK, Login!Fault
<1>2. Login!TypeOK'
  <2>1. cookie' \in Login!Nonces /\ nonce' \in Login!Nonces \cup {Login!Null}
    BY <1>1, WithoutTab DEF LoginInv, Login!TypeOK, Login!Nonces
  <2>2. pending' \subseteq Login!Nonces
    BY <1>1, PendingWithoutTab DEF LoginInv, Login!TypeOK, Login!Nonces
  <2> QED
    BY <1>0, <1>1, <2>1, <2>2 DEF LoginInv, Login!TypeOK
<1>3. NonceKept'
  <2> SUFFICES ASSUME NEW u \in Tabs, u # t,
                      \/ cookie' = u \/ nonce' = u \/ u \in pending'
                      \/ lnPhase'[u] \in {"sign", "sign again"}
               PROVE  kept'[u]
    BY <1>1 DEF NonceKept, LoginInv, Login!TypeOK
  <2>1. \/ nonce = u \/ u \in pending \/ lnPhase[u] \in {"sign", "sign again"}
    BY <1>1, NoSuchTab, WithoutTab, PendingWithoutTab DEF LoginInv, Login!TypeOK
  <2>2. kept[u]
    BY <2>1 DEF LoginInv, NonceKept
  <2> QED
    BY <1>1, <2>2 DEF LoginInv, Login!TypeOK
<1> QED
  BY <1>2, <1>3 DEF LoginInv

(* A tab moves, and keeps what it has; where it signs it has a nonce.  The server may
   handle a request it gave up on. *)
LEMMA LoginMoves ==
    ASSUME LoginInv, NEW t \in Tabs, NEW p \in Login!Phases,
           Login!Goto(t, p), p \in {"sign", "sign again"} => kept[t],
           cookie' \in {cookie, Login!Null, Login!Spent},
           pending' \in {pending, pending \cup {Login!Spent}}, UNCHANGED <<nonce, kept>>,
           warming' \in [Tabs -> BOOLEAN], lnFaults' \in 0 .. MaxFaults
    PROVE  LoginInv'
<1>1. lnPhase' = [lnPhase EXCEPT ![t] = p]
  BY DEF Login!Goto
<1>2. Login!TypeOK'
  <2>1. cookie' \in Login!Nonces \cup {Login!Null} /\ pending' \subseteq Login!Nonces
    BY DEF LoginInv, Login!TypeOK, Login!Nonces
  <2> QED
    BY <1>1, <2>1 DEF LoginInv, Login!TypeOK
<1>3. NonceKept'
  BY <1>1, NoSuchTab DEF LoginInv, Login!TypeOK, NonceKept
<1> QED
  BY <1>2, <1>3 DEF LoginInv

(* A tab keeps its nonce no longer, and nothing goes by its name any more. *)
LEMMA LoginForgets ==
    ASSUME LoginInv, NEW t \in Tabs,
           NEW unheard \in SUBSET {Login!Spent},
           kept' = [kept EXCEPT ![t] = FALSE],
           pending' = Login!PendingWithout(t) \cup unheard,
           nonce' \in {Login!Null, Login!Spent, Login!Without(t, nonce)},
           cookie' \in {Login!Null, Login!Spent, Login!Without(t, cookie)},
           lnPhase' \in [Tabs -> Login!Phases],
           lnPhase'[t] \notin {"sign", "sign again"},
           \A u \in Tabs \ {t} : lnPhase'[u] = lnPhase[u],
           warming' \in [Tabs -> BOOLEAN], lnFaults' \in 0 .. MaxFaults
    PROVE  LoginInv'
<1>1. Login!TypeOK'
  <2>1. /\ Login!Without(t, cookie) \in {cookie, Login!Spent}
        /\ Login!Without(t, nonce) \in {nonce, Login!Spent}
        /\ cookie \in Login!Nonces \cup {Login!Null} /\ nonce \in Login!Nonces \cup {Login!Null}
        /\ Login!Spent \in Login!Nonces
    BY WithoutTab DEF LoginInv, Login!TypeOK, Login!Nonces
  <2>3. cookie' \in Login!Nonces \cup {Login!Null} /\ nonce' \in Login!Nonces \cup {Login!Null}
    BY <2>1
  <2>2. pending' \subseteq Login!Nonces
    BY PendingWithoutTab DEF LoginInv, Login!TypeOK, Login!Nonces
  <2> QED
    BY <2>2, <2>3 DEF LoginInv, Login!TypeOK
<1>2. NonceKept'
  <2> SUFFICES ASSUME NEW u \in Tabs,
                      \/ cookie' = u \/ nonce' = u \/ u \in pending'
                      \/ lnPhase'[u] \in {"sign", "sign again"}
               PROVE  kept'[u]
    BY DEF NonceKept
  <2> DEFINE Keeps == \/ cookie = u \/ nonce = u \/ u \in pending
                      \/ lnPhase[u] \in {"sign", "sign again"}
  <2>1. ASSUME cookie' = u PROVE u # t /\ Keeps
    <3>1. u # Login!Null /\ u # Login!Spent
      BY NoSuchTab
    <3>2. Login!Without(t, cookie) = u
      BY <2>1, <3>1
    <3> QED
      BY <3>2, WithoutTab
  <2>2. ASSUME nonce' = u PROVE u # t /\ Keeps
    <3>1. u # Login!Null /\ u # Login!Spent
      BY NoSuchTab
    <3>2. Login!Without(t, nonce) = u
      BY <2>2, <3>1
    <3> QED
      BY <3>2, WithoutTab
  <2>3. ASSUME u \in pending' PROVE u # t /\ Keeps
    BY <2>3, NoSuchTab, PendingWithoutTab DEF LoginInv, Login!TypeOK
  <2>4. ASSUME lnPhase'[u] \in {"sign", "sign again"} PROVE u # t /\ Keeps
    BY <2>4
  <2>5. u # t /\ Keeps
    BY <2>1, <2>2, <2>3, <2>4
  <2>6. kept[u]
    BY <2>5 DEF LoginInv, NonceKept
  <2> QED
    BY <2>5, <2>6 DEF LoginInv, Login!TypeOK
<1> QED
  BY <1>1, <1>2 DEF LoginInv

LEMMA LoginStep == LoginInv /\ [Login!Next]_loginVars => LoginInv'
<1> SUFFICES ASSUME LoginInv, [Login!Next]_loginVars PROVE LoginInv'
  OBVIOUS
<1> USE DEF Login!server
<1>1. /\ lnPhase \in [Tabs -> Login!Phases] /\ warming \in [Tabs -> BOOLEAN]
      /\ kept \in [Tabs -> BOOLEAN] /\ lnFaults \in 0 .. MaxFaults
      /\ pending \subseteq Login!Nonces
      /\ cookie \in Login!Nonces \cup {Login!Null} /\ nonce \in Login!Nonces \cup {Login!Null}
  BY DEF LoginInv, Login!TypeOK
<1>2. \A x \in {"away", "page", "nonce", "sign", "nonce again", "sign again", "in"} :
         x \in Login!Phases
  BY DEF Login!Phases
<1>3. Login!Fault => lnFaults' \in 0 .. MaxFaults
  BY <1>1, ServicesAssumption DEF Login!Fault
<1>0. \A requests : Login!Unheard(requests) \subseteq SUBSET {Login!Spent}
  BY DEF Login!Unheard
<1>4. ASSUME NEW t \in Tabs, Login!Open(t) \/ Login!Click(t) PROVE LoginInv'
  <2>1. /\ UNCHANGED <<cookie, nonce, pending, kept, lnFaults>>
        /\ warming' \in [Tabs -> BOOLEAN]
    BY <1>1, <1>4 DEF Login!Open, Login!Click
  <2>2. \E p \in Login!Phases : Login!Goto(t, p) /\ (p \in {"sign", "sign again"} => kept[t])
    BY <1>2, <1>4 DEF Login!Open, Login!Click
  <2> QED
    BY <1>1, <2>1, <2>2, LoginMoves
<1>5. ASSUME NEW t \in Tabs, Login!Prefetched(t) \/ Login!Fetched(t) PROVE LoginInv'
  <2>1. \E unheard \in SUBSET {Login!Spent} : Login!Answered(t, unheard)
    BY <1>0, <1>5 DEF Login!Prefetched, Login!Fetched
  <2>2. /\ lnPhase' \in [Tabs -> Login!Phases]
        /\ \A u \in Tabs \ {t} : lnPhase'[u] = lnPhase[u]
    BY <1>1, <1>2, <1>5 DEF Login!Prefetched, Login!Fetched, Login!Goto
  <2> QED
    BY <2>1, <2>2, LoginAnswered
<1>6. ASSUME NEW t \in Tabs, Login!Verify(t) PROVE LoginInv'
  <2>1. cookie' = Login!Null /\ UNCHANGED <<warming, lnFaults>>
    BY <1>6 DEF Login!Verify
  <2>2. CASE /\ Login!Goto(t, "in") /\ kept' = [kept EXCEPT ![t] = FALSE]
             /\ nonce' \in IF nonce = Login!Null THEN {Login!Null, Login!Spent}
                           ELSE {Login!Without(t, nonce)}
             /\ pending' = Login!PendingWithout(t)
    <3>0. {} \in SUBSET {Login!Spent} /\ pending' = Login!PendingWithout(t) \cup {}
      BY <2>2
    <3>1. /\ lnPhase' \in [Tabs -> Login!Phases]
          /\ lnPhase'[t] \notin {"sign", "sign again"}
          /\ \A u \in Tabs \ {t} : lnPhase'[u] = lnPhase[u]
      BY <1>1, <1>2, <2>2 DEF Login!Goto
    <3>2. nonce' \in {Login!Null, Login!Spent, Login!Without(t, nonce)}
      BY <2>2
    <3> QED
      BY <1>1, <2>1, <2>2, <3>0, <3>1, <3>2, LoginForgets
  <2>3. CASE /\ Login!Goto(t, "nonce again") \/ Login!Goto(t, "page")
             /\ UNCHANGED <<nonce, pending, kept>>
    BY <1>1, <1>2, <2>1, <2>3, LoginMoves
  <2> QED
    BY <1>6, <2>2, <2>3 DEF Login!Verify
<1>7. ASSUME NEW t \in Tabs, Login!Leave(t) \/ Login!KeptAges(t) PROVE LoginInv'
  <2>1. PICK unheard \in SUBSET {Login!Spent} : Login!Forget(t, unheard)
    BY <1>0, <1>7 DEF Login!Leave, Login!KeptAges
  <2>2. /\ lnPhase' \in [Tabs -> Login!Phases]
        /\ lnPhase'[t] \notin {"sign", "sign again"}
        /\ \A u \in Tabs \ {t} : lnPhase'[u] = lnPhase[u]
    BY <1>1, <1>2, <1>7 DEF Login!Leave, Login!KeptAges, Login!Goto
  <2>3. warming' \in [Tabs -> BOOLEAN] /\ lnFaults' \in 0 .. MaxFaults
    BY <1>1, <1>3, <1>7 DEF Login!Leave, Login!KeptAges
  <2> QED
    <3>1. /\ kept' = [kept EXCEPT ![t] = FALSE]
          /\ nonce' = Login!Without(t, nonce)
          /\ pending' = Login!PendingWithout(t) \cup unheard
          /\ cookie' \in {Login!Spent, Login!Without(t, cookie)}
      BY <2>1 DEF Login!Forget
    <3> QED
      BY <2>2, <2>3, <3>1, LoginForgets
<1>13. ASSUME NEW requests, NEW unheard \in Login!Unheard(requests),
              Login!StillHandled(unheard)
       PROVE  /\ cookie' \in {cookie, Login!Spent}
              /\ pending' \in {pending, pending \cup {Login!Spent}}
  BY <1>13 DEF Login!Unheard, Login!StillHandled
<1>8. ASSUME NEW t \in Tabs, Login!ClickFails(t) PROVE LoginInv'
  <2>1. /\ cookie' \in {cookie, Login!Spent}
        /\ pending' \in {pending, pending \cup {Login!Spent}}
    BY <1>8, <1>13 DEF Login!ClickFails
  <2> QED
    BY <1>1, <1>2, <1>3, <1>8, <2>1, LoginMoves DEF Login!ClickFails
<1>9. ASSUME NEW t \in Tabs, Login!PrefetchFails(t) PROVE LoginInv'
  <2>1. /\ cookie' \in {cookie, Login!Spent}
        /\ pending' \in {pending, pending \cup {Login!Spent}}
    BY <1>9, <1>13 DEF Login!PrefetchFails
  <2>2. /\ warming' \in [Tabs -> BOOLEAN] /\ lnFaults' \in 0 .. MaxFaults
        /\ UNCHANGED <<nonce, lnPhase, kept>>
    BY <1>1, <1>3, <1>9 DEF Login!PrefetchFails
  <2>3. cookie' \in Login!Nonces \cup {Login!Null} /\ pending' \subseteq Login!Nonces
    BY <1>1, <2>1 DEF Login!Nonces
  <2>4. Login!TypeOK'
    BY <1>1, <2>2, <2>3 DEF Login!TypeOK
  <2>5. NonceKept'
    BY <2>1, <2>2, NoSuchTab DEF LoginInv, NonceKept
  <2> QED
    BY <2>4, <2>5 DEF LoginInv
<1>10. ASSUME NEW n \in Login!Nonces, Login!Persist(n) \/ Login!PersistFails(n)
       PROVE  LoginInv'
  <2>1. /\ n \in pending /\ pending' \subseteq pending /\ nonce' \in {n, nonce}
        /\ UNCHANGED <<cookie, lnPhase, warming, kept>> /\ lnFaults' \in 0 .. MaxFaults
    BY <1>1, <1>3, <1>10 DEF Login!Persist, Login!PersistFails, Login!Written
  <2>2. Login!TypeOK'
    BY <1>1, <2>1 DEF Login!TypeOK
  <2>3. NonceKept'
    BY <2>1 DEF LoginInv, NonceKept
  <2> QED
    BY <2>2, <2>3 DEF LoginInv
<1>11. CASE Login!CookieExpires \/ Login!StoredExpires
  <2>1. /\ cookie' \in {cookie, Login!Null} /\ nonce' \in {nonce, Login!Null}
        /\ UNCHANGED <<pending, lnPhase, warming, kept>> /\ lnFaults' \in 0 .. MaxFaults
    BY <1>1, <1>3, <1>11 DEF Login!CookieExpires, Login!StoredExpires
  <2>2. Login!TypeOK'
    BY <1>1, <2>1 DEF Login!TypeOK
  <2>3. NonceKept'
    BY <2>1, NoSuchTab DEF LoginInv, NonceKept
  <2> QED
    BY <2>2, <2>3 DEF LoginInv
<1>12. CASE UNCHANGED loginVars
  BY <1>12 DEF loginVars, LoginInv, Login!TypeOK, NonceKept
<1> QED
  BY <1>4, <1>5, <1>6, <1>7, <1>8, <1>9, <1>10, <1>11, <1>12 DEF Login!Next

LEMMA LoginInit == Login!Init => LoginInv
<1>1. 0 \in 0 .. MaxFaults
  BY ServicesAssumption
<1> QED
  BY <1>1, NoSuchTab DEF Login!Init, LoginInv, Login!TypeOK, NonceKept, Login!Phases

-----------------------------------------------------------------------------
(* SharedConnection. *)
LEMMA ConnectionStep == ConnectionInv /\ [Connection!Next]_connectionVars => ConnectionInv'
<1> SUFFICES ASSUME ConnectionInv, [Connection!Next]_connectionVars PROVE ConnectionInv'
  OBVIOUS
<1>1. /\ conn \in BOOLEAN /\ promise \in {"null", "pending", "resolved"}
      /\ waiting \subseteq Clients /\ got \in [Clients -> {"nothing", "connection", "error"}]
      /\ attempts \in {0, 1} /\ failures \in 0 .. MaxFailures
  BY DEF ConnectionInv, Connection!TypeOK, WaitersServed
<1>2. ASSUME NEW c \in Clients, Connection!Connected(c) PROVE ConnectionInv'
  BY <1>1, <1>2 DEF Connection!Connected, ConnectionInv, Connection!TypeOK, WaitersServed
<1>3. ASSUME NEW c \in Clients, Connection!Asks(c) PROVE ConnectionInv'
  <2>1. /\ ~conn /\ promise \in {"null", "pending"} /\ waiting' = waiting \cup {c}
        /\ promise' = "pending" /\ UNCHANGED <<conn, got, failures>>
        /\ attempts' = IF promise = "null" THEN attempts + 1 ELSE attempts
    BY <1>1, <1>3 DEF Connection!Asks, ConnectionInv, WaitersServed
  <2>2. attempts' = 1
    BY <1>1, <2>1 DEF ConnectionInv, WaitersServed
  <2> QED
    BY <1>1, <2>1, <2>2 DEF ConnectionInv, Connection!TypeOK, WaitersServed
<1>4. ASSUME NEW result \in {"connection", "error"}, Connection!Settles(result)
      PROVE  /\ ~conn /\ waiting' = {} /\ attempts' = 0
             /\ got' \in [Clients -> {"nothing", "connection", "error"}]
  <2>1. promise = "pending" /\ attempts = 1 /\ ~conn
    BY <1>1, <1>4 DEF Connection!Settles, ConnectionInv, WaitersServed
  <2> QED
    BY <1>1, <1>4, <2>1 DEF Connection!Settles
<1>5. CASE Connection!Succeeds
  BY <1>1, <1>4, <1>5 DEF Connection!Succeeds, ConnectionInv, Connection!TypeOK, WaitersServed
<1>6. CASE Connection!Fails
  <2>1. failures' \in 0 .. MaxFailures
    BY <1>1, <1>6, ServicesAssumption DEF Connection!Fails
  <2> QED
    BY <1>1, <1>4, <1>6, <2>1
       DEF Connection!Fails, Connection!PromiseAfterFailure, ConnectionInv, Connection!TypeOK,
           WaitersServed
<1>7. CASE Connection!Restart
  <2>1. failures' \in 0 .. MaxFailures
    BY <1>1, <1>7, ServicesAssumption DEF Connection!Restart
  <2>2. /\ conn' = FALSE /\ promise' = "null" /\ waiting' = {} /\ attempts' = 0
        /\ got' = [c \in Clients |-> "nothing"]
    BY <1>7 DEF Connection!Restart
  <2>3. Connection!TypeOK'
    BY <2>1, <2>2 DEF Connection!TypeOK
  <2>4. WaitersServed'
    BY <2>2 DEF WaitersServed
  <2> QED
    BY <2>3, <2>4 DEF ConnectionInv
<1>8. CASE UNCHANGED connectionVars
  BY <1>8 DEF connectionVars, ConnectionInv, Connection!TypeOK, WaitersServed
<1> QED
  BY <1>2, <1>3, <1>5, <1>6, <1>7, <1>8 DEF Connection!Next, Connection!Request

LEMMA ConnectionInit == Connection!Init => ConnectionInv
<1> SUFFICES ASSUME Connection!Init PROVE ConnectionInv
  OBVIOUS
<1>1. 0 \in 0 .. MaxFailures
  BY ServicesAssumption
<1>2. Connection!TypeOK
  BY <1>1 DEF Connection!Init, Connection!TypeOK
<1>3. WaitersServed
  BY DEF Connection!Init, WaitersServed
<1> QED
  BY <1>2, <1>3 DEF ConnectionInv

-----------------------------------------------------------------------------
(* ProviderCircuit. *)
LEMMA CircuitStep == CircuitInv /\ [Circuit!Next]_circuitVars => CircuitInv'
<1> SUFFICES ASSUME CircuitInv, [Circuit!Next]_circuitVars PROVE CircuitInv'
  OBVIOUS
<1> USE DEF Circuit!endpoint
<1>1. /\ up \in BOOLEAN /\ outages \in 0 .. MaxOutages
      /\ table \in Callers \cup {Circuit!None}
      /\ pcFailures \in [Callers -> 0 .. Retries + 1]
      /\ opened \in [Callers -> {"never", "open", "past"}]
      /\ mine \in [Callers -> Callers] /\ attempt \in [Callers -> 0 .. Retries + 1]
      /\ outcome \in [Callers -> {"none", "ok", "error", "refused"}]
  BY DEF CircuitInv, Circuit!TypeOK
<1>2. 0 \in 0 .. Retries + 1 /\ 1 \in 0 .. Retries + 1 /\ Retries \in Nat
  BY ServicesAssumption
<1>3. ASSUME NEW c \in Callers, Circuit!Call(c) PROVE CircuitInv'
  <2>1. Circuit!Object(c) \in Callers
    BY <1>1 DEF Circuit!Object
  <2>2. /\ mine' \in [Callers -> Callers] /\ attempt' \in [Callers -> 0 .. Retries + 1]
        /\ outcome' \in [Callers -> {"none", "ok", "error", "refused"}]
        /\ UNCHANGED <<up, outages, table, pcFailures, opened>>
    BY <1>1, <1>2, <1>3, <2>1 DEF Circuit!Call
  <2> QED
    BY <1>1, <2>2 DEF CircuitInv, Circuit!TypeOK, RefusedForFailures
<1>4. ASSUME NEW c \in Callers, Circuit!Succeeds(c) PROVE CircuitInv'
  <2>1. /\ attempt' \in [Callers -> 0 .. Retries + 1]
        /\ outcome' \in [Callers -> {"none", "ok", "error", "refused"}]
        /\ UNCHANGED <<up, outages, table, pcFailures, opened, mine>>
    BY <1>1, <1>2, <1>4 DEF Circuit!Succeeds, Circuit!Ends
  <2> QED
    BY <1>1, <2>1 DEF CircuitInv, Circuit!TypeOK, RefusedForFailures
<1>5. ASSUME NEW c \in Callers, Circuit!Fails(c) PROVE CircuitInv'
  <2> DEFINE o == mine[c]
             counted == IF pcFailures[o] > Retries THEN pcFailures[o] ELSE pcFailures[o] + 1
             state == IF pcFailures[o] >= Retries THEN "open" ELSE opened[o]
  <2>1. o \in Callers
    BY <1>1
  <2>2. /\ pcFailures' = [pcFailures EXCEPT ![o] = counted] /\ table' = o
        /\ opened' = [opened EXCEPT ![o] = state] /\ UNCHANGED <<up, outages, mine>>
    BY <1>5 DEF Circuit!Fails
  <2>3. pcFailures[o] \in 0 .. Retries + 1 /\ opened[o] \in {"never", "open", "past"}
    BY <1>1, <2>1
  <2>4. /\ counted \in 0 .. Retries + 1 /\ state \in {"never", "open", "past"}
        /\ state # "never" => counted > Retries
    <3>1. opened[o] # "never" => pcFailures[o] > Retries
      BY <2>1 DEF CircuitInv, RefusedForFailures
    <3> QED
      BY <1>2, <2>3, <3>1
  <2>5. /\ attempt' \in [Callers -> 0 .. Retries + 1]
        /\ outcome' \in [Callers -> {"none", "ok", "error", "refused"}]
    <3>1. attempt[c] \in 0 .. Retries + 1
      BY <1>1
    <3>2. attempt[c] <= Retries => attempt[c] + 1 \in 0 .. Retries + 1
      BY <1>2, <3>1
    <3> QED
      BY <1>1, <1>2, <1>5, <3>2 DEF Circuit!Fails, Circuit!Ends
  <2> HIDE DEF o, counted, state
  <2>6. RefusedForFailures'
    BY <1>1, <2>1, <2>2, <2>4 DEF CircuitInv, RefusedForFailures
  <2> QED
    BY <1>1, <2>1, <2>2, <2>4, <2>5, <2>6 DEF CircuitInv, Circuit!TypeOK
<1>6. ASSUME NEW o \in Callers, Circuit!Cools(o) PROVE CircuitInv'
  BY <1>1, <1>6 DEF Circuit!Cools, CircuitInv, Circuit!TypeOK, RefusedForFailures
<1>7. CASE Circuit!GoesDown \/ Circuit!ComesUp
  <2>1. /\ up' \in BOOLEAN
        /\ outages' = outages \/ (outages < MaxOutages /\ outages' = outages + 1)
    BY <1>7 DEF Circuit!GoesDown, Circuit!ComesUp
  <2>2. outages' \in 0 .. MaxOutages
    BY <1>1, <2>1, ServicesAssumption
  <2>3. UNCHANGED <<table, pcFailures, opened, mine, attempt, outcome>>
    BY <1>7 DEF Circuit!GoesDown, Circuit!ComesUp
  <2> QED
    BY <1>1, <2>1, <2>2, <2>3 DEF CircuitInv, Circuit!TypeOK, RefusedForFailures
<1>8. CASE UNCHANGED circuitVars
  BY <1>8 DEF circuitVars, CircuitInv, Circuit!TypeOK, RefusedForFailures
<1> QED
  BY <1>3, <1>4, <1>5, <1>6, <1>7, <1>8 DEF Circuit!Next, Circuit!CallGoesOn

LEMMA CircuitInit == Circuit!Init => CircuitInv
<1>1. 0 \in 0 .. Retries + 1 /\ 0 \in 0 .. MaxOutages
  BY ServicesAssumption
<1> QED
  BY <1>1 DEF Circuit!Init, CircuitInv, Circuit!TypeOK, RefusedForFailures

-----------------------------------------------------------------------------
(* RateLimits. *)

(* A count, whatever is counted. *)
LEMMA Incremented ==
    ASSUME NEW n \in 0 .. Limit + 1
    PROVE  Limits!Increment(n) \in 1 .. Limit + 1
BY ServicesAssumption DEF Limits!Increment

LEMMA LimitsStep == LimitsInv /\ [Limits!Next]_limitsVars => LimitsInv'
<1> SUFFICES ASSUME LimitsInv, [Limits!Next]_limitsVars PROVE LimitsInv'
  OBVIOUS
<1> USE DEF Limits!redis, Limits!memory, Limits!Forever
<1>1. /\ counter \in 0 .. Limit + 1 /\ count \in 0 .. Limit + 1
      /\ ttl \in 0 .. Window + 1 /\ age \in 0 .. Window + 1 /\ expiring \in {0, 1}
      /\ allowed \in [redis : BOOLEAN, memory : BOOLEAN]
      /\ orphaned \in BOOLEAN /\ breaks \in 0 .. MaxBreaks
      /\ counter = 0 => expiring = 0 /\ ttl = Window + 1
      /\ expiring = 1 => ttl = Window + 1
      /\ counter > 0 /\ ttl = Window + 1 => expiring = 1 \/ orphaned
  BY DEF LimitsInv, Limits!TypeOK, NoKeyForGood
<1>2. /\ Window \in Nat /\ Limit \in Nat /\ MaxBreaks \in Nat
      /\ expiring \in 0 .. 1 /\ 0 \in 0 .. 1 /\ 1 \in 0 .. 1
  BY <1>1, ServicesAssumption
<1>3. CASE Limits!Incr
  <2>1. /\ counter' = Limits!Increment(counter)
        /\ expiring' = IF counter = 0 THEN expiring + 1 ELSE expiring
        /\ UNCHANGED <<ttl, count, age, orphaned, breaks>>
    BY <1>3 DEF Limits!Incr
  <2>2. counter' \in 1 .. Limit + 1
    BY <1>1, <2>1, Incremented
  <2>3. (counter' <= Limit) \in BOOLEAN
    OBVIOUS
  <2>4. allowed' \in [redis : BOOLEAN, memory : BOOLEAN]
    BY <1>1, <1>3, <2>3 DEF Limits!Incr
  <2>5. /\ expiring' \in 0 .. 1 /\ expiring' = 1 => ttl' = Window + 1
        /\ ttl' = Window + 1 => expiring' = 1 \/ orphaned'
    BY <1>1, <1>2, <2>1
  <2>6. counter' \in 0 .. Limit + 1 /\ counter' # 0
    BY <1>2, <2>2
  <2> QED
    BY <1>1, <2>1, <2>4, <2>5, <2>6 DEF LimitsInv, Limits!TypeOK, NoKeyForGood
<1>4. CASE Limits!Expire
  <2>1. /\ expiring = 1 /\ expiring' = 0 /\ ttl' = Window
        /\ UNCHANGED <<counter, count, age, allowed, orphaned, breaks>>
    BY <1>1, <1>4 DEF Limits!Expire, Limits!SetExpiry
  <2>2. Window \in 0 .. Window + 1 /\ Window # Window + 1 /\ counter # 0
    BY <1>1, <1>2, <2>1
  <2> QED
    BY <1>1, <1>2, <2>1, <2>2 DEF LimitsInv, Limits!TypeOK, NoKeyForGood
<1>5. CASE Limits!ExpireLost
  <2>1. /\ expiring = 1 /\ expiring' = 0 /\ orphaned' = TRUE
        /\ breaks' = breaks + 1 /\ breaks < MaxBreaks
        /\ UNCHANGED <<counter, ttl, count, age, allowed>>
    BY <1>1, <1>5 DEF Limits!ExpireLost
  <2>2. breaks' \in 0 .. MaxBreaks /\ counter # 0
    BY <1>1, <1>2, <2>1
  <2> QED
    BY <1>1, <1>2, <2>1, <2>2 DEF LimitsInv, Limits!TypeOK, NoKeyForGood
<1>6. CASE Limits!IncrFails
  <2>1. /\ breaks' = breaks + 1 /\ breaks < MaxBreaks
        /\ UNCHANGED <<counter, ttl, expiring, orphaned, count, age>>
    BY <1>6 DEF Limits!IncrFails
  <2>2. allowed' \in [redis : BOOLEAN, memory : BOOLEAN]
    BY <1>1, <1>6 DEF Limits!IncrFails
  <2>3. breaks' \in 0 .. MaxBreaks
    BY <1>1, <1>2, <2>1
  <2> QED
    BY <1>1, <1>2, <2>1, <2>2, <2>3 DEF LimitsInv, Limits!TypeOK, NoKeyForGood
<1>7. CASE Limits!Ask
  <2>1. UNCHANGED <<counter, ttl, expiring, orphaned, breaks>>
    BY <1>7 DEF Limits!Ask
  <2>2. Limits!Increment(count) \in 0 .. Limit + 1 /\ 1 \in 0 .. Limit + 1
        /\ 0 \in 0 .. Window + 1
    BY <1>1, <1>2, Incremented
  <2>3. count' \in 0 .. Limit + 1 /\ age' \in 0 .. Window + 1
    BY <1>1, <1>7, <2>2 DEF Limits!Ask
  <2>4. allowed' \in [redis : BOOLEAN, memory : BOOLEAN]
    <3>1. (count' <= Limit) \in BOOLEAN
      OBVIOUS
    <3> QED
      BY <1>1, <1>7, <3>1 DEF Limits!Ask
  <2> QED
    BY <1>1, <1>2, <2>1, <2>3, <2>4 DEF LimitsInv, Limits!TypeOK, NoKeyForGood
<1>8. CASE Limits!Tick
  <2>1. UNCHANGED <<expiring, count, allowed, orphaned, breaks>>
    BY <1>8 DEF Limits!Tick
  <2>2. age' \in 0 .. Window + 1
    BY <1>1, <1>2, <1>8 DEF Limits!Tick
  <2>3. \/ ttl \in 1 .. Window /\ ttl' = ttl - 1 /\ counter' = counter
        \/ ttl \notin 1 .. Window /\ ttl' = Window + 1
           /\ counter' = IF ttl = 0 THEN 0 ELSE counter
    BY <1>8 DEF Limits!Tick
  <2>4. /\ ttl' \in 0 .. Window + 1 /\ counter' \in 0 .. Limit + 1
        /\ counter' = 0 => expiring = 0 /\ ttl' = Window + 1
        /\ expiring = 1 => ttl' = Window + 1
        /\ counter' > 0 /\ ttl' = Window + 1 => expiring = 1 \/ orphaned
    <3>1. CASE ttl \in 1 .. Window /\ ttl' = ttl - 1 /\ counter' = counter
      BY <1>1, <1>2, <3>1
    <3>2. CASE ttl = 0 /\ ttl' = Window + 1 /\ counter' = 0
      BY <1>1, <1>2, <3>2
    <3>3. CASE ttl = Window + 1 /\ ttl' = Window + 1 /\ counter' = counter
      BY <1>1, <1>2, <3>3
    <3> QED
      BY <1>1, <1>2, <2>3, <3>1, <3>2, <3>3
  <2> QED
    BY <1>1, <1>2, <2>1, <2>2, <2>4 DEF LimitsInv, Limits!TypeOK, NoKeyForGood
<1>9. CASE UNCHANGED limitsVars
  BY <1>9 DEF limitsVars, LimitsInv, Limits!TypeOK, NoKeyForGood
<1> QED
  BY <1>3, <1>4, <1>5, <1>6, <1>7, <1>8, <1>9 DEF Limits!Next

LEMMA LimitsInit == Limits!Init => LimitsInv
<1> SUFFICES ASSUME Limits!Init PROVE LimitsInv
  OBVIOUS
<1>1. /\ counter = 0 /\ count = 0 /\ expiring = 0 /\ breaks = 0 /\ ttl = Window + 1
      /\ age = Window + 1 /\ orphaned = FALSE /\ allowed = [redis |-> TRUE, memory |-> TRUE]
  BY DEF Limits!Init, Limits!Forever
<1>2. /\ 0 \in 0 .. Limit + 1 /\ 0 \in 0 .. MaxBreaks /\ 0 \in 0 .. 1 /\ ~(0 > 0)
      /\ Window + 1 \in 0 .. Window + 1
  BY ServicesAssumption
<1> QED
  BY <1>1, <1>2 DEF LimitsInv, Limits!TypeOK, NoKeyForGood, Limits!Forever

-----------------------------------------------------------------------------
(* All of them together.  What each component keeps, ServicesSpec keeps. *)
ServicesInv ==
    /\ Status!TypeOK /\ AuditInv /\ ImportInv /\ TokensInv /\ LoginInv
    /\ ConnectionInv /\ CircuitInv /\ LimitsInv

(* A step is one of every component's, or leaves that component alone. *)
LEMMA ServiceSteps ==
    ASSUME [ServicesNext]_servicesVars
    PROVE  /\ [Status!Next]_statusVars /\ [Next]_vars /\ [ImporterNext]_importerVars
           /\ [Tokens!Next]_tokensVars /\ [Login!Next]_loginVars
           /\ [Connection!Next]_connectionVars /\ [Circuit!Next]_circuitVars
           /\ [Limits!Next]_limitsVars
<1> USE DEF auditsVars, processVars, handlerVars
<1>1. CASE UNCHANGED servicesVars
  BY <1>1 DEF servicesVars
<1>2. CASE StatusRuns
  BY <1>2 DEF StatusRuns
<1>3. CASE AuditRuns
  BY <1>3 DEF AuditRuns
<1>4. CASE ImporterRuns
  BY <1>4 DEF ImporterRuns
<1>5. CASE TokensRun
  BY <1>5 DEF TokensRun
<1>6. CASE LoginRuns
  BY <1>6 DEF LoginRuns
<1>7. CASE ConnectionRuns
  BY <1>7 DEF ConnectionRuns
<1>8. CASE CircuitRuns
  BY <1>8 DEF CircuitRuns
<1>9. CASE LimitsRun
  BY <1>9 DEF LimitsRun
<1> QED
  BY <1>1, <1>2, <1>3, <1>4, <1>5, <1>6, <1>7, <1>8, <1>9 DEF ServicesNext

LEMMA ServicesSizes == ScoreAssumption /\ FileAssumption
BY ServicesAssumption DEF ScoreAssumption, FileAssumption, Importable

LEMMA ServicesInductive ==
    /\ ServicesInit => ServicesInv
    /\ ServicesInv /\ [ServicesNext]_servicesVars => ServicesInv'
<1>1. ASSUME ServicesInit PROVE ServicesInv
  BY <1>1, ServicesSizes, StatusInit, AuditInit, ImportInit, TokensInit, LoginInit,
     ConnectionInit, CircuitInit, LimitsInit DEF ServicesInit, ServicesInv
<1>2. ASSUME ServicesInv, [ServicesNext]_servicesVars PROVE ServicesInv'
  <2>1. /\ [Status!Next]_statusVars /\ [Next]_vars /\ [ImporterNext]_importerVars
        /\ [Tokens!Next]_tokensVars /\ [Login!Next]_loginVars
        /\ [Connection!Next]_connectionVars /\ [Circuit!Next]_circuitVars
        /\ [Limits!Next]_limitsVars
    BY <1>2, ServiceSteps
  <2> QED
    BY <1>2, <2>1, ServicesSizes, StatusStep, AuditStep, ImportStep, TokensStep, LoginStep,
       ConnectionStep, CircuitStep, LimitsStep DEF ServicesInv
<1> QED
  BY <1>1, <1>2

LEMMA ServicesAlways == ServicesSpec => []ServicesInv
BY ServicesInductive, PTL DEF ServicesSpec

(* The types of all variables, of every component whichever of them runs. *)
THEOREM ServicesTypes == ServicesSpec => []ServicesTypeOK
<1>1. ServicesInv => ServicesTypeOK
  BY DEF ServicesInv, ServicesTypeOK, AuditInv, ImportInv, TokensInv, LoginInv,
         ConnectionInv, CircuitInv, LimitsInv
<1> QED
  BY <1>1, ServicesAlways, PTL

(* ServicesSpec implements the specifications of UrlAudit and Importer, so that what
   UrlAuditProofs and ImporterProofs show of those holds of it. *)
THEOREM ServicesImplemented == ServicesSpec => Spec /\ ImporterSpec
<1>1. ServicesInit => Init /\ ImporterInit
  BY DEF ServicesInit
<1>2. [ServicesNext]_servicesVars => [Next]_vars /\ [ImporterNext]_importerVars
  BY ServiceSteps
<1> QED
  BY <1>1, <1>2, PTL DEF ServicesSpec, Spec, ImporterSpec

(* Among the requests that share the cached pair of tokens, whichever are refused, fail
   or see the cache cleared under them: none is sent without a token. *)
THEOREM TokensAtHand == ServicesSpec => []TokenAtHand
<1>1. ServicesInv => TokenAtHand
  BY DEF ServicesInv, TokensInv
<1> QED
  BY <1>1, ServicesAlways, PTL

(* However many tabs share the cookie, and however late and in whatever order nonces are
   stored: a nonce that can let a tab in is the one this tab keeps, never one it was given
   before. *)
THEOREM NoncesKept == ServicesSpec => []NonceKept
<1>1. ServicesInv => NonceKept
  BY DEF ServicesInv, LoginInv
<1> QED
  BY <1>1, ServicesAlways, PTL

(* Of any number of requests that ask for the connection at once, also after attempts
   that failed: one attempt runs while any of them waits, and none waits without one. *)
THEOREM OneAttemptServes == ServicesSpec => []WaitersServed
<1>1. ServicesInv => WaitersServed
  BY DEF ServicesInv, ConnectionInv
<1> QED
  BY <1>1, ServicesAlways, PTL

(* A circuit is open, or was, only where that many failures were counted, although calls
   that overlap count in objects of their own which replace one another in the table. *)
THEOREM CircuitOpensForFailures == ServicesSpec => []RefusedForFailures
<1>1. ServicesInv => RefusedForFailures
  BY DEF ServicesInv, CircuitInv
<1> QED
  BY <1>1, ServicesAlways, PTL

(* INCR and EXPIRE are two calls: for any window and limit, and however requests overlap,
   a key is without a time to live only between them, or when the second was lost. *)
THEOREM KeysExpire == ServicesSpec => []NoKeyForGood
<1>1. ServicesInv => NoKeyForGood
  BY DEF ServicesInv, LimitsInv
<1> QED
  BY <1>1, ServicesAlways, PTL

===============================================================================
