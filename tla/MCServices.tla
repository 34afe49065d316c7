------------------------------ MODULE MCServices ------------------------------
(***************************************************************************)
(* The components that share no state with one another and whose           *)
(* properties include liveness: WalletStatus, UrlAudit, Importer,          *)
(* TokenRefresh, LoginNonce, SharedConnection, ProviderCircuit and         *)
(* RateLimits.  focus names the one that runs; the others stay as they     *)
(* began, so the state space is the union of theirs, and each property is  *)
(* checked in all of its component's behaviours.  UrlAudit and Importer    *)
(* are extended, so that the properties checked here are the ones proved   *)
(* of them; the others are instances.                                      *)
(***************************************************************************)
EXTENDS UrlAudit, Importer

CONSTANTS
    Flaggers, Viewers, Scanners, Threshold, MaxFlags, MaxChanges, MaxFaults,
    Callers, MaxExpiries, MaxTokenFaults,
    Tabs,
    Clients, MaxFailures,
    Retries, MaxOutages,
    Window, Limit, MaxBreaks

(* Scores, bounds and limits are numbers; a finding is a delta, and no job has one; the
   lines to import are lines that parse and name a provider in one way; no tab is called
   like the names for no nonce. *)
ASSUME ServicesAssumption ==
    /\ Bases \subseteq Nat /\ Penalties \subseteq Nat /\ Deltas \subseteq Nat
    /\ Running \notin Deltas /\ NoJob \notin Deltas
    /\ AlertScore \in Nat \ {0} /\ MaxDeliveries \in Nat
    /\ Lines \in Nat /\ BatchSize \in Nat /\ Attempts \in Nat \ {0}
    /\ Direct \cup Named \cup Loose \subseteq File
    /\ Malformed \cap (Direct \cup Named) = {} /\ Direct \cap Named = {}
    /\ Threshold \in Nat /\ MaxFlags \in Nat /\ MaxChanges \in Nat /\ MaxFaults \in Nat
    /\ MaxTokenFaults \in Nat /\ MaxFailures \in Nat
    /\ Retries \in Nat /\ MaxOutages \in Nat
    /\ Window \in Nat /\ Limit \in Nat /\ MaxBreaks \in Nat
    /\ Tabs \cap {"null", "spent"} = {}

VARIABLES
    focus,
    wallet, heavy, flagDocs, page, lock, wsPhase, held, changes, wsFaults,
    issued, expired, used, cached, trPhase, token, answer, trFaults,
    cookie, nonce, pending, lnPhase, warming, kept, lnFaults,
    conn, promise, waiting, got, attempts, failures,
    up, outages, table, pcFailures, opened, mine, attempt, outcome,
    counter, ttl, expiring, count, age, allowed, orphaned, breaks

Status == INSTANCE WalletStatus WITH phase <- wsPhase, faults <- wsFaults
Tokens == INSTANCE TokenRefresh WITH
              phase <- trPhase, faults <- trFaults, MaxFaults <- MaxTokenFaults
Login == INSTANCE LoginNonce WITH
             phase <- lnPhase, faults <- lnFaults, stored <- nonce
Connection == INSTANCE SharedConnection
Circuit == INSTANCE ProviderCircuit WITH failures <- pcFailures
Limits == INSTANCE RateLimits

statusVars == <<wallet, heavy, flagDocs, page, lock, wsPhase, held, changes, wsFaults>>
auditsVars == vars
tokensVars == <<issued, expired, used, cached, trPhase, token, answer, trFaults>>
loginVars == <<cookie, nonce, pending, lnPhase, warming, kept, lnFaults>>
connectionVars == <<conn, promise, waiting, got, attempts, failures>>
circuitVars == <<up, outages, table, pcFailures, opened, mine, attempt, outcome>>
limitsVars == <<counter, ttl, expiring, count, age, allowed, orphaned, breaks>>
processVars == <<connectionVars, circuitVars, limitsVars>>

servicesVars == <<focus, statusVars, auditsVars, importerVars, tokensVars, loginVars, processVars>>

ServicesInit ==
    /\ focus \in {"status", "audits", "import", "tokens", "login",
                 "connection", "circuit", "limits"}
    /\ Status!Init /\ Init /\ ImporterInit /\ Tokens!Init /\ Login!Init
    /\ Connection!Init /\ Circuit!Init /\ Limits!Init
    /\ public => focus = "audits"

StatusRuns ==
    /\ focus = "status" /\ Status!Next
    /\ UNCHANGED <<focus, auditsVars, importerVars, tokensVars, loginVars, processVars>>
AuditRuns ==
    /\ focus = "audits" /\ Next
    /\ UNCHANGED <<focus, statusVars, importerVars, tokensVars, loginVars, processVars>>
ImporterRuns ==
    /\ focus = "import" /\ ImporterNext
    /\ UNCHANGED <<focus, statusVars, auditsVars, tokensVars, loginVars, processVars>>
TokensRun ==
    /\ focus = "tokens" /\ Tokens!Next
    /\ UNCHANGED <<focus, statusVars, auditsVars, importerVars, loginVars, processVars>>
LoginRuns ==
    /\ focus = "login" /\ Login!Next
    /\ UNCHANGED <<focus, statusVars, auditsVars, importerVars, tokensVars, processVars>>

handlerVars == <<statusVars, auditsVars, importerVars, tokensVars, loginVars>>
ConnectionRuns ==
    /\ focus = "connection" /\ Connection!Next
    /\ UNCHANGED <<focus, handlerVars, circuitVars, limitsVars>>
CircuitRuns ==
    /\ focus = "circuit" /\ Circuit!Next
    /\ UNCHANGED <<focus, handlerVars, connectionVars, limitsVars>>
LimitsRun ==
    /\ focus = "limits" /\ Limits!Next
    /\ UNCHANGED <<focus, handlerVars, connectionVars, circuitVars>>

ServicesNext ==
    \/ StatusRuns \/ AuditRuns \/ ImporterRuns \/ TokensRun \/ LoginRuns
    \/ ConnectionRuns \/ CircuitRuns \/ LimitsRun

(* What goes on by itself; an operator who imports, a user who clicks and the
   requests that come in do not.  What the connection, the circuit and the limits
   promise, they promise to clients that keep asking. *)
Fairness ==
    /\ WF_statusVars(focus = "status" /\ Status!PageExpires)
    /\ \A v \in Viewers : WF_statusVars(focus = "status" /\ Status!ViewGoesOn(v))
    /\ \A s \in Scanners : WF_statusVars(focus = "status" /\ Status!ScanGoesOn(s))
    /\ WF_importerVars(focus = "import" /\ RunStep)
    /\ \A c \in Callers : WF_tokensVars(focus = "tokens" /\ Tokens!CallerStep(c))
    /\ \A t \in Tabs :
          /\ WF_loginVars(focus = "login" /\ Login!LoginGoesOn(t))
          /\ SF_loginVars(focus = "login" /\ Login!KeptAges(t))
    /\ WF_connectionVars(focus = "connection" /\ (Connection!Succeeds \/ Connection!Fails))
    /\ \A c \in Clients : WF_connectionVars(focus = "connection" /\ Connection!Request(c))
    /\ \A c \in Callers :
          /\ WF_circuitVars(focus = "circuit" /\ Circuit!Call(c))
          /\ WF_circuitVars(focus = "circuit" /\ Circuit!CallGoesOn(c))
          /\ WF_circuitVars(focus = "circuit" /\ Circuit!Cools(c))
    /\ WF_limitsVars(focus = "limits" /\ Limits!Incr)
    /\ WF_limitsVars(focus = "limits" /\ Limits!Expire)
    /\ WF_limitsVars(focus = "limits" /\ Limits!Ask)
    /\ WF_limitsVars(focus = "limits" /\ Limits!Tick)

ServicesSpec == ServicesInit /\ [][ServicesNext]_servicesVars /\ Fairness

-----------------------------------------------------------------------------
(* Properties: AppliedOnce, AlertedOnce and HighScoreAlerted of UrlAudit,
   CheckpointSound and RunEnds of Importer, and: *)

(* Every variable of every component has its type. *)
ServicesTypeOK ==
    /\ Status!TypeOK /\ TypeOK /\ ImporterTypeOK /\ Tokens!TypeOK /\ Login!TypeOK
    /\ Connection!TypeOK /\ Circuit!TypeOK /\ Limits!TypeOK

(* WalletStatus: a wallet blacklisted for good is at some time no longer shown. *)
BlacklistTakesEffect == Status!BlacklistTakesEffect

(* WalletStatus: overlapping scans still reach the verdict that is right. *)
ScanConverges == Status!ScanConverges

(* TokenRefresh: requests are served again after the last expiry and failure. *)
TokensRecover == Tokens!TokensRecover

(* LoginNonce: a tab that keeps clicking, undisturbed at last, gets in. *)
LoginGetsThrough == Login!LoginGetsThrough

(* SharedConnection: a failed attempt to connect is not the answer to later requests. *)
ConnectsAgain == []<>(focus = "connection") => Connection!ConnectsAgain

(* ProviderCircuit: the calls to an endpoint that has recovered get through. *)
CallsGetThrough == []<>(focus = "circuit") => Circuit!CallsGetThrough

(* RateLimits: a client that was limited is allowed again. *)
WindowEnds == []<>(focus = "limits") => Limits!WindowEnds
===============================================================================
