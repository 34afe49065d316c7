------------------------------- MODULE Outreach -------------------------------
(***************************************************************************)
(* Reports against one provider, the counter it keeps of them, and its     *)
(* promotion for outreach by an admin: POST /api/reports and POST          *)
(* /api/admin/auto-promote.  A report's mirror among the flags of a wallet *)
(* is in WalletFlags.                                                      *)
(***************************************************************************)
EXTENDS Naturals, FiniteSets, Sequences, SequencesExt

CONSTANTS
    Requests, Reporters,
    MinReports, MinUnique,  \* the thresholds the admins ask for (3 and 2 if none)
    MaxReports              \* bound: reports in all

VARIABLES
    reports,            \* Report documents: by whom, as they were created
    reportsCount,       \* Provider.reportsCount
    readyForOutreach,   \* Provider.readyForOutreach
    phase               \* where a request is

documents == <<reports, reportsCount, readyForOutreach>>
vars == <<reports, reportsCount, readyForOutreach, phase>>

Phases == {"idle", "count", "promote", "save"}

Total == Len(reports)
Distinct == Cardinality(ToSet(reports))

Goto(r, p) == phase' = [phase EXCEPT ![r] = p]

Init ==
    /\ reports = <<>>
    /\ reportsCount = 0
    /\ readyForOutreach = FALSE
    /\ phase = [r \in Requests |-> "idle"]

-----------------------------------------------------------------------------
(* POST /api/reports. *)

CreateCounted(r, u) ==
    /\ phase[r] = "idle" /\ Len(reports) < MaxReports
    /\ reports' = Append(reports, u)
    /\ reportsCount' = reportsCount + 1
    /\ Goto(r, "count")
    /\ UNCHANGED readyForOutreach
CreateReport(r, u) ==
    /\ phase[r] = "idle" /\ Len(reports) < MaxReports
    /\ reports' = Append(reports, u)
    /\ Goto(r, "count")
    /\ UNCHANGED <<reportsCount, readyForOutreach>>

(* $inc.  uniqueReporters, which is next, is never incremented: the look-up for an
   earlier report by the same user finds the one just created. *)
CountReport(r) ==
    /\ phase[r] = "count"
    /\ reportsCount' = reportsCount + 1
    /\ Goto(r, "idle")
    /\ UNCHANGED <<reports, readyForOutreach>>

-----------------------------------------------------------------------------
(* POST /api/admin/auto-promote: an aggregate over the reports, then the document
   of the provider, which is saved if it is not promoted yet. *)

EitherThreshold == Total >= MinReports \/ Distinct >= MinUnique
Candidate == Total >= MinReports /\ Distinct >= MinUnique

FindCandidates(r) ==
    /\ phase[r] = "idle" /\ Candidate
    /\ Goto(r, "promote")
    /\ UNCHANGED documents

LoadCandidate(r) ==
    /\ phase[r] = "promote"
    /\ Goto(r, IF readyForOutreach THEN "idle" ELSE "save")
    /\ UNCHANGED documents

Promote(r) ==
    /\ phase[r] = "save"
    /\ readyForOutreach' = TRUE
    /\ Goto(r, "idle")
    /\ UNCHANGED <<reports, reportsCount>>

(* An await fails, and is caught, or the function is killed. *)
Abort(r) ==
    /\ phase[r] # "idle"
    /\ Goto(r, "idle")
    /\ UNCHANGED documents

Next ==
    \E r \in Requests :
        \/ \E u \in Reporters : CreateReport(r, u)
        \/ CountReport(r)
        \/ FindCandidates(r) \/ LoadCandidate(r) \/ Promote(r)
        \/ Abort(r)

Spec == Init /\ [][Next]_vars

-----------------------------------------------------------------------------
(* Properties. *)

(* Every variable has its type. *)
TypeOK ==
    /\ reports \in Seq(Reporters)
    /\ reportsCount \in Nat
    /\ readyForOutreach \in BOOLEAN
    /\ phase \in [Requests -> Phases]

(* Reports whose increment is still to come. *)
Uncounted == Cardinality({r \in Requests : phase[r] = "count"})

(* The counter shown beside a provider never exceeds the reports there are, whichever
   increments of concurrent reports are still to come or lost. *)
CounterNeverAhead == reportsCount + Uncounted <= Total

(* A provider is promoted only when enough reports by enough different users are
   there, although they were counted two awaits before the save. *)
PromotedDeserved ==
    readyForOutreach => Total >= MinReports /\ Distinct >= MinUnique
===============================================================================
