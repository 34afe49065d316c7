------------------------------ MODULE MCDocuments ------------------------------
(***************************************************************************)
(* Requests that write one document at the same time, of components that   *)
(* share no state with one another: UserIdentity, UserLists, Outreach,     *)
(* WalletRatings and ProfileEditor; and LiveFeed, the callbacks of a page  *)
(* that write one list.  focus names the one that runs; the others stay as *)
(* they began, so the state space is the union of theirs, and each property*)
(* is checked in all of its component's behaviours.                        *)
(* UserIdentity and UserLists, two halves of a user's document, are        *)
(* extended, so that the properties checked here are the ones proved of    *)
(* them; the others are instances.                                         *)
(***************************************************************************)
EXTENDS UserIdentity, UserLists, TLC

CONSTANTS
    Components,
    Reporters, MinReports, MinUnique, MaxReports,
    Raters, Scores, MaxRatings, MaxSaves,
    Typed, Picked, Avatars, Stripped, Blank, Words, Inputs, Stored, MaxChanges, MaxSends,
    Txs, Concurrency, MaxListed, MaxErrors, MaxQueued, MaxBuffered

(* Finitely many requests; bounds, limits and scores are numbers; a field has one kind of
   control, and storing what is stored already changes nothing. *)
ASSUME DocumentsAssumption ==
    /\ IsFiniteSet(Requests) /\ IsFiniteSet(Writers)
    /\ MaxLinks \in Nat /\ MaxItems \in Nat /\ MinReports \in Nat /\ MinUnique \in Nat
    /\ MaxSaves \in Nat /\ MaxChanges \in Nat /\ MaxSends \in Nat
    /\ Concurrency \in Nat /\ MaxListed \in Nat /\ MaxErrors \in Nat
    /\ Scores \subseteq Nat
    /\ Typed \cap Picked = {} /\ Typed \cap Avatars = {} /\ Picked \cap Avatars = {}
    /\ Stored \in [Typed \cup Picked \cup Avatars ->
                      [{Blank} \cup Words -> {Blank} \cup Words]]
    /\ \A f \in Typed \cup Picked \cup Avatars, v \in {Blank} \cup Words :
          Stored[f][Stored[f][v]] = Stored[f][v]

VARIABLES
    focus,
    reports, reportsCount, readyForOutreach, phase,
    ratings, average, revision, rating, copy, fresh, lone, saves,
    profile, open, values, serverValues, draft, timer, orphans, flight, saved,
    disturbed, changes, sends,
    mounted, connecting, opened, live, retries, reconnects, queue, fetching, polling,
    buffered, flushTimeout, updating, seenRef, txs

Promotion == INSTANCE Outreach
Ratings == INSTANCE WalletRatings WITH version <- revision
Editor == INSTANCE ProfileEditor
Feed == INSTANCE LiveFeed

identityVars == vars
promotionVars == <<reports, reportsCount, readyForOutreach, phase>>
ratingsVars == <<ratings, average, revision, rating, copy, fresh, lone, saves>>
editorVars == <<profile, open, values, serverValues, draft, timer, orphans, flight, saved,
                disturbed, changes, sends>>
feedVars == <<mounted, connecting, opened, live, retries, reconnects, queue, fetching,
              polling, buffered, flushTimeout, updating, seenRef, txs>>
pageVars == <<editorVars, feedVars>>

documentsVars == <<focus, identityVars, listsVars, promotionVars, ratingsVars, pageVars>>

DocumentsInit ==
    /\ focus \in Components
    /\ Init /\ ListsInit /\ Promotion!Init /\ Ratings!Init /\ Editor!Init /\ Feed!Init
    /\ \E v \in {Blank} \cup Words :          \* the profile to edit is blank or full
          /\ profile = [f \in Editor!Fields |->
                          IF f \in Stripped THEN Blank ELSE Stored[f][v]]
          /\ \A f \in Editor!Fields : v \in Editor!Holds(f)
          /\ focus # "editor" => v = Blank
    /\ polling => focus = "feed"

IdentityRuns ==
    /\ focus = "identity" /\ Next
    /\ UNCHANGED <<focus, listsVars, promotionVars, ratingsVars, pageVars>>
ListsRun ==
    /\ focus = "lists" /\ ListsNext
    /\ UNCHANGED <<focus, identityVars, promotionVars, ratingsVars, pageVars>>
PromotionRuns ==
    /\ focus = "promotion" /\ Promotion!Next
    /\ UNCHANGED <<focus, identityVars, listsVars, ratingsVars, pageVars>>

RatingsRun ==
    /\ focus = "ratings" /\ Ratings!Next
    /\ UNCHANGED <<focus, identityVars, listsVars, promotionVars, pageVars>>
EditorRuns ==
    /\ focus = "editor" /\ Editor!Next
    /\ UNCHANGED <<focus, identityVars, listsVars, promotionVars, ratingsVars, feedVars>>
FeedRuns ==
    /\ focus = "feed" /\ Feed!Next
    /\ UNCHANGED <<focus, identityVars, listsVars, promotionVars, ratingsVars, editorVars>>

DocumentsNext ==
    \/ IdentityRuns \/ ListsRun \/ PromotionRuns \/ RatingsRun \/ EditorRuns \/ FeedRuns

DocumentsSpec == DocumentsInit /\ [][DocumentsNext]_documentsVars

(* The requests of a component are interchangeable; those of UserLists are the same. *)
MCSymmetry == Permutations(Requests)

(* Some fields are rewritten (a domain, a list): a rough word is stored as its proper
   form.  The other fields hold proper words only. *)
CONSTANTS Rewritten, Rough, Proper
MCInputs ==
    [f \in Typed \cup Picked \cup Avatars |-> IF f \in Rewritten THEN Words ELSE Words \ Rough]
MCStored ==
    [f \in Typed \cup Picked \cup Avatars |->
        [v \in {Blank} \cup Words |-> IF f \in Rewritten /\ v \in Rough THEN Proper ELSE v]]

-----------------------------------------------------------------------------
(* Properties: LateEditsBounded, WalletKycJustified and RequestedUnverified of
   UserIdentity, FollowedOnce, CopiesKept and DonationOverrun of UserLists, and: *)

(* Every variable of every component has its type. *)
DocumentsTypeOK ==
    /\ TypeOK /\ ListsTypeOK /\ Promotion!TypeOK /\ Ratings!TypeOK /\ Editor!TypeOK
    /\ Feed!TypeOK

(* Outreach: the counter of reports never exceeds the reports. *)
CounterNeverAhead == Promotion!CounterNeverAhead

(* Outreach: a provider promoted has the reports it takes. *)
PromotedDeserved == Promotion!PromotedDeserved

(* WalletRatings: an undisturbed rating makes the average right again. *)
AverageHeals == Ratings!AverageHeals

(* ProfileEditor: what is shown after a save is what was saved, as it is stored. *)
SavedWhatIsShown == Editor!SavedWhatIsShown

(* LiveFeed: a transaction is listed once. *)
ListedOnce == Feed!ListedOnce
===============================================================================
