------------------------------- MODULE UserLists -------------------------------
(***************************************************************************)
(* The lists embedded in one User document and the requests that write     *)
(* them: follow-wallet, donation-request, the copies of the user's         *)
(* fundraisers (fundraisers, fundraisers/invite), and profile edits that   *)
(* replace the list of donation requests (me.patch, profile).              *)
(*                                                                         *)
(* Each request loads the document, decides from that copy and saves it.   *)
(* What a save does depends on how the list was changed in memory: a push  *)
(* is merged and bumps __v; an unshift or an assignment writes the whole   *)
(* list, checked against the __v that was read, and bumps it.              *)
(***************************************************************************)
EXTENDS Naturals, FiniteSets

CONSTANTS
    Writers,        \* requests of the user that are handled at once
    Targets,        \* wallets to follow
    MaxItems,       \* bound: donation requests, and fundraisers, ever made
    MaxVersion      \* bound: versions of the document

VARIABLES
    follows,        \* User.followedWallets: entries per wallet
    active,         \* User.donationRequests: ids of those that are active
    copies,         \* User.fundraisers: ids
    version,        \* User.__v
    minted,         \* ids of list entries are 1 .. minted
    task, seen,     \* what a request is about to save, and the copy it read
    copied,         \* history: ids of the fundraisers that were copied
    replaced        \* history: has an edit replaced the donation requests

lists == <<follows, active, copies, version, minted>>
listsVars == <<follows, active, copies, version, minted, task, seen, copied, replaced>>

Items == 1 .. MaxItems
NoTask == [kind |-> "none"]
Tasks ==
    {NoTask} \cup [kind : {"follow"}, wallet : Targets]
             \cup [kind : {"donate", "copy", "invite", "edit"}]
Unread == [follows |-> [w \in Targets |-> 0], copies |-> {}, version |-> 0]
Copies == [follows : [Targets -> Nat], copies : SUBSET Items, version : Nat]

ListsInit ==
    /\ follows = [w \in Targets |-> 0]
    /\ active = {}
    /\ copies = {}
    /\ version = 0
    /\ minted = 0
    /\ task = [r \in Writers |-> NoTask]
    /\ seen = [r \in Writers |-> Unread]
    /\ copied = {}
    /\ replaced = FALSE

-----------------------------------------------------------------------------
(* findOne, and the decision to save. *)
Load(r, t) ==
    /\ task[r] = NoTask
    /\ task' = [task EXCEPT ![r] = t]
    /\ seen' = [seen EXCEPT ![r] = [follows |-> follows, copies |-> copies,
                                    version |-> version]]
    /\ UNCHANGED <<lists, copied, replaced>>

(* Only a wallet that is not in the list yet is followed. *)
FollowLoad(r, w) == follows[w] = 0 /\ Load(r, [kind |-> "follow", wallet |-> w])

DonationLoadLate(r) == Cardinality(active) <= 1 /\ Load(r, [kind |-> "donate"])
(* At most one active donation request.  Older ones are never expired: createdAt is
   not a field of the schema, so it is not stored. *)
DonationLoad(r) == active = {} /\ Load(r, [kind |-> "donate"])

FundraiserLoad(r) == Load(r, [kind |-> "copy"])

(* The user is read again, after the Fundraiser was saved; only if it has a copy. *)
InviteLoad(r) == copies # {} /\ Load(r, [kind |-> "invite"])

EditLoad(r) == Load(r, [kind |-> "edit"])

-----------------------------------------------------------------------------
Finish(r, k) ==
    /\ task[r].kind = k
    /\ task' = [task EXCEPT ![r] = NoTask]
    /\ seen' = [seen EXCEPT ![r] = Unread]

Unmodified(r) == version = seen[r].version
Bump == version < MaxVersion /\ version' = version + 1
Mint == minted < MaxItems /\ minted' = minted + 1

FollowPush(r) ==
    /\ Finish(r, "follow")
    /\ Bump
    /\ follows' = [follows EXCEPT ![task[r].wallet] = @ + 1]
    /\ UNCHANGED <<active, copies, minted, copied, replaced>>
(* unshift: the whole list. *)
FollowSave(r) ==
    /\ Finish(r, "follow")
    /\ \/ /\ Unmodified(r) /\ Bump
          /\ follows' = [seen[r].follows EXCEPT ![task[r].wallet] = @ + 1]
       \/ ~Unmodified(r) /\ UNCHANGED <<follows, version>>
    /\ UNCHANGED <<active, copies, minted, copied, replaced>>

(* push. *)
DonationSave(r) ==
    /\ Finish(r, "donate")
    /\ Bump /\ Mint
    /\ active' = active \cup {minted + 1}
    /\ UNCHANGED <<follows, copies, copied, replaced>>

(* push. *)
FundraiserSave(r) ==
    /\ Finish(r, "copy")
    /\ Bump /\ Mint
    /\ copies' = copies \cup {minted + 1}
    /\ copied' = copied \cup {minted + 1}
    /\ UNCHANGED <<follows, active, replaced>>

InviteUpdate(r) ==
    /\ Finish(r, "invite")
    /\ copies' = seen[r].copies
    /\ UNCHANGED <<follows, active, version, minted, copied, replaced>>
(* markModified: the whole list. *)
InviteSave(r) ==
    /\ Finish(r, "invite")
    /\ \/ Unmodified(r) /\ Bump /\ copies' = seen[r].copies
       \/ ~Unmodified(r) /\ UNCHANGED <<copies, version>>
    /\ UNCHANGED <<follows, active, minted, copied, replaced>>

(* The list the client sent, with fresh ids; me.patch assigns it and saves. *)
EditSave(r) ==
    /\ Finish(r, "edit")
    /\ \/ /\ Unmodified(r) /\ Bump /\ Mint
          /\ active' \in {{}, {minted + 1}}
          /\ replaced' = TRUE
       \/ ~Unmodified(r) /\ UNCHANGED <<active, version, minted, replaced>>
    /\ UNCHANGED <<follows, copies, copied>>

(* PATCH profile: the same by findOneAndUpdate. *)
EditProfile ==
    /\ Mint
    /\ active' \in {{}, {minted + 1}}
    /\ replaced' = TRUE
    /\ UNCHANGED <<follows, copies, version, task, seen, copied>>

(* admin/deactivateDonation: updateOne by the entry's id. *)
Deactivate(d) ==
    /\ d \in active
    /\ active' = active \ {d}
    /\ UNCHANGED <<follows, copies, version, minted, task, seen, copied, replaced>>

(* The save fails or the function is killed. *)
ListsAbort(r) ==
    /\ task[r] # NoTask
    /\ Finish(r, task[r].kind)
    /\ UNCHANGED <<lists, copied, replaced>>

Step(r) ==
    \/ \E w \in Targets : FollowLoad(r, w)
    \/ DonationLoad(r) \/ FundraiserLoad(r) \/ InviteLoad(r) \/ EditLoad(r)
    \/ FollowSave(r) \/ DonationSave(r) \/ FundraiserSave(r) \/ InviteSave(r)
    \/ EditSave(r)
    \/ ListsAbort(r)

ListsNext ==
    \/ \E r \in Writers : Step(r)
    \/ EditProfile
    \/ \E d \in Items : Deactivate(d)

ListsSpec == ListsInit /\ [][ListsNext]_listsVars

-----------------------------------------------------------------------------
(* Properties. *)

(* Every variable has its type. *)
ListsTypeOK ==
    /\ follows \in [Targets -> Nat]
    /\ active \subseteq Items
    /\ copies \subseteq Items
    /\ version \in Nat
    /\ minted \in 0 .. MaxItems
    /\ task \in [Writers -> Tasks]
    /\ seen \in [Writers -> Copies]
    /\ copied \subseteq Items
    /\ replaced \in BOOLEAN

(* No wallet is followed twice: two requests that both found it missing cannot both
   be saved, whatever else is pushed to the document between. *)
FollowedOnce == \A w \in Targets : follows[w] <= 1

(* The copy of a fundraiser that was added is not lost to an invite that writes
   the whole list from an older copy. *)
CopiesKept == copied \subseteq copies

(* "Enforce max 1 active donation": checked on a copy and then pushed, so concurrent
   requests can pass together, but a user who only ever asks (and does not replace
   the list by an edit) has at most as many active as there are requests. *)
DonationOverrun == ~replaced => Cardinality(active) <= Cardinality(Writers)
===============================================================================
