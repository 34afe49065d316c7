---------------------------- MODULE ProfileEditor ----------------------------
(***************************************************************************)
(* app/profile/edit/page.tsx and the profile it edits.  What is typed is   *)
(* kept as a draft in the browser and, after a pause, saved by itself: one *)
(* timer serves all fields, and only what was typed last is sent.  A photo *)
(* is saved at once.  The button saves what differs from what the page     *)
(* believes the server to have.  The route stores a field as it sees fit,  *)
(* or not at all, and its answer is not read.  Requests overtake one       *)
(* another, their answers get lost, and those of a page that was left go   *)
(* on.                                                                     *)
(***************************************************************************)
EXTENDS Naturals, FiniteSets

CONSTANTS
    Typed,          \* fields set by handleFieldChange
    Picked,         \* fields set without a draft or a timer
    Avatars,        \* photos: saved at once, and no blank draft blanks them
    Stripped,       \* fields the route does not know (donationWidgetEnabled)
    Blank, Words,   \* what a field can hold
    Inputs,         \* per field, the words its control can make it hold
    Stored,         \* per field, what the route makes of what it is sent
    MaxChanges,     \* bound: changes of a field
    MaxSends        \* bound: requests sent

VARIABLES
    profile,        \* the user document
    open,           \* the page is open
    values, serverValues,
    draft,          \* profileFormState: a set of at most one form
    timer,          \* the pending autosave: a set of at most one change
    orphans,        \* changes a page that was left is still to send
    flight,         \* requests whose answer is to come
    saved,          \* ghost: what is shown was saved by the button
    disturbed,      \* ghost: the page's belief may be off until it is opened again
    changes, sends

form == <<values, draft>>
vars == <<profile, open, values, serverValues, draft, timer, orphans, flight, saved,
          disturbed, changes, sends>>

Fields == Typed \cup Picked \cup Avatars
Contents == {Blank} \cup Words
Forms == [Fields -> Contents]
Changes == [field : Typed \cup Avatars, value : Contents]
Photos == [field : Avatars, value : Words]
Holds(f) == {Blank} \cup (Inputs[f] \cap Words)

(* What is stored needs no rewriting: a domain in lower case that resolves to the
   wallet, a list trimmed and without holes, a blank field unset. *)
Profiles ==
    {p \in Forms : \A f \in Fields :
        IF f \in Stripped THEN p[f] = Blank ELSE Stored[f][p[f]] = p[f]}

Empty == [f \in Fields |-> Blank]
Patch(f, v) == [Empty EXCEPT ![f] = v]      \* one field; the others are not looked at

(* A request: the fields it sets and to what (by the button, with all that is shown when
   it is made), what its failure puts back, whether the server has done it, and what
   became of its page: it is there, it was left with the code still running, or it was
   reloaded. *)
Calls == [fields : SUBSET Fields, shown : Forms, button : BOOLEAN, prior : SUBSET Forms,
          done : BOOLEAN, page : {"here", "left", "gone"}]

Init ==
    /\ profile \in Profiles
    /\ open = FALSE
    /\ values = Empty /\ serverValues = Empty
    /\ draft = {} /\ timer = {} /\ orphans = {} /\ flight = {}
    /\ saved = FALSE /\ disturbed = FALSE
    /\ changes = 0 /\ sends = 0

Overlay(fields, from, onto) == [f \in Fields |-> IF f \in fields THEN from[f] ELSE onto[f]]

(* The draft laid over what was loaded: of the photos only what is not blank. *)
WithDraft(loaded) ==
    IF draft = {} THEN loaded
    ELSE LET d == CHOOSE d \in draft : TRUE
         IN  Overlay({f \in Fields : f \notin Avatars \/ d[f] # Blank}, d, loaded)

(* The page is opened and the profile loaded.  Requests, and changes still to be sent,
   of a page that was left before may be around. *)
Open ==
    /\ ~open
    /\ open' = TRUE
    /\ serverValues' = profile
    /\ values' = WithDraft(profile)
    /\ saved' = FALSE
    /\ disturbed' = (flight # {})
    /\ UNCHANGED <<profile, draft, timer, orphans, flight, changes, sends>>

(* "Failed to load profile": the form is shown without it. *)
OpenBlank ==
    /\ ~open
    /\ open' = TRUE
    /\ serverValues' = Empty
    /\ values' = WithDraft(Empty)
    /\ saved' = FALSE
    /\ disturbed' = TRUE
    /\ UNCHANGED <<profile, draft, timer, orphans, flight, changes, sends>>

(* handleFieldChange: the timer starts again with this field only. *)
Type(f, v) ==
    /\ open /\ changes < MaxChanges /\ v # values[f]
    /\ changes' = changes + 1
    /\ values' = [values EXCEPT ![f] = v]
    /\ draft' = {values'}
    /\ timer' = {[field |-> f, value |-> v]}
    /\ saved' = FALSE
    /\ UNCHANGED <<profile, open, serverValues, orphans, flight, disturbed, sends>>

(* A choice that takes effect with the button. *)
Pick(f, v) ==
    /\ open /\ changes < MaxChanges /\ v # values[f]
    /\ changes' = changes + 1
    /\ values' = [values EXCEPT ![f] = v]
    /\ saved' = FALSE
    /\ UNCHANGED <<profile, open, serverValues, draft, timer, orphans, flight, disturbed,
                   sends>>

(* Two requests that are under way at once do not commute: one sets a field of the
   other's to something else, or one is the button's, whose answer overwrites what the
   page believes of every field. *)
Clash(p, q) ==
    \E f \in p.fields \cup q.fields :
        /\ \/ f \in p.fields \cap q.fields
           \/ f \in p.fields /\ q.button
           \/ f \in q.fields /\ p.button
        /\ p.shown[f] # q.shown[f]

(* A request of a page that was left disturbs one that is open: it changes the profile,
   and its answer is nobody's. *)
Send(fields, shown, button, prior, page) ==
    LET q == [fields |-> fields, shown |-> shown, button |-> button, prior |-> prior,
              done |-> FALSE, page |-> page] IN
    /\ sends < MaxSends
    /\ sends' = sends + 1
    /\ q \notin flight
    /\ flight' = flight \cup {q}
    /\ disturbed' = (disturbed \/ (open /\ (page # "here" \/ \E p \in flight : Clash(p, q))))

(* savePatchNow: a photo, uploaded or removed, is shown, kept in the draft and saved.
   A removal is taken back when it fails. *)
Photo(f, v) ==
    /\ open /\ changes < MaxChanges /\ v # values[f]
    /\ changes' = changes + 1
    /\ values' = [values EXCEPT ![f] = v]
    /\ draft' = {values'}
    /\ saved' = FALSE
    /\ Send({f}, Patch(f, v), FALSE, IF v = Blank THEN {Patch(f, values[f])} ELSE {}, "here")
    /\ UNCHANGED <<profile, open, serverValues, timer, orphans>>

(* debouncedSave, a pause after the last change. *)
Autosave ==
    \E c \in timer :
        /\ timer' = {}
        /\ Send({c.field}, Patch(c.field, c.value), FALSE, {}, "here")
        /\ UNCHANGED <<profile, open, form, serverValues, orphans, saved, changes>>

(* The timer, or the upload, of a page that was left.  Of the upload React may still run
   the update that writes the draft. *)
Orphan(c) ==
    /\ orphans' = orphans \ {c}
    /\ Send({c.field}, Patch(c.field, c.value), FALSE, {}, "left")
    /\ \/ draft' = draft
       \/ c.field \in Avatars /\ draft' = {[values EXCEPT ![c.field] = c.value]}
    /\ UNCHANGED <<profile, open, values, serverValues, timer, saved, changes>>

Differing == {f \in Fields : values[f] # serverValues[f]}

(* save: one at a time; the timer goes on. *)
Save ==
    /\ open
    /\ \A q \in flight : q.button => q.page # "here"
    /\ Send(Differing, values, TRUE, {}, "here")
    /\ UNCHANGED <<profile, open, form, serverValues, timer, orphans, saved, changes>>

(* PATCH of pages/api/profile/index.ts: one update, with the fields its schema knows, a
   udDomain in the spelling that was verified, phoneApps taken apart, blanks unset. *)
Arrives(q) ==
    /\ ~q.done
    /\ profile' = Overlay(q.fields \ Stripped,
                          [f \in Fields |-> Stored[f][q.shown[f]]], profile)
    /\ flight' = (flight \ {q}) \cup {[q EXCEPT !.done = TRUE]}
    /\ UNCHANGED <<open, form, serverValues, timer, orphans, saved, disturbed, changes, sends>>

BelievesAll(q) == serverValues' = Overlay(Fields, values, serverValues)
Believes(q) ==
    serverValues' = Overlay(IF q.button THEN Fields ELSE q.fields, q.shown, serverValues)

(* The button's success drops the draft, whatever was typed since. *)
Answered(q) ==
    /\ q.done
    /\ flight' = flight \ {q}
    /\ draft' = IF q.button /\ q.page # "gone" THEN {} ELSE draft
    /\ IF q.page = "here" THEN Believes(q) ELSE UNCHANGED serverValues
    /\ saved' = IF q.button /\ q.page = "here" THEN values = q.shown ELSE saved
    /\ UNCHANGED <<profile, open, values, timer, orphans, disturbed, changes, sends>>

(* A removed photo is put back on the page that shows it; on one that was left React
   may still run the update that writes the draft. *)
PutBack(q, back) ==
    \/ q.page = "here" /\ values' = back /\ draft' = {back}
    \/ q.page = "left" /\ values' = values /\ draft' \in {draft, {back}}

(* The server refuses the request, or the request or its answer gets lost. *)
Failed(q) ==
    /\ flight' = flight \ {q}
    /\ disturbed' = (disturbed \/ (open /\ q.done))
    /\ \/ (q.prior = {} \/ q.page = "gone") /\ UNCHANGED form
       \/ \E p \in q.prior : PutBack(q, Overlay(q.fields, p, values))
    /\ saved' = (saved /\ (q.page = "here" => ~q.button /\ q.prior = {}))
    /\ UNCHANGED <<profile, open, serverValues, timer, orphans, changes, sends>>

(* The page is left by a reload, which forgets the timer ... *)
Reload ==
    /\ open
    /\ open' = FALSE
    /\ timer' = {} /\ orphans' = {}
    /\ flight' = {[q EXCEPT !.page = "gone"] : q \in flight}
    /\ values' = Empty /\ serverValues' = Empty
    /\ saved' = FALSE /\ disturbed' = FALSE
    /\ UNCHANGED <<profile, draft, changes, sends>>

(* ... or by the application's own navigation, which does not, nor an upload; code that
   still runs may look at the form. *)
Leave(uploads) ==
    /\ open /\ changes + Cardinality(uploads) <= MaxChanges
    /\ open' = FALSE
    /\ timer' = {} /\ orphans' = orphans \cup timer \cup uploads
    /\ changes' = changes + Cardinality(uploads)
    /\ flight' = {[q EXCEPT !.page = IF @ = "gone" THEN @ ELSE "left"] : q \in flight}
    /\ serverValues' = Empty
    /\ saved' = FALSE /\ disturbed' = FALSE
    /\ UNCHANGED <<profile, form, sends>>

Next ==
    \/ Open \/ OpenBlank \/ Autosave \/ Save \/ Reload \/ Leave({})
    \/ \E c \in Photos : c.value \in Inputs[c.field] /\ Leave({c})
    \/ \E f \in Typed : \E v \in Holds(f) : Type(f, v)
    \/ \E f \in Picked : \E v \in Holds(f) : Pick(f, v)
    \/ \E f \in Avatars : \E v \in Holds(f) : Photo(f, v)
    \/ \E c \in orphans : Orphan(c)
    \/ \E q \in flight : Arrives(q) \/ Answered(q) \/ Failed(q)

-----------------------------------------------------------------------------
(* Properties. *)

(* Every variable has its type. *)
TypeOK ==
    /\ profile \in Profiles /\ values \in Forms /\ serverValues \in Forms
    /\ open \in BOOLEAN /\ saved \in BOOLEAN /\ disturbed \in BOOLEAN
    /\ draft \subseteq Forms /\ timer \subseteq Changes /\ orphans \subseteq Changes
    /\ flight \subseteq Calls
    /\ Cardinality(draft) <= 1 /\ Cardinality(timer) <= 1
    /\ changes \in 0 .. MaxChanges /\ sends \in 0 .. MaxSends

(* After a successful save, with no request on its way, the profile holds what the page
   shows, as the route stores it, in every field the route knows: also when autosaves
   sent only the last of several fields, when one was refused or is still to be made,
   when a photo was put back, or when a save was answered while something else was
   typed, as long as the profile was loaded and, since then, no answer got lost, no two
   requests clashed and no page that was left sent anything.  Of a field the route
   strips or rewrites the page goes on to show what it sent. *)
SavedWhatIsShown ==
    open /\ saved /\ ~disturbed /\ flight = {} =>
        \A f \in Fields \ Stripped : profile[f] = Stored[f][values[f]]
===============================================================================
