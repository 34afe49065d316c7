----------------------------- MODULE UserIdentity -----------------------------
(***************************************************************************)
(* One user's e-mail, contact handle and KYC status, the mirror of them in *)
(* the user's Wallet document, and the requests that write both: e-mail    *)
(* verification (verify/email), profile edits (me.patch, profile,          *)
(* profile/update), KYC by signature (kyc), the KYC provider's webhook and *)
(* an admin's verdict (admin/kyc-status).                                  *)
(*                                                                         *)
(* A request reads the user, decides everything from that copy, and then   *)
(* performs its writes one await at a time: todo[r] are the steps it has   *)
(* left, taken in the order of Order.                                      *)
(***************************************************************************)
EXTENDS Naturals, FiniteSets

CONSTANTS
    Requests,
    Emails,
    Handles,        \* values of the contact fields the KYC lock covers
    MaxLinks        \* bound: verification links ever made

VARIABLES
    user,           \* the User document
    mirror,         \* kycStatus and kycDetails of the Wallet document
    links,          \* EmailVerification documents
    made,           \* ids of links are 1 .. made
    inbox,          \* ids of links that were mailed
    todo, held,     \* the steps a request has left, and what they write
    confirmed,      \* history: e-mails whose link was opened
    approved,       \* history: has an admin ever verified the wallet
    late            \* history: profile edits written after KYC

documents == <<user, mirror, links, made, inbox>>
history == <<confirmed, approved, late>>
vars == <<user, mirror, links, made, inbox, todo, held, confirmed, approved, late>>

Keep == "keep"
None == "none"
Kyc == {"unverified", "pending", "rejected", "verified"}
Users == [email : Emails \cup {None}, verified : {"yes", "no"},
          handle : Handles \cup {None}, kyc : Kyc, challenge : {"open", None}]
Mirrors == [email : Emails \cup {None}, verified : {"yes", "no"}, kyc : Kyc]
Links == [id : 1 .. MaxLinks, email : Emails]

(* What a step writes: a value for a field, or Keep. *)
Nothing == [email |-> Keep, verified |-> Keep, handle |-> Keep, kyc |-> Keep,
            challenge |-> Keep]
Writes == [email : Emails \cup {None, Keep}, verified : {"yes", "no", Keep},
           handle : Handles \cup {None, Keep}, kyc : Kyc \cup {Keep},
           challenge : {"open", None, Keep}]
Idle == [user |-> Nothing, mirror |-> Nothing, link |-> 0]
Steps == {"link", "user", "mirror", "mail", "unlink"}

-----------------------------------------------------------------------------
(* findOneAndUpdate with $set: the fields given, whatever the document holds. *)
Update(doc, w) == [f \in DOMAIN doc |-> IF w[f] = Keep THEN doc[f] ELSE w[f]]

(* A save writes only the fields the request changed in the copy it read. *)
Changed(copy, w) ==
    [f \in DOMAIN w |-> IF f \in DOMAIN copy /\ w[f] = copy[f] THEN Keep ELSE w[f]]

(* The step a request is at: of those left, the first in the order
   link, user, mirror, then mail or unlink. *)
At(r, s) ==
    /\ s \in todo[r]
    /\ s # "link" => "link" \notin todo[r]
    /\ s \in {"mirror", "mail", "unlink"} => "user" \notin todo[r]
    /\ s \in {"mail", "unlink"} => "mirror" \notin todo[r]

Begin(r, steps, uw, mw, link) ==
    /\ todo[r] = {}
    /\ todo' = [todo EXCEPT ![r] = steps]
    /\ held' = [held EXCEPT ![r] = [user |-> uw, mirror |-> mw, link |-> link]]
    /\ UNCHANGED documents

(* What is left of a request after a step; one that has nothing left to do forgets
   what it held. *)
Leave(r, steps) ==
    /\ todo' = [todo EXCEPT ![r] = steps]
    /\ held' = IF steps = {} THEN [held EXCEPT ![r] = Idle] ELSE held

Done(r, s) == Leave(r, todo[r] \ {s})

(* A profile edit that is to write a field of the KYC lock: the e-mail or a handle.
   The requests of verify/email, which write the e-mail too, are told by what they end
   with. *)
Edits(r) ==
    /\ "user" \in todo[r] /\ todo[r] \cap {"mail", "unlink"} = {}
    /\ held[r].user.email # Keep \/ held[r].user.handle # Keep

Init ==
    /\ user = [email |-> None, verified |-> "no", handle |-> None,
               kyc |-> "unverified", challenge |-> None]
    /\ mirror = [email |-> None, verified |-> "no", kyc |-> "unverified"]
    /\ links = {}
    /\ made = 0
    /\ inbox = {}
    /\ todo = [r \in Requests |-> {}]
    /\ held = [r \in Requests |-> Idle]
    /\ confirmed = {}
    /\ approved = FALSE
    /\ late = 0

-----------------------------------------------------------------------------
(* What the requests read and decide. *)

(* verify/email/request: no KYC check. *)
RequestLink(r, e) ==
    LET w == [Nothing EXCEPT !.email = e, !.verified = "no"]
    IN /\ Begin(r, {"link", "user", "mirror", "mail"}, Changed(user, w), w, 0)
       /\ UNCHANGED history

(* verify/email/confirm: whoever has the link. *)
OpenLink(r, l) ==
    LET w == [Nothing EXCEPT !.email = l.email, !.verified = "yes"]
    IN /\ l \in links /\ l.id \in inbox
       /\ Begin(r, {"user", "mirror", "unlink"}, w, w, l.id)
       /\ confirmed' = confirmed \cup {l.email}
       /\ UNCHANGED <<approved, late>>

(* PATCH me: an e-mail resets emailVerified and is mirrored. *)
PatchMe(r, e, h) ==
    LET w == [Nothing EXCEPT !.email = e, !.handle = h,
                             !.verified = IF e = Keep THEN Keep ELSE "no"]
    IN /\ user.kyc # "verified"
       /\ Begin(r, {"user"} \cup (IF e \in Emails THEN {"mirror"} ELSE {}),
                Changed(user, w), [w EXCEPT !.handle = Keep], 0)
       /\ UNCHANGED history

UpdateProfileUnlocked(r, e, h) ==
    /\ Begin(r, {"user"}, [Nothing EXCEPT !.email = e, !.handle = h], Nothing, 0)
    /\ UNCHANGED history
(* PATCH profile and PUT profile/update: neither. *)
UpdateProfile(r, e, h) ==
    /\ user.kyc # "verified"
    /\ Begin(r, {"user"}, [Nothing EXCEPT !.email = e, !.handle = h], Nothing, 0)
    /\ UNCHANGED history

Challenge(r) ==
    /\ user.kyc # "verified"
    /\ Begin(r, {"user"}, [Nothing EXCEPT !.challenge = "open"], Nothing, 0)
    /\ UNCHANGED history

(* The challenge that was read is open and the signature matches it. *)
VerifyKyc(r) ==
    /\ user.kyc # "verified" /\ user.challenge = "open"
    /\ Begin(r, {"user", "mirror"},
             [Nothing EXCEPT !.kyc = "verified", !.challenge = None],
             [Nothing EXCEPT !.kyc = "verified"], 0)
    /\ UNCHANGED history

WebhookRaw(r) ==
    /\ Begin(r, {"user"}, [Nothing EXCEPT !.kyc = "approved"], Nothing, 0)
    /\ UNCHANGED history
(* kyc-webhook: the provider's word. *)
Webhook(r) ==
    /\ Begin(r, {"user"}, Changed(user, [Nothing EXCEPT !.kyc = "verified"]), Nothing, 0)
    /\ UNCHANGED history

AdminVerdict(r, k) ==
    /\ Begin(r, {"mirror"}, Nothing, Changed(mirror, [Nothing EXCEPT !.kyc = k]), 0)
    /\ approved' = (approved \/ k = "verified")
    /\ UNCHANGED <<confirmed, late>>

-----------------------------------------------------------------------------
(* The awaits that follow. *)

(* EmailVerification.create. *)
MakeLink(r) ==
    /\ At(r, "link") /\ made < MaxLinks
    /\ made' = made + 1
    /\ links' = links \cup {[id |-> made + 1, email |-> held[r].mirror.email]}
    /\ held' = [held EXCEPT ![r].link = made + 1]
    /\ todo' = [todo EXCEPT ![r] = @ \ {"link"}]
    /\ UNCHANGED <<user, mirror, inbox, history>>

WriteUser(r) ==
    /\ At(r, "user")
    /\ user' = Update(user, held[r].user)
    /\ late' = IF user.kyc = "verified" /\ Edits(r) THEN late + 1 ELSE late
    /\ Done(r, "user")
    /\ UNCHANGED <<mirror, links, made, inbox, confirmed, approved>>

WriteMirror(r) ==
    /\ At(r, "mirror")
    /\ mirror' = Update(mirror, held[r].mirror)
    /\ Done(r, "mirror")
    /\ UNCHANGED <<user, links, made, inbox, history>>

SendMail(r) ==
    /\ At(r, "mail")
    /\ inbox' = inbox \cup {held[r].link}
    /\ Done(r, "mail")
    /\ UNCHANGED <<user, mirror, links, made, history>>

Unlink(r) ==
    /\ At(r, "unlink")
    /\ links' = {l \in links : l.id # held[r].link}
    /\ Done(r, "unlink")
    /\ UNCHANGED <<user, mirror, made, inbox, history>>

FailsSilently(r) ==
    /\ \E s \in Steps : At(r, s) /\ Done(r, s)
    /\ UNCHANGED <<documents, history>>
(* A step fails.  An error of the link or of the user's document ends the request,
   but confirm deletes its link nevertheless; the others are caught. *)
Fails(r) ==
    /\ \/ At(r, "link") /\ Leave(r, {})
       \/ At(r, "user") /\ Leave(r, todo[r] \cap {"unlink"})
       \/ \E s \in {"mirror", "mail", "unlink"} : At(r, s) /\ Done(r, s)
    /\ UNCHANGED <<documents, history>>

(* The function is killed. *)
Abort(r) ==
    /\ todo[r] # {}
    /\ Leave(r, {})
    /\ UNCHANGED <<documents, history>>

(* 24 hours pass: confirm deletes the link instead. *)
LinkExpires(l) ==
    /\ l \in links
    /\ links' = links \ {l}
    /\ UNCHANGED <<user, mirror, made, inbox, todo, held, history>>

Start(r) ==
    \/ \E e \in Emails : RequestLink(r, e)
    \/ \E l \in links : OpenLink(r, l)
    \/ \E e \in Emails \cup {None, Keep}, h \in Handles \cup {Keep} :
          PatchMe(r, e, h) \/ UpdateProfile(r, e, h)
    \/ Challenge(r) \/ VerifyKyc(r) \/ Webhook(r)
    \/ \E k \in {"verified", "rejected", "pending"} : AdminVerdict(r, k)

Continue(r) ==
    MakeLink(r) \/ WriteUser(r) \/ WriteMirror(r) \/ SendMail(r) \/ Unlink(r)

Next ==
    \/ \E r \in Requests : Start(r) \/ Continue(r) \/ Fails(r) \/ Abort(r)
    \/ \E l \in links : LinkExpires(l)

Spec == Init /\ [][Next]_vars

-----------------------------------------------------------------------------
(* Properties. *)

(* Every variable has its type. *)
TypeOK ==
    /\ user \in Users
    /\ mirror \in Mirrors
    /\ links \subseteq Links
    /\ made \in 0 .. MaxLinks
    /\ inbox \subseteq 0 .. MaxLinks
    /\ todo \in [Requests -> SUBSET Steps]
    /\ held \in [Requests -> [user : Writes, mirror : Writes, link : 0 .. MaxLinks]]
    /\ confirmed \subseteq Emails
    /\ approved \in BOOLEAN
    /\ late \in Nat

(* The KYC lock of the profile routes (me.patch, profile, profile/update) over e-mail
   and handles is checked on a copy: an edit that was under way when the user was
   verified is still written, but no more than those, fewer than there are requests.
   verify/email/request and confirm have no lock: through them a verified user's
   e-mail keeps changing, and no bound is claimed of that. *)
LateEditsBounded == late < Cardinality(Requests) \/ late = 0

(* A wallet is shown as verified only if its user is, or if an admin said so:
   the mirror is never ahead of the user's document, whatever fails between. *)
WalletKycJustified ==
    mirror.kyc = "verified" => user.kyc = "verified" \/ approved

(* Said of verify/email/request ("mark unverified until confirmation", request.ts:34):
   when it has saved an address, the user is unverified or the address is one whose
   link was opened. *)
RequestedUnverified ==
    [][\A r \in Requests : WriteUser(r) /\ "mail" \in todo[r] =>
           user'.verified = "no" \/ user'.email \in confirmed]_vars
===============================================================================
