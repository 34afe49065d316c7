------------------------------- MODULE UserProofs -------------------------------
(***************************************************************************)
(* Theorems about the two halves of a user's document.                     *)
(*                                                                         *)
(* UserIdentity, for any requests, e-mails and handles: the properties     *)
(* speak of what is stored; IdentityInv adds what the requests under way   *)
(* still hold: a mirror to be marked verified has a reason, and the edits  *)
(* that may be written after KYC are those of requests that read the user  *)
(* before it.                                                              *)
(*                                                                         *)
(* UserLists, for any requests, wallets and bounds.                        *)
(***************************************************************************)
EXTENDS UserIdentity, UserLists, FiniteSetTheorems, TLAPS

SizeOK == MaxLinks \in Nat /\ IsFiniteSet(Requests)

(* What the steps a request has left may write. *)
WritesOK(r) ==
    /\ "link" \in todo[r] => held[r].mirror.email \in Emails
    /\ "user" \in todo[r] =>
          /\ held[r].user.kyc \in {Keep, "verified"}
          /\ held[r].user.kyc = "verified" =>
                held[r].user.handle = Keep /\ held[r].user.email = Keep
    /\ "mirror" \in todo[r] /\ held[r].mirror.kyc = "verified" =>
          \/ approved \/ user.kyc = "verified"
          \/ "user" \in todo[r] /\ held[r].user.kyc = "verified"

(* The profile edits that are to be written. *)
Editing == {r \in Requests : Edits(r)}

FrozenOK ==
    /\ user.kyc # "verified" => late = 0
    /\ user.kyc = "verified" => late + Cardinality(Editing) < Cardinality(Requests)

IdentityInv ==
    /\ TypeOK
    /\ \A r \in Requests : WritesOK(r)
    /\ FrozenOK
    /\ WalletKycJustified

-----------------------------------------------------------------------------
(* The fields of what is read and written. *)

LEMMA WriteFields ==
    ASSUME NEW w \in Writes
    PROVE  /\ DOMAIN w = {"email", "verified", "handle", "kyc", "challenge"}
           /\ w.email \in Emails \cup {None, Keep} /\ w.verified \in {"yes", "no", Keep}
           /\ w.handle \in Handles \cup {None, Keep} /\ w.kyc \in Kyc \cup {Keep}
           /\ w.challenge \in {"open", None, Keep}
BY DEF Writes

LEMMA UserFields ==
    ASSUME NEW u \in Users
    PROVE  /\ DOMAIN u = {"email", "verified", "handle", "kyc", "challenge"}
           /\ u.email \in Emails \cup {None} /\ u.verified \in {"yes", "no"}
           /\ u.handle \in Handles \cup {None} /\ u.kyc \in Kyc
           /\ u.challenge \in {"open", None}
BY DEF Users

LEMMA MirrorFields ==
    ASSUME NEW m \in Mirrors
    PROVE  /\ DOMAIN m = {"email", "verified", "kyc"}
           /\ m.email \in Emails \cup {None} /\ m.verified \in {"yes", "no"}
           /\ m.kyc \in Kyc
BY DEF Mirrors

LEMMA ChangedUser ==
    ASSUME NEW u \in Users, NEW w \in Writes
    PROVE  /\ Changed(u, w) \in Writes
           /\ Changed(u, w).kyc \in {Keep, w.kyc} /\ Changed(u, w).handle \in {Keep, w.handle}
           /\ Changed(u, w).email \in {Keep, w.email}
<1> DEFINE v(f) == IF f \in DOMAIN u /\ w[f] = u[f] THEN Keep ELSE w[f]
<1>1. Changed(u, w) = [f \in {"email", "verified", "handle", "kyc", "challenge"} |-> v(f)]
  BY WriteFields DEF Changed
<1>2. \A f \in {"email", "verified", "handle", "kyc", "challenge"} : v(f) \in {Keep, w[f]}
  OBVIOUS
<1> HIDE DEF v
<1>3. Changed(u, w) = [email |-> v("email"), verified |-> v("verified"),
                       handle |-> v("handle"), kyc |-> v("kyc"),
                       challenge |-> v("challenge")]
  BY <1>1
<1>4. /\ v("email") \in Emails \cup {None, Keep} /\ v("verified") \in {"yes", "no", Keep}
      /\ v("handle") \in Handles \cup {None, Keep} /\ v("kyc") \in Kyc \cup {Keep}
      /\ v("challenge") \in {"open", None, Keep}
  BY <1>2, WriteFields
<1>5. Changed(u, w) \in Writes
  BY <1>3, <1>4 DEF Writes
<1>6. /\ Changed(u, w).kyc = v("kyc") /\ Changed(u, w).handle = v("handle")
      /\ Changed(u, w).email = v("email")
  BY <1>1
<1> QED
  BY <1>2, <1>5, <1>6

LEMMA UpdateUser ==
    ASSUME NEW u \in Users, NEW w \in Writes
    PROVE  /\ Update(u, w) \in Users
           /\ Update(u, w).kyc = IF w.kyc = Keep THEN u.kyc ELSE w.kyc
<1> DEFINE v(f) == IF w[f] = Keep THEN u[f] ELSE w[f]
<1>1. Update(u, w) = [f \in {"email", "verified", "handle", "kyc", "challenge"} |-> v(f)]
  BY UserFields DEF Update
<1>2. /\ v("email") \in Emails \cup {None} /\ v("verified") \in {"yes", "no"}
      /\ v("handle") \in Handles \cup {None} /\ v("kyc") \in Kyc
      /\ v("challenge") \in {"open", None}
  BY UserFields, WriteFields
<1>3. v("kyc") = IF w.kyc = Keep THEN u.kyc ELSE w.kyc
  OBVIOUS
<1> HIDE DEF v
<1>4. Update(u, w) = [email |-> v("email"), verified |-> v("verified"),
                      handle |-> v("handle"), kyc |-> v("kyc"),
                      challenge |-> v("challenge")]
  BY <1>1
<1>5. Update(u, w) \in Users /\ Update(u, w).kyc = v("kyc")
  BY <1>2, <1>4 DEF Users
<1> QED
  BY <1>3, <1>5

LEMMA ChangedMirror ==
    ASSUME NEW m \in Mirrors, NEW w \in Writes
    PROVE  Changed(m, w) \in Writes /\ Changed(m, w).kyc \in {Keep, w.kyc}
<1> DEFINE v(f) == IF f \in DOMAIN m /\ w[f] = m[f] THEN Keep ELSE w[f]
<1>1. Changed(m, w) = [f \in {"email", "verified", "handle", "kyc", "challenge"} |-> v(f)]
  BY WriteFields DEF Changed
<1>2. \A f \in {"email", "verified", "handle", "kyc", "challenge"} : v(f) \in {Keep, w[f]}
  OBVIOUS
<1> HIDE DEF v
<1>3. Changed(m, w) = [email |-> v("email"), verified |-> v("verified"),
                       handle |-> v("handle"), kyc |-> v("kyc"),
                       challenge |-> v("challenge")]
  BY <1>1
<1>4. /\ v("email") \in Emails \cup {None, Keep} /\ v("verified") \in {"yes", "no", Keep}
      /\ v("handle") \in Handles \cup {None, Keep} /\ v("kyc") \in Kyc \cup {Keep}
      /\ v("challenge") \in {"open", None, Keep}
  BY <1>2, WriteFields
<1>5. Changed(m, w) \in Writes
  BY <1>3, <1>4 DEF Writes
<1>6. Changed(m, w).kyc = v("kyc")
  BY <1>1
<1> QED
  BY <1>2, <1>5, <1>6

LEMMA UpdateMirror ==
    ASSUME NEW m \in Mirrors, NEW w \in Writes
    PROVE  /\ Update(m, w) \in Mirrors
           /\ Update(m, w).kyc = IF w.kyc = Keep THEN m.kyc ELSE w.kyc
<1> DEFINE v(f) == IF w[f] = Keep THEN m[f] ELSE w[f]
<1>1. Update(m, w) = [f \in {"email", "verified", "kyc"} |-> v(f)]
  BY MirrorFields DEF Update
<1>2. /\ v("email") \in Emails \cup {None} /\ v("verified") \in {"yes", "no"}
      /\ v("kyc") \in Kyc
  BY MirrorFields, WriteFields
<1>3. v("kyc") = IF w.kyc = Keep THEN m.kyc ELSE w.kyc
  OBVIOUS
<1> HIDE DEF v
<1>4. Update(m, w) = [email |-> v("email"), verified |-> v("verified"), kyc |-> v("kyc")]
  BY <1>1
<1>5. Update(m, w) \in Mirrors /\ Update(m, w).kyc = v("kyc")
  BY <1>2, <1>4 DEF Mirrors
<1> QED
  BY <1>3, <1>5

LEMMA NothingType ==
    /\ Nothing \in Writes /\ Nothing.kyc = Keep /\ Nothing.handle = Keep
    /\ Nothing.email = Keep /\ Keep \notin Kyc
BY DEF Nothing, Writes, Keep, Kyc

HeldType == [user : Writes, mirror : Writes, link : 0 .. MaxLinks]

LEMMA IdleType == ASSUME SizeOK PROVE Idle \in HeldType
BY NothingType DEF Idle, HeldType, SizeOK

-----------------------------------------------------------------------------
(* Beginning a request, and leaving some of its steps. *)

LEMMA BeginType ==
    ASSUME SizeOK, TypeOK, NEW r \in Requests, NEW steps \in SUBSET Steps,
           NEW uw \in Writes, NEW mw \in Writes, NEW link \in 0 .. MaxLinks,
           Begin(r, steps, uw, mw, link)
    PROVE  /\ todo' \in [Requests -> SUBSET Steps] /\ held' \in [Requests -> HeldType]
           /\ todo[r] = {} /\ todo'[r] = steps
           /\ held'[r].user = uw /\ held'[r].mirror = mw
           /\ \A v \in Requests \ {r} : todo'[v] = todo[v] /\ held'[v] = held[v]
           /\ UNCHANGED documents
<1> DEFINE h == [user |-> uw, mirror |-> mw, link |-> link]
<1>1. h \in HeldType /\ h.user = uw /\ h.mirror = mw
  BY DEF HeldType
<1>2. /\ todo[r] = {} /\ todo' = [todo EXCEPT ![r] = steps]
      /\ held' = [held EXCEPT ![r] = h] /\ UNCHANGED documents
  BY DEF Begin
<1> HIDE DEF h
<1>3. held \in [Requests -> HeldType] /\ todo \in [Requests -> SUBSET Steps]
  BY DEF TypeOK, HeldType
<1> QED
  BY <1>1, <1>2, <1>3

LEMMA LeaveType ==
    ASSUME SizeOK, TypeOK, NEW r \in Requests, NEW steps \in SUBSET todo[r], Leave(r, steps)
    PROVE  /\ todo' \in [Requests -> SUBSET Steps] /\ held' \in [Requests -> HeldType]
           /\ todo'[r] = steps
           /\ steps # {} => held'[r] = held[r]
           /\ \A v \in Requests \ {r} : todo'[v] = todo[v] /\ held'[v] = held[v]
<1>1. held \in [Requests -> HeldType] /\ todo \in [Requests -> SUBSET Steps]
  BY DEF TypeOK, HeldType
<1> QED
  BY <1>1, IdleType DEF Leave

(* No more edits under way: the bound on late changes stands. *)
LEMMA FrozenStays ==
    ASSUME SizeOK, FrozenOK, TypeOK, user'.kyc = user.kyc, late' = late,
           user.kyc = "verified" => Editing' \subseteq Editing
    PROVE  FrozenOK'
<1>1. CASE user.kyc # "verified"
  BY <1>1 DEF FrozenOK
<1>2. CASE user.kyc = "verified"
  <2>1. IsFiniteSet(Editing) /\ IsFiniteSet(Editing') /\ Editing' \subseteq Editing
    <3>1. Editing \subseteq Requests
      BY DEF Editing, Edits
    <3> QED
      BY <1>2, <3>1, FS_Subset DEF SizeOK
  <2>2. /\ Cardinality(Editing) \in Nat /\ Cardinality(Editing') \in Nat
        /\ Cardinality(Editing') <= Cardinality(Editing) /\ Cardinality(Requests) \in Nat
    BY <2>1, FS_Subset, FS_CardinalityType DEF SizeOK
  <2>3. late \in Nat
    BY DEF TypeOK
  <2> QED
    BY <1>2, <2>2, <2>3 DEF FrozenOK
<1> QED
  BY <1>1, <1>2

LEMMA BeginStep ==
    ASSUME SizeOK, IdentityInv, NEW r \in Requests, NEW steps \in SUBSET Steps,
           NEW uw \in Writes, NEW mw \in Writes, NEW link \in 0 .. MaxLinks,
           Begin(r, steps, uw, mw, link),
           "link" \in steps => mw.email \in Emails,
           uw.kyc \in {Keep, "verified"},
           uw.kyc = "verified" => uw.handle = Keep /\ uw.email = Keep,
           user.kyc = "verified" =>
               steps \cap {"mail", "unlink"} # {} \/ (uw.handle = Keep /\ uw.email = Keep),
           mw.kyc = "verified" => approved' \/ ("user" \in steps /\ uw.kyc = "verified"),
           confirmed' \subseteq Emails, approved' \in BOOLEAN, approved => approved',
           UNCHANGED late
    PROVE  IdentityInv'
<1>1. TypeOK /\ FrozenOK /\ WalletKycJustified
  BY DEF IdentityInv
<1>2. /\ todo' \in [Requests -> SUBSET Steps] /\ held' \in [Requests -> HeldType]
      /\ todo[r] = {} /\ todo'[r] = steps
      /\ held'[r].user = uw /\ held'[r].mirror = mw
      /\ \A v \in Requests \ {r} : todo'[v] = todo[v] /\ held'[v] = held[v]
      /\ UNCHANGED documents
  BY <1>1, BeginType
<1>3. TypeOK'
  BY <1>1, <1>2 DEF TypeOK, HeldType, documents
<1>4. ASSUME NEW v \in Requests PROVE WritesOK(v)'
  <2>1. CASE v = r
    BY <1>2, <2>1 DEF WritesOK
  <2>2. CASE v # r
    <3>1. WritesOK(v) /\ todo'[v] = todo[v] /\ held'[v] = held[v] /\ user' = user
      BY <1>2, <2>2 DEF IdentityInv, documents
    <3> QED
      BY <3>1 DEF WritesOK
  <2> QED
    BY <2>1, <2>2
<1>5. user.kyc = "verified" => Editing' \subseteq Editing
  BY <1>2 DEF Editing, Edits
<1>6. FrozenOK'
  BY <1>1, <1>2, <1>5, FrozenStays DEF documents
<1>7. WalletKycJustified'
  BY <1>1, <1>2 DEF WalletKycJustified, documents
<1> QED
  BY <1>3, <1>4, <1>6, <1>7 DEF IdentityInv

(* A request skips steps, and if it skips that on the user, the mirror too. *)
LEMMA SkipStep ==
    ASSUME SizeOK, IdentityInv, NEW r \in Requests, NEW steps \in SUBSET todo[r],
           Leave(r, steps), "user" \in todo[r] /\ "mirror" \in steps => "user" \in steps,
           "user" \in steps =>
               steps \cap {"mail", "unlink"} = todo[r] \cap {"mail", "unlink"},
           UNCHANGED <<user, mirror, made, history>>,
           links' \subseteq links, inbox' \subseteq 0 .. MaxLinks
    PROVE  IdentityInv'
<1>1. TypeOK /\ FrozenOK /\ WalletKycJustified
  BY DEF IdentityInv
<1>2. /\ todo' \in [Requests -> SUBSET Steps] /\ held' \in [Requests -> HeldType]
      /\ todo'[r] = steps
      /\ steps # {} => held'[r] = held[r]
      /\ \A v \in Requests \ {r} : todo'[v] = todo[v] /\ held'[v] = held[v]
  BY <1>1, LeaveType
<1>3. TypeOK'
  BY <1>1, <1>2 DEF TypeOK, HeldType, history
<1>4. ASSUME NEW v \in Requests PROVE WritesOK(v)'
  <2>1. WritesOK(v) /\ UNCHANGED <<user, approved>>
    BY DEF IdentityInv, history
  <2>2. CASE v = r
    BY <1>2, <2>1, <2>2 DEF WritesOK
  <2>3. CASE v # r
    BY <1>2, <2>1, <2>3 DEF WritesOK
  <2> QED
    BY <2>2, <2>3
<1>5. Editing' \subseteq Editing
  BY <1>2 DEF Editing, Edits
<1>6. FrozenOK'
  BY <1>1, <1>5, FrozenStays DEF history
<1>7. WalletKycJustified'
  BY <1>1 DEF WalletKycJustified, history
<1> QED
  BY <1>3, <1>4, <1>6, <1>7 DEF IdentityInv

LEMMA MakeLinkStep ==
    ASSUME SizeOK, IdentityInv, NEW r \in Requests, MakeLink(r)
    PROVE  IdentityInv'
<1>1. TypeOK /\ FrozenOK /\ WalletKycJustified /\ WritesOK(r)
  BY DEF IdentityInv
<1>2. /\ "link" \in todo[r] /\ made < MaxLinks /\ made' = made + 1
      /\ links' = links \cup {[id |-> made + 1, email |-> held[r].mirror.email]}
      /\ held' = [held EXCEPT ![r].link = made + 1]
      /\ todo' = [todo EXCEPT ![r] = @ \ {"link"}]
      /\ UNCHANGED <<user, mirror, inbox, history>>
  BY DEF MakeLink, At
<1>3. made + 1 \in 1 .. MaxLinks /\ made + 1 \in 0 .. MaxLinks
  BY <1>1, <1>2 DEF TypeOK, SizeOK
<1>4. held[r].mirror.email \in Emails
  BY <1>1, <1>2 DEF WritesOK
<1>5. links' \subseteq Links
  BY <1>1, <1>2, <1>3, <1>4 DEF TypeOK, Links
<1>6. /\ held' \in [Requests -> HeldType]
      /\ held'[r].user = held[r].user /\ held'[r].mirror = held[r].mirror
      /\ \A v \in Requests \ {r} : held'[v] = held[v]
  <2> DEFINE h == [held[r] EXCEPT !.link = made + 1]
  <2>1. held[r] \in HeldType
    BY <1>1 DEF TypeOK, HeldType
  <2>2. h \in HeldType /\ h.user = held[r].user /\ h.mirror = held[r].mirror
    BY <1>3, <2>1 DEF HeldType
  <2>3. held' = [held EXCEPT ![r] = h]
    BY <1>2
  <2> HIDE DEF h
  <2>4. held \in [Requests -> HeldType]
    BY <1>1 DEF TypeOK, HeldType
  <2> QED
    BY <2>2, <2>3, <2>4
<1>7. /\ todo' \in [Requests -> SUBSET Steps] /\ todo'[r] = todo[r] \ {"link"}
      /\ \A v \in Requests \ {r} : todo'[v] = todo[v]
  BY <1>1, <1>2 DEF TypeOK
<1>8. TypeOK'
  BY <1>1, <1>2, <1>3, <1>5, <1>6, <1>7 DEF TypeOK, HeldType, history
<1>9. ASSUME NEW v \in Requests PROVE WritesOK(v)'
  <2>1. WritesOK(v) /\ UNCHANGED <<user, approved>>
    BY <1>2 DEF IdentityInv, history
  <2>2. CASE v = r
    BY <1>6, <1>7, <2>1, <2>2 DEF WritesOK
  <2>3. CASE v # r
    BY <1>6, <1>7, <2>1, <2>3 DEF WritesOK
  <2> QED
    BY <2>2, <2>3
<1>10. Editing' \subseteq Editing
  BY <1>6, <1>7 DEF Editing, Edits
<1>11. FrozenOK'
  BY <1>1, <1>2, <1>10, FrozenStays DEF history
<1>12. WalletKycJustified'
  BY <1>1, <1>2 DEF WalletKycJustified, history
<1> QED
  BY <1>8, <1>9, <1>11, <1>12 DEF IdentityInv

(* The write of the user: it may verify, but never takes that back, and the request
   that verifies is not an edit. *)
LEMMA WriteUserStep ==
    ASSUME SizeOK, IdentityInv, NEW r \in Requests, WriteUser(r)
    PROVE  IdentityInv'
<1> DEFINE w == held[r].user
<1>1. TypeOK /\ FrozenOK /\ WalletKycJustified /\ WritesOK(r)
  BY DEF IdentityInv
<1>2. /\ "user" \in todo[r]
      /\ user' = Update(user, w)
      /\ late' = IF user.kyc = "verified" /\ Edits(r) THEN late + 1 ELSE late
      /\ Leave(r, todo[r] \ {"user"})
      /\ UNCHANGED <<mirror, links, made, inbox, confirmed, approved>>
  BY DEF WriteUser, At, Done
<1>3. w \in Writes /\ user \in Users /\ late \in Nat
  BY <1>1 DEF TypeOK
<1>4. w.kyc \in {Keep, "verified"} /\ (w.kyc = "verified" => w.handle = Keep /\ w.email = Keep)
  BY <1>1, <1>2 DEF WritesOK
<1>5. /\ r \in Editing <=> Edits(r)
      /\ w.kyc = "verified" => r \notin Editing
  BY <1>4 DEF Editing, Edits
<1>6. user' \in Users /\ user'.kyc = IF w.kyc = Keep THEN user.kyc ELSE w.kyc
  BY <1>2, <1>3, UpdateUser
<1>7. /\ todo' \in [Requests -> SUBSET Steps] /\ held' \in [Requests -> HeldType]
      /\ todo'[r] = todo[r] \ {"user"}
      /\ todo'[r] # {} => held'[r] = held[r]
      /\ \A v \in Requests \ {r} : todo'[v] = todo[v] /\ held'[v] = held[v]
  BY <1>1, <1>2, LeaveType
<1>8. user.kyc = "verified" => user'.kyc = "verified"
  BY <1>4, <1>6
<1>9. w.kyc = "verified" => user'.kyc = "verified"
  BY <1>6, NothingType DEF Kyc, Keep
<1>10. late' \in Nat
  BY <1>2, <1>3
<1>11. TypeOK'
  BY <1>1, <1>2, <1>6, <1>7, <1>10 DEF TypeOK, HeldType
<1>12. ASSUME NEW v \in Requests PROVE WritesOK(v)'
  <2>1. WritesOK(v)
    BY DEF IdentityInv
  <2>2. CASE v = r
    BY <1>2, <1>7, <1>8, <1>9, <2>1, <2>2 DEF WritesOK
  <2>3. CASE v # r
    BY <1>2, <1>7, <1>8, <2>1, <2>3 DEF WritesOK
  <2> QED
    BY <2>2, <2>3
<1>13. Editing' \subseteq Editing \ {r}
  BY <1>7 DEF Editing, Edits
<1>14. /\ IsFiniteSet(Editing) /\ Cardinality(Editing) \in Nat
       /\ IsFiniteSet(Editing') /\ Cardinality(Editing') \in Nat
       /\ Cardinality(Requests) \in Nat
  <2>1. Editing \subseteq Requests /\ Editing' \subseteq Requests
    BY <1>13 DEF Editing, Edits
  <2> QED
    BY <2>1, FS_Subset, FS_CardinalityType DEF SizeOK
<1>15. FrozenOK'
  <2>1. CASE user.kyc = "verified" /\ r \in Editing
    <3>1. /\ IsFiniteSet(Editing \ {r})
          /\ Cardinality(Editing \ {r}) = Cardinality(Editing) - 1
      BY <1>14, <2>1, FS_RemoveElement
    <3>2. Cardinality(Editing') <= Cardinality(Editing) - 1
      BY <1>13, <1>14, <3>1, FS_Subset
    <3>3. late' = late + 1 /\ user'.kyc = "verified"
      BY <1>2, <1>5, <1>8, <2>1
    <3> QED
      BY <1>1, <1>3, <1>14, <2>1, <3>2, <3>3 DEF FrozenOK
  <2>2. CASE user.kyc = "verified" /\ r \notin Editing
    <3>1. Cardinality(Editing') <= Cardinality(Editing)
      <4>1. Editing' \subseteq Editing
        BY <1>13
      <4> QED
        BY <1>14, <4>1, FS_Subset
    <3>2. late' = late /\ user'.kyc = "verified"
      BY <1>2, <1>5, <1>8, <2>2
    <3> QED
      BY <1>1, <1>3, <1>14, <2>2, <3>1, <3>2 DEF FrozenOK
  <2>3. CASE user.kyc # "verified" /\ user'.kyc = "verified"
    <3>1. late' = 0
      BY <1>1, <1>2, <2>3 DEF FrozenOK
    <3>2. IsFiniteSet(Requests \ {r}) /\ Cardinality(Requests \ {r}) = Cardinality(Requests) - 1
      BY FS_RemoveElement DEF SizeOK
    <3>3. Editing' \subseteq Requests \ {r}
      BY <1>13 DEF Editing, Edits
    <3>4. Cardinality(Editing') <= Cardinality(Requests) - 1
      BY <3>2, <3>3, FS_Subset
    <3> QED
      BY <1>14, <2>3, <3>1, <3>4 DEF FrozenOK
  <2>4. CASE user'.kyc # "verified"
    BY <1>1, <1>2, <1>8, <2>4 DEF FrozenOK
  <2> QED
    BY <2>1, <2>2, <2>3, <2>4
<1>16. WalletKycJustified'
  BY <1>1, <1>2, <1>8 DEF WalletKycJustified
<1> QED
  BY <1>11, <1>12, <1>15, <1>16 DEF IdentityInv

(* The write of the mirror comes after that of the user. *)
LEMMA WriteMirrorStep ==
    ASSUME SizeOK, IdentityInv, NEW r \in Requests, WriteMirror(r)
    PROVE  IdentityInv'
<1> DEFINE w == held[r].mirror
<1>1. TypeOK /\ FrozenOK /\ WalletKycJustified /\ WritesOK(r)
  BY DEF IdentityInv
<1>2. /\ "mirror" \in todo[r] /\ "user" \notin todo[r]
      /\ mirror' = Update(mirror, w)
      /\ Leave(r, todo[r] \ {"mirror"})
      /\ UNCHANGED <<user, links, made, inbox, history>>
  BY DEF WriteMirror, At, Done
<1>3. w \in Writes /\ mirror \in Mirrors
  BY <1>1 DEF TypeOK
<1>4. mirror' \in Mirrors /\ mirror'.kyc = IF w.kyc = Keep THEN mirror.kyc ELSE w.kyc
  BY <1>2, <1>3, UpdateMirror
<1>5. /\ todo' \in [Requests -> SUBSET Steps] /\ held' \in [Requests -> HeldType]
      /\ todo'[r] = todo[r] \ {"mirror"}
      /\ todo'[r] # {} => held'[r] = held[r]
      /\ \A v \in Requests \ {r} : todo'[v] = todo[v] /\ held'[v] = held[v]
  BY <1>1, <1>2, LeaveType
<1>6. TypeOK'
  BY <1>1, <1>2, <1>4, <1>5 DEF TypeOK, HeldType, history
<1>7. ASSUME NEW v \in Requests PROVE WritesOK(v)'
  <2>1. WritesOK(v) /\ UNCHANGED <<user, approved>>
    BY <1>2 DEF IdentityInv, history
  <2>2. CASE v = r
    BY <1>2, <1>5, <2>1, <2>2 DEF WritesOK
  <2>3. CASE v # r
    BY <1>5, <2>1, <2>3 DEF WritesOK
  <2> QED
    BY <2>2, <2>3
<1>8. Editing' \subseteq Editing
  BY <1>5 DEF Editing, Edits
<1>9. FrozenOK'
  BY <1>1, <1>2, <1>8, FrozenStays DEF history
<1>10. WalletKycJustified'
  BY <1>1, <1>2, <1>4 DEF WalletKycJustified, WritesOK, history
<1> QED
  BY <1>6, <1>7, <1>9, <1>10 DEF IdentityInv

LEMMA StartStep ==
    ASSUME SizeOK, IdentityInv, NEW r \in Requests, Start(r)
    PROVE  IdentityInv'
<1>1. /\ TypeOK /\ user \in Users /\ mirror \in Mirrors /\ 0 \in 0 .. MaxLinks
      /\ confirmed \subseteq Emails /\ approved \in BOOLEAN
  BY DEF IdentityInv, TypeOK, SizeOK
<1>2. ASSUME NEW e \in Emails, RequestLink(r, e) PROVE IdentityInv'
  <2> DEFINE w == [Nothing EXCEPT !.email = e, !.verified = "no"]
             steps == {"link", "user", "mirror", "mail"}
  <2>1. w \in Writes /\ w.kyc = Keep /\ w.handle = Keep /\ w.email = e
    BY NothingType DEF Nothing, Writes
  <2>2. Begin(r, steps, Changed(user, w), w, 0) /\ UNCHANGED history /\ steps \subseteq Steps
    BY <1>2 DEF RequestLink, Steps
  <2> HIDE DEF w, steps
  <2>3. /\ Changed(user, w) \in Writes
        /\ Changed(user, w).kyc = Keep
        /\ steps \cap {"mail", "unlink"} # {}
    BY <1>1, <2>1, ChangedUser DEF steps
  <2> QED
    BY <1>1, <2>1, <2>2, <2>3, NothingType, BeginStep DEF history, Keep
<1>3. ASSUME NEW l \in links, OpenLink(r, l) PROVE IdentityInv'
  <2> DEFINE w == [Nothing EXCEPT !.email = l.email, !.verified = "yes"]
             steps == {"user", "mirror", "unlink"}
  <2>1. l.email \in Emails /\ l.id \in 0 .. MaxLinks
    BY <1>1 DEF TypeOK, Links, SizeOK
  <2>2. w \in Writes /\ w.kyc = Keep
    BY <2>1, NothingType DEF Nothing, Writes
  <2>3. /\ Begin(r, steps, w, w, l.id) /\ UNCHANGED <<approved, late>>
        /\ confirmed' \subseteq Emails /\ steps \subseteq Steps /\ "link" \notin steps
        /\ steps \cap {"mail", "unlink"} # {}
    BY <1>1, <1>3, <2>1 DEF OpenLink, Steps
  <2> HIDE DEF w, steps
  <2> QED
    BY <1>1, <2>1, <2>2, <2>3, NothingType, BeginStep DEF Keep
<1>4. ASSUME NEW e \in Emails \cup {None, Keep}, NEW h \in Handles \cup {Keep},
             PatchMe(r, e, h)
      PROVE  IdentityInv'
  <2> DEFINE w == [Nothing EXCEPT !.email = e, !.handle = h,
                                  !.verified = IF e = Keep THEN Keep ELSE "no"]
             mw == [w EXCEPT !.handle = Keep]
             steps == {"user"} \cup (IF e \in Emails THEN {"mirror"} ELSE {})
  <2>1. w \in Writes /\ w.kyc = Keep /\ mw \in Writes /\ mw.kyc = Keep
    BY NothingType DEF Nothing, Writes
  <2>2. /\ Begin(r, steps, Changed(user, w), mw, 0) /\ UNCHANGED history
        /\ user.kyc # "verified" /\ steps \subseteq Steps /\ "link" \notin steps
    BY <1>4 DEF PatchMe, Steps
  <2> HIDE DEF w, mw, steps
  <2>3. Changed(user, w) \in Writes /\ Changed(user, w).kyc = Keep
    BY <1>1, <2>1, ChangedUser
  <2> QED
    BY <1>1, <2>1, <2>2, <2>3, NothingType, BeginStep DEF history, Keep
<1>5. ASSUME NEW e \in Emails \cup {None, Keep}, NEW h \in Handles \cup {Keep},
             UpdateProfile(r, e, h)
      PROVE  IdentityInv'
  <2> DEFINE w == [Nothing EXCEPT !.email = e, !.handle = h]
  <2>1. w \in Writes /\ w.kyc = Keep
    BY NothingType DEF Nothing, Writes
  <2>2. /\ Begin(r, {"user"}, w, Nothing, 0) /\ UNCHANGED history
        /\ user.kyc # "verified" /\ {"user"} \subseteq Steps
    BY <1>5 DEF UpdateProfile, Steps
  <2> HIDE DEF w
  <2> QED
    BY <1>1, <2>1, <2>2, NothingType, BeginStep DEF history, Keep
<1>6. CASE Challenge(r)
  <2> DEFINE w == [Nothing EXCEPT !.challenge = "open"]
  <2>1. w \in Writes /\ w.kyc = Keep /\ w.handle = Keep /\ w.email = Keep
    BY NothingType DEF Nothing, Writes
  <2>2. Begin(r, {"user"}, w, Nothing, 0) /\ UNCHANGED history /\ {"user"} \subseteq Steps
    BY <1>6 DEF Challenge, Steps
  <2> HIDE DEF w
  <2> QED
    BY <1>1, <2>1, <2>2, NothingType, BeginStep DEF history, Keep
<1>7. CASE VerifyKyc(r)
  <2> DEFINE w == [Nothing EXCEPT !.kyc = "verified", !.challenge = None]
             mw == [Nothing EXCEPT !.kyc = "verified"]
  <2>1. /\ w \in Writes /\ w.kyc = "verified" /\ w.handle = Keep /\ w.email = Keep
        /\ mw \in Writes
    BY NothingType DEF Nothing, Writes, Kyc
  <2>2. /\ Begin(r, {"user", "mirror"}, w, mw, 0) /\ UNCHANGED history
        /\ {"user", "mirror"} \subseteq Steps
    BY <1>7 DEF VerifyKyc, Steps
  <2> HIDE DEF w, mw
  <2> QED
    BY <1>1, <2>1, <2>2, BeginStep DEF history
<1>8. CASE Webhook(r)
  <2> DEFINE w == [Nothing EXCEPT !.kyc = "verified"]
  <2>1. w \in Writes /\ w.kyc = "verified" /\ w.handle = Keep /\ w.email = Keep
    BY NothingType DEF Nothing, Writes, Kyc
  <2>2. Begin(r, {"user"}, Changed(user, w), Nothing, 0) /\ UNCHANGED history
        /\ {"user"} \subseteq Steps
    BY <1>8 DEF Webhook, Steps
  <2> HIDE DEF w
  <2>3. /\ Changed(user, w) \in Writes
        /\ Changed(user, w).kyc \in {Keep, "verified"}
        /\ Changed(user, w).handle = Keep /\ Changed(user, w).email = Keep
    BY <1>1, <2>1, ChangedUser
  <2> QED
    BY <1>1, <2>1, <2>2, <2>3, NothingType, BeginStep DEF history, Keep
<1>9. ASSUME NEW k \in {"verified", "rejected", "pending"}, AdminVerdict(r, k) PROVE IdentityInv'
  <2> DEFINE w == [Nothing EXCEPT !.kyc = k]
  <2>1. w \in Writes /\ w.kyc = k
    BY NothingType DEF Nothing, Writes, Kyc
  <2>2. /\ Begin(r, {"mirror"}, Nothing, Changed(mirror, w), 0)
        /\ approved' = (approved \/ k = "verified")
        /\ UNCHANGED <<confirmed, late>> /\ {"mirror"} \subseteq Steps
    BY <1>9 DEF AdminVerdict, Steps
  <2> HIDE DEF w
  <2>3. Changed(mirror, w) \in Writes /\ Changed(mirror, w).kyc \in {Keep, k}
    BY <1>1, <2>1, ChangedMirror
  <2>4. Changed(mirror, w).kyc = "verified" => approved'
    BY <2>2, <2>3 DEF Keep
  <2>5. approved' \in BOOLEAN /\ (approved => approved')
    BY <1>1, <2>2
  <2> QED
    BY <1>1, <2>2, <2>3, <2>4, <2>5, NothingType, BeginStep
<1> QED
  BY <1>2, <1>3, <1>4, <1>5, <1>6, <1>7, <1>8, <1>9 DEF Start

LEMMA IdentityStep ==
    ASSUME SizeOK
    PROVE  IdentityInv /\ [Next]_vars => IdentityInv'
<1> SUFFICES ASSUME IdentityInv, [Next]_vars PROVE IdentityInv'
  OBVIOUS
<1>1. TypeOK /\ links \subseteq links /\ inbox \subseteq 0 .. MaxLinks
  BY DEF IdentityInv, TypeOK
<1>2. ASSUME NEW r \in Requests, Start(r) PROVE IdentityInv'
  BY <1>2, StartStep
<1>3. ASSUME NEW r \in Requests, Continue(r) PROVE IdentityInv'
  <2>1. CASE MakeLink(r)
    BY <2>1, MakeLinkStep
  <2>2. CASE WriteUser(r)
    BY <2>2, WriteUserStep
  <2>3. CASE WriteMirror(r)
    BY <2>3, WriteMirrorStep
  <2>4. CASE SendMail(r)
    <3>1. held[r].link \in 0 .. MaxLinks
      BY <1>1 DEF TypeOK
    <3>2. /\ Leave(r, todo[r] \ {"mail"})
          /\ inbox' \subseteq 0 .. MaxLinks /\ "user" \notin todo[r]
          /\ UNCHANGED <<user, mirror, links, made, history>>
      BY <1>1, <2>4, <3>1 DEF SendMail, Done, At
    <3>3. links' \subseteq links
      BY <3>2
    <3> QED
      BY <3>2, <3>3, SkipStep
  <2>5. CASE Unlink(r)
    <3>1. /\ Leave(r, todo[r] \ {"unlink"})
          /\ links' \subseteq links /\ "user" \notin todo[r]
          /\ UNCHANGED <<user, mirror, made, inbox, history>>
      BY <2>5 DEF Unlink, Done, At
    <3> QED
      BY <1>1, <3>1, SkipStep
  <2> QED
    BY <1>3, <2>1, <2>2, <2>3, <2>4, <2>5 DEF Continue
<1>4. ASSUME NEW r \in Requests, Fails(r) PROVE IdentityInv'
  <2>1. PICK steps \in SUBSET todo[r] :
            /\ Leave(r, steps)
            /\ "user" \in todo[r] /\ "mirror" \in steps => "user" \in steps
            /\ "user" \notin steps
    <3>1. CASE At(r, "link") /\ Leave(r, {})
      BY <3>1
    <3>2. CASE At(r, "user") /\ Leave(r, todo[r] \cap {"unlink"})
      <4>1. "mirror" \notin todo[r] \cap {"unlink"} /\ "user" \notin todo[r] \cap {"unlink"}
        OBVIOUS
      <4> QED
        BY <3>2, <4>1
    <3>3. ASSUME NEW s \in {"mirror", "mail", "unlink"}, At(r, s), Done(r, s)
          PROVE  Leave(r, todo[r] \ {s}) /\ "user" \notin todo[r]
      BY <3>3 DEF At, Done
    <3> QED
      BY <1>4, <3>1, <3>2, <3>3 DEF Fails
  <2>2. UNCHANGED <<documents, history>>
    BY <1>4 DEF Fails
  <2> QED
    BY <1>1, <2>1, <2>2, SkipStep DEF documents
<1>5. ASSUME NEW r \in Requests, Abort(r) PROVE IdentityInv'
  BY <1>1, <1>5, SkipStep DEF Abort, documents
<1>6. ASSUME NEW l \in links, LinkExpires(l) PROVE IdentityInv'
  <2>1. links' \subseteq links /\ UNCHANGED <<user, mirror, made, inbox, todo, held, history>>
    BY <1>6 DEF LinkExpires
  <2>2. TypeOK'
    BY <1>1, <2>1 DEF TypeOK, history
  <2> QED
    BY <2>1, <2>2 DEF IdentityInv, WritesOK, FrozenOK, Editing, Edits, WalletKycJustified, history
<1>7. CASE UNCHANGED vars
  BY <1>7 DEF vars, IdentityInv, TypeOK, WritesOK, FrozenOK, Editing, Edits, WalletKycJustified
<1> QED
  BY <1>2, <1>3, <1>4, <1>5, <1>6, <1>7 DEF Next

LEMMA IdentityInit == ASSUME SizeOK PROVE Init => IdentityInv
<1> SUFFICES ASSUME Init PROVE IdentityInv
  OBVIOUS
<1>1. /\ user \in Users /\ mirror \in Mirrors
      /\ user.kyc = "unverified" /\ mirror.kyc = "unverified"
  BY DEF Init, Users, Mirrors, Kyc
<1>2. /\ todo \in [Requests -> SUBSET Steps] /\ held \in [Requests -> HeldType]
      /\ \A r \in Requests : todo[r] = {}
  BY IdleType DEF Init
<1>3. /\ links \subseteq Links /\ made \in 0 .. MaxLinks /\ inbox \subseteq 0 .. MaxLinks
      /\ confirmed \subseteq Emails /\ approved \in BOOLEAN /\ late = 0
  <2>1. /\ links = {} /\ made = 0 /\ inbox = {} /\ confirmed = {}
        /\ approved = FALSE /\ late = 0
    BY DEF Init
  <2>2. 0 \in 0 .. MaxLinks
    BY DEF SizeOK
  <2> QED
    BY <2>1, <2>2
<1>4. TypeOK
  BY <1>1, <1>2, <1>3 DEF TypeOK, HeldType
<1>5. \A r \in Requests : WritesOK(r)
  BY <1>2 DEF WritesOK
<1>6. FrozenOK /\ WalletKycJustified
  BY <1>1, <1>3 DEF FrozenOK, WalletKycJustified
<1> QED
  BY <1>4, <1>5, <1>6 DEF IdentityInv

LEMMA IdentityAlways == ASSUME SizeOK PROVE Spec => []IdentityInv
BY IdentityInit, IdentityStep, PTL DEF Spec

-----------------------------------------------------------------------------
(* The types, whatever the requests write over one another. *)
THEOREM IdentityTypes == ASSUME SizeOK PROVE Spec => []TypeOK
<1>1. IdentityInv => TypeOK
  BY DEF IdentityInv
<1> QED
  BY <1>1, IdentityAlways, PTL

(* Of any number of requests, the profile edits that check the KYC status on a copy
   and write an e-mail or a handle after it are fewer than the requests. *)
THEOREM LateEditsStop == ASSUME SizeOK PROVE Spec => []LateEditsBounded
<1>1. IdentityInv => LateEditsBounded
  <2> SUFFICES ASSUME IdentityInv, late # 0 PROVE late < Cardinality(Requests)
    BY DEF LateEditsBounded
  <2>1. user.kyc = "verified" /\ late + Cardinality(Editing) < Cardinality(Requests)
    BY DEF IdentityInv, FrozenOK
  <2>2. Editing \subseteq Requests
    BY DEF Editing, Edits
  <2>3. /\ Cardinality(Editing) \in Nat /\ Cardinality(Requests) \in Nat /\ late \in Nat
    BY <2>2, FS_Subset, FS_CardinalityType DEF SizeOK, IdentityInv, TypeOK
  <2> QED
    BY <2>1, <2>3
<1> QED
  BY <1>1, IdentityAlways, PTL

(* The mirror says verified only with the user's document or an admin behind it: for
   any requests, whichever of their steps fail. *)
THEOREM MirrorJustified == ASSUME SizeOK PROVE Spec => []WalletKycJustified
<1>1. IdentityInv => WalletKycJustified
  BY DEF IdentityInv
<1> QED
  BY <1>1, IdentityAlways, PTL

-----------------------------------------------------------------------------
(* UserLists. *)

Starting == {[kind |-> k] : k \in {"donate", "copy", "invite", "edit"}}
            \cup {[kind |-> "follow", wallet |-> w] : w \in Targets}

(* What reading and finishing do to what a request holds. *)
LEMMA LoadType ==
    ASSUME ListsTypeOK, NEW r \in Writers, NEW t \in Starting, Load(r, t)
    PROVE  ListsTypeOK'
<1>1. t \in Tasks
  BY DEF Starting, Tasks
<1>2. [follows |-> follows, copies |-> copies, version |-> version] \in Copies
  BY DEF ListsTypeOK, Copies
<1> QED
  BY <1>1, <1>2 DEF Load, ListsTypeOK, lists

LEMMA FinishType ==
    ASSUME ListsTypeOK, NEW r \in Writers, NEW k, Finish(r, k)
    PROVE  task' \in [Writers -> Tasks] /\ seen' \in [Writers -> Copies]
<1>1. NoTask \in Tasks
  BY DEF Tasks
<1>2. Unread \in Copies
  BY DEF Unread, Copies, Items
<1> QED
  BY <1>1, <1>2 DEF Finish, ListsTypeOK

LEMMA MintType ==
    ASSUME MaxItems \in Nat, ListsTypeOK, Mint
    PROVE  minted' \in 0 .. MaxItems /\ minted + 1 \in Items
BY DEF Mint, ListsTypeOK, Items

LEMMA BumpType ==
    ASSUME ListsTypeOK, Bump
    PROVE  version' \in Nat /\ version' > version
BY DEF Bump, ListsTypeOK

LEMMA FollowTask ==
    ASSUME ListsTypeOK, NEW r \in Writers, task[r].kind = "follow"
    PROVE  task[r].wallet \in Targets
<1>1. task[r] \in Tasks
  BY DEF ListsTypeOK
<1> QED
  BY <1>1 DEF Tasks, NoTask

(* Every step is the reading of some task, a save, an abort or a write without a
   request; what it starts with is one of Starting. *)
LEMMA StepCases ==
    ASSUME NEW r \in Writers, Step(r)
    PROVE  \/ \E t \in Starting : /\ Load(r, t)
                                  /\ t.kind = "follow" => follows[t.wallet] = 0
                                  /\ t.kind = "donate" => active = {}
           \/ FollowSave(r) \/ DonationSave(r) \/ FundraiserSave(r) \/ InviteSave(r)
           \/ EditSave(r) \/ ListsAbort(r)
<1>1. ASSUME NEW w \in Targets, FollowLoad(r, w)
      PROVE  \E t \in Starting : /\ Load(r, t)
                                 /\ t.kind = "follow" => follows[t.wallet] = 0
                                 /\ t.kind = "donate" => active = {}
  BY <1>1 DEF FollowLoad, Starting
<1>2. CASE DonationLoad(r)
  BY <1>2 DEF DonationLoad, Starting
<1>3. CASE FundraiserLoad(r)
  BY <1>3 DEF FundraiserLoad, Starting
<1>4. CASE InviteLoad(r)
  BY <1>4 DEF InviteLoad, Starting
<1>5. CASE EditLoad(r)
  BY <1>5 DEF EditLoad, Starting
<1> QED
  BY <1>1, <1>2, <1>3, <1>4, <1>5 DEF Step

(* Steps keep the types. *)
LEMMA ListsTypeStep ==
    ASSUME MaxItems \in Nat
    PROVE  ListsTypeOK /\ [ListsNext]_listsVars => ListsTypeOK'
<1> SUFFICES ASSUME ListsTypeOK, [ListsNext]_listsVars PROVE ListsTypeOK'
  OBVIOUS
<1>1. ASSUME NEW r \in Writers, Step(r) PROVE ListsTypeOK'
  <2>1. ASSUME NEW t \in Starting, Load(r, t) PROVE ListsTypeOK'
    BY <2>1, LoadType
  <2>2. CASE FollowSave(r)
    <3>1. task' \in [Writers -> Tasks] /\ seen' \in [Writers -> Copies]
      BY <2>2, FinishType DEF FollowSave
    <3>2. CASE Unmodified(r) /\ Bump
      <4>1. task[r].wallet \in Targets
        BY <2>2, FollowTask DEF FollowSave, Finish
      <4>2. seen[r].follows \in [Targets -> Nat]
        BY DEF ListsTypeOK, Copies
      <4>3. seen[r].follows[task[r].wallet] + 1 \in Nat
        BY <4>1, <4>2
      <4>4. [seen[r].follows EXCEPT ![task[r].wallet] = @ + 1] \in [Targets -> Nat]
        BY <4>1, <4>2, <4>3
      <4>5. follows' \in [Targets -> Nat]
        BY <2>2, <3>2, <4>4 DEF FollowSave, Unmodified, Bump
      <4> QED
        BY <2>2, <3>1, <3>2, <4>5, BumpType DEF FollowSave, ListsTypeOK
    <3>3. CASE UNCHANGED <<follows, version>>
      BY <2>2, <3>1, <3>3 DEF FollowSave, ListsTypeOK
    <3> QED
      BY <2>2, <3>2, <3>3 DEF FollowSave
  <2>3. CASE DonationSave(r)
    <3>1. task' \in [Writers -> Tasks] /\ seen' \in [Writers -> Copies]
      BY <2>3, FinishType DEF DonationSave
    <3> QED
      BY <2>3, <3>1, MintType, BumpType DEF DonationSave, ListsTypeOK
  <2>4. CASE FundraiserSave(r)
    <3>1. task' \in [Writers -> Tasks] /\ seen' \in [Writers -> Copies]
      BY <2>4, FinishType DEF FundraiserSave
    <3> QED
      BY <2>4, <3>1, MintType, BumpType DEF FundraiserSave, ListsTypeOK
  <2>5. CASE InviteSave(r)
    <3>1. task' \in [Writers -> Tasks] /\ seen' \in [Writers -> Copies]
      BY <2>5, FinishType DEF InviteSave
    <3>2. seen[r].copies \subseteq Items
      BY DEF ListsTypeOK, Copies
    <3>3. version' \in Nat /\ copies' \subseteq Items
      BY <2>5, <3>2, BumpType DEF InviteSave, ListsTypeOK
    <3> QED
      BY <2>5, <3>1, <3>3 DEF InviteSave, ListsTypeOK
  <2>6. CASE EditSave(r)
    <3>1. task' \in [Writers -> Tasks] /\ seen' \in [Writers -> Copies]
      BY <2>6, FinishType DEF EditSave
    <3>2. version' \in Nat /\ minted' \in 0 .. MaxItems /\ active' \subseteq Items
          /\ replaced' \in BOOLEAN
      BY <2>6, MintType, BumpType DEF EditSave, ListsTypeOK
    <3> QED
      BY <2>6, <3>1, <3>2 DEF EditSave, ListsTypeOK
  <2>7. CASE ListsAbort(r)
    <3>1. task' \in [Writers -> Tasks] /\ seen' \in [Writers -> Copies]
      BY <2>7, FinishType DEF ListsAbort
    <3> QED
      BY <2>7, <3>1 DEF ListsAbort, ListsTypeOK, lists
  <2> QED
    BY <1>1, <2>1, <2>2, <2>3, <2>4, <2>5, <2>6, <2>7, StepCases
<1>2. CASE EditProfile
  <2>1. minted' \in 0 .. MaxItems /\ active' \subseteq Items
    BY <1>2, MintType DEF EditProfile
  <2> QED
    BY <1>2, <2>1 DEF EditProfile, ListsTypeOK
<1>3. ASSUME NEW d \in Items, Deactivate(d) PROVE ListsTypeOK'
  BY <1>3 DEF Deactivate, ListsTypeOK
<1>4. CASE UNCHANGED listsVars
  BY <1>4 DEF listsVars, ListsTypeOK
<1> QED
  BY <1>1, <1>2, <1>3, <1>4 DEF ListsNext

LEMMA ListsTypeInit == ASSUME MaxItems \in Nat PROVE ListsInit => ListsTypeOK
<1> SUFFICES ASSUME ListsInit PROVE ListsTypeOK
  OBVIOUS
<1>1. NoTask \in Tasks /\ Unread \in Copies
  BY DEF Tasks, Unread, Copies, Items
<1>2. task \in [Writers -> Tasks] /\ seen \in [Writers -> Copies]
  BY <1>1 DEF ListsInit
<1>3. minted \in 0 .. MaxItems /\ follows \in [Targets -> Nat]
  BY DEF ListsInit
<1> QED
  BY <1>2, <1>3 DEF ListsInit, ListsTypeOK

(* Every variable keeps its type, for any number of requests and any bounds. *)
THEOREM ListsTypes ==
    ASSUME MaxItems \in Nat
    PROVE  ListsSpec => []ListsTypeOK
BY ListsTypeInit, ListsTypeStep, PTL DEF ListsSpec
-----------------------------------------------------------------------------
(* A copy that is as new as the document tells the truth about the lists that are
   written whole, and no copy is newer; a follow was decided on a list without the
   wallet.  Every other change of those lists bumps the version. *)
SeenOK(r) ==
    task[r] # NoTask =>
        /\ seen[r].version <= version
        /\ seen[r].version = version => seen[r].follows = follows /\ seen[r].copies = copies
        /\ task[r].kind = "follow" => seen[r].follows[task[r].wallet] = 0

SeenInv == \A r \in Writers : SeenOK(r)
ListInv == SeenInv /\ FollowedOnce /\ CopiesKept

(* A step that bumps the version, or leaves it and the lists, keeps the other
   requests' copies in order. *)
LEMMA OthersSeen ==
    ASSUME ListsTypeOK, SeenInv, NEW r \in Writers,
           \A q \in Writers \ {r} : task'[q] = task[q] /\ seen'[q] = seen[q],
           task'[r] = NoTask,
           \/ version' \in Nat /\ version' > version
           \/ UNCHANGED <<version, follows, copies>>
    PROVE  SeenInv'
<1> SUFFICES ASSUME NEW q \in Writers PROVE SeenOK(q)'
  BY DEF SeenInv
<1>0. seen[q].version \in Nat /\ version \in Nat /\ SeenOK(q)
  BY DEF ListsTypeOK, Copies, SeenInv
<1>1. CASE q = r
  BY <1>1 DEF SeenOK
<1>2. CASE q # r /\ version' \in Nat /\ version' > version
  <2>1. seen[q].version <= version => seen[q].version < version' /\ seen[q].version # version'
    BY <1>0, <1>2
  <2> QED
    BY <1>0, <1>2, <2>1 DEF SeenOK
<1>3. CASE q # r /\ UNCHANGED <<version, follows, copies>>
  BY <1>0, <1>3 DEF SeenOK
<1> QED
  BY <1>1, <1>2, <1>3

LEMMA FinishSeen ==
    ASSUME ListsTypeOK, NEW r \in Writers, NEW k, Finish(r, k)
    PROVE  /\ \A q \in Writers \ {r} : task'[q] = task[q] /\ seen'[q] = seen[q]
           /\ task'[r] = NoTask
BY DEF Finish, ListsTypeOK

LEMMA ListInvStep == ListsTypeOK /\ ListInv /\ [ListsNext]_listsVars => ListInv'
<1> SUFFICES ASSUME ListsTypeOK, ListInv, [ListsNext]_listsVars PROVE ListInv'
  OBVIOUS
<1>0. SeenInv /\ FollowedOnce /\ CopiesKept
  BY DEF ListInv
<1>1. ASSUME NEW r \in Writers, Step(r) PROVE ListInv'
  <2>1. ASSUME NEW t \in Starting, Load(r, t), t.kind = "follow" => follows[t.wallet] = 0
        PROVE  ListInv'
    <3>1. UNCHANGED <<follows, copies, copied, version>>
      BY <2>1 DEF Load, lists
    <3>2. ASSUME NEW q \in Writers PROVE SeenOK(q)'
      <4>1. CASE q = r
        <5>1. task'[r] = t /\ seen'[r] = [follows |-> follows, copies |-> copies, version |-> version]
          BY <2>1 DEF Load, ListsTypeOK
        <5>2. seen'[r].version <= version
          BY <5>1 DEF ListsTypeOK
        <5> QED
          BY <2>1, <3>1, <4>1, <5>1, <5>2 DEF SeenOK
      <4>2. CASE q # r
        <5>1. task'[q] = task[q] /\ seen'[q] = seen[q]
          BY <2>1, <4>2 DEF Load, ListsTypeOK
        <5> QED
          BY <1>0, <3>1, <5>1 DEF SeenOK, SeenInv
      <4> QED
        BY <4>1, <4>2
    <3> QED
      BY <1>0, <3>1, <3>2 DEF ListInv, SeenInv, FollowedOnce, CopiesKept
  <2>2. CASE FollowSave(r)
    <3>1. /\ \A q \in Writers \ {r} : task'[q] = task[q] /\ seen'[q] = seen[q]
          /\ task'[r] = NoTask
      BY <2>2, FinishSeen DEF FollowSave
    <3>2. SeenInv'
      BY <1>0, <2>2, <3>1, OthersSeen, BumpType DEF FollowSave
    <3>3. FollowedOnce'
      <4>1. CASE Unmodified(r) /\ follows' = [seen[r].follows EXCEPT ![task[r].wallet] = @ + 1]
        <5>1. task[r] # NoTask /\ task[r].kind = "follow"
          BY <2>2 DEF FollowSave, Finish, NoTask
        <5>2. seen[r].follows = follows /\ follows[task[r].wallet] = 0
          BY <1>0, <4>1, <5>1 DEF SeenInv, SeenOK, Unmodified
        <5> QED
          BY <1>0, <4>1, <5>2 DEF FollowedOnce, ListsTypeOK
      <4>2. CASE UNCHANGED follows
        BY <1>0, <4>2 DEF FollowedOnce
      <4> QED
        BY <2>2, <4>1, <4>2 DEF FollowSave
    <3> QED
      BY <1>0, <2>2, <3>2, <3>3 DEF ListInv, FollowSave, CopiesKept
  <2>3. CASE DonationSave(r)
    <3>1. SeenInv'
      BY <1>0, <2>3, FinishSeen, OthersSeen, BumpType DEF DonationSave
    <3> QED
      BY <1>0, <2>3, <3>1 DEF ListInv, DonationSave, FollowedOnce, CopiesKept
  <2>4. CASE FundraiserSave(r)
    <3>1. SeenInv'
      BY <1>0, <2>4, FinishSeen, OthersSeen, BumpType DEF FundraiserSave
    <3> QED
      BY <1>0, <2>4, <3>1 DEF ListInv, FundraiserSave, FollowedOnce, CopiesKept
  <2>5. CASE InviteSave(r)
    <3>1. SeenInv'
      BY <1>0, <2>5, FinishSeen, OthersSeen, BumpType DEF InviteSave
    <3>2. CopiesKept'
      <4>1. CASE Unmodified(r) /\ copies' = seen[r].copies
        <5>1. task[r] # NoTask
          BY <2>5 DEF InviteSave, Finish, NoTask
        <5>2. copies' = copies
          BY <1>0, <4>1, <5>1 DEF SeenInv, SeenOK, Unmodified
        <5> QED
          BY <1>0, <2>5, <5>2 DEF InviteSave, CopiesKept
      <4>2. CASE UNCHANGED copies
        BY <1>0, <2>5, <4>2 DEF InviteSave, CopiesKept
      <4> QED
        BY <2>5, <4>1, <4>2 DEF InviteSave
    <3> QED
      BY <1>0, <2>5, <3>1, <3>2 DEF ListInv, InviteSave, FollowedOnce
  <2>6. CASE EditSave(r)
    <3>1. SeenInv'
      BY <1>0, <2>6, FinishSeen, OthersSeen, BumpType DEF EditSave
    <3> QED
      BY <1>0, <2>6, <3>1 DEF ListInv, EditSave, FollowedOnce, CopiesKept
  <2>7. CASE ListsAbort(r)
    <3>1. SeenInv'
      BY <1>0, <2>7, FinishSeen, OthersSeen DEF ListsAbort, lists
    <3> QED
      BY <1>0, <2>7, <3>1 DEF ListInv, ListsAbort, lists, FollowedOnce, CopiesKept
  <2> QED
    BY <1>1, <2>1, <2>2, <2>3, <2>4, <2>5, <2>6, <2>7, StepCases
<1>2. CASE UNCHANGED <<follows, copies, version, task, seen, copied>>
  BY <1>0, <1>2 DEF ListInv, SeenInv, SeenOK, FollowedOnce, CopiesKept
<1>3. EditProfile \/ (\E d \in Items : Deactivate(d)) \/ UNCHANGED listsVars
      => UNCHANGED <<follows, copies, version, task, seen, copied>>
  BY DEF EditProfile, Deactivate, listsVars
<1> QED
  BY <1>1, <1>2, <1>3 DEF ListsNext

LEMMA ListInvInit == ListsInit => ListInv
BY DEF ListsInit, ListInv, SeenInv, SeenOK, FollowedOnce, CopiesKept

(* However many requests follow wallets at once, none is followed twice. *)
THEOREM NeverFollowedTwice ==
    ASSUME MaxItems \in Nat
    PROVE  ListsSpec => []FollowedOnce
<1>1. ListInv => FollowedOnce
  BY DEF ListInv
<1> QED
  BY <1>1, ListsTypeInit, ListsTypeStep, ListInvInit, ListInvStep, PTL DEF ListsSpec

(* No invite loses the copy of a fundraiser that was added meanwhile. *)
THEOREM CopiesAreKept ==
    ASSUME MaxItems \in Nat
    PROVE  ListsSpec => []CopiesKept
<1>1. ListInv => CopiesKept
  BY DEF ListInv
<1> QED
  BY <1>1, ListsTypeInit, ListsTypeStep, ListInvInit, ListInvStep, PTL DEF ListsSpec

-----------------------------------------------------------------------------
(* Requests that passed the check for an active donation request and are to push. *)
Donating == {r \in Writers : task[r] = [kind |-> "donate"]}

(* The active requests and those to come are at most as many as there are requests. *)
DonationInv ==
    ~replaced => Cardinality(active) + Cardinality(Donating) <= Cardinality(Writers)

LEMMA DonatingFinite ==
    ASSUME MaxItems \in Nat, IsFiniteSet(Writers), ListsTypeOK
    PROVE  /\ IsFiniteSet(Donating) /\ Cardinality(Donating) <= Cardinality(Writers)
           /\ Cardinality(Donating) \in Nat /\ Cardinality(Writers) \in Nat
           /\ IsFiniteSet(active) /\ Cardinality(active) \in Nat
<1>1. Donating \subseteq Writers
  BY DEF Donating
<1>2. IsFiniteSet(Items)
  BY FS_Interval DEF Items
<1>3. IsFiniteSet(active)
  BY <1>2, FS_Subset DEF ListsTypeOK
<1> QED
  BY <1>1, <1>3, FS_Subset, FS_CardinalityType

(* Neither more to come nor more active. *)
LEMMA DonationsShrink ==
    ASSUME MaxItems \in Nat, IsFiniteSet(Writers), ListsTypeOK, DonationInv,
           Donating' \subseteq Donating, active' \subseteq active, replaced' = replaced
    PROVE  DonationInv'
<1>1. /\ IsFiniteSet(Donating) /\ Cardinality(Donating) \in Nat
      /\ IsFiniteSet(active) /\ Cardinality(active) \in Nat /\ Cardinality(Writers) \in Nat
  BY DonatingFinite
<1>2. Cardinality(Donating') <= Cardinality(Donating) /\ IsFiniteSet(Donating')
  BY <1>1, FS_Subset
<1>3. Cardinality(active') <= Cardinality(active) /\ IsFiniteSet(active')
  BY <1>1, FS_Subset
<1>4. Cardinality(Donating') \in Nat /\ Cardinality(active') \in Nat
  BY <1>2, <1>3, FS_CardinalityType
<1> QED
  BY <1>1, <1>2, <1>3, <1>4 DEF DonationInv

LEMMA DonationStep ==
    ASSUME MaxItems \in Nat, IsFiniteSet(Writers)
    PROVE  ListsTypeOK /\ DonationInv /\ [ListsNext]_listsVars => DonationInv'
<1> SUFFICES ASSUME ListsTypeOK, DonationInv, [ListsNext]_listsVars PROVE DonationInv'
  OBVIOUS
<1>0. ListsTypeOK'
  BY ListsTypeStep
<1>1. ASSUME NEW r \in Writers, Step(r) PROVE DonationInv'
  <2>0. ASSUME NEW k, Finish(r, k)
        PROVE  Donating' \subseteq Donating /\ r \notin Donating'
               /\ (k = "donate" => Donating' = Donating \ {r})
    BY <2>0, FinishSeen DEF Donating, NoTask
  <2>1. ASSUME NEW t \in Starting, Load(r, t), t.kind = "donate" => active = {}
        PROVE  DonationInv'
    <3>1. UNCHANGED <<active, replaced>>
      BY <2>1 DEF Load, lists
    <3>2. CASE t.kind = "donate"
      <4>1. Cardinality(active') = 0
        BY <2>1, <3>1, <3>2, FS_EmptySet
      <4>2. Cardinality(Donating') <= Cardinality(Writers) /\ Cardinality(Donating') \in Nat
        BY <1>0, DonatingFinite, FS_Subset, FS_CardinalityType DEF Donating
      <4> QED
        BY <4>1, <4>2 DEF DonationInv
    <3>3. CASE t.kind # "donate"
      <4>1. Donating' \subseteq Donating
        BY <2>1, <3>3 DEF Load, Donating, ListsTypeOK
      <4> QED
        BY <3>1, <4>1, DonationsShrink
    <3> QED
      BY <3>2, <3>3
  <2>2. CASE DonationSave(r)
    <3> DEFINE D == Donating
    <3>1. Donating' = Donating \ {r} /\ r \in Donating
      <4>1. task[r] \in Tasks /\ task[r].kind = "donate"
        BY <2>2 DEF DonationSave, Finish, ListsTypeOK
      <4>2. task[r] = [kind |-> "donate"]
        BY <4>1 DEF Tasks, NoTask
      <4> QED
        BY <2>0, <2>2, <4>2 DEF DonationSave, Donating
    <3>2. Cardinality(Donating') = Cardinality(Donating) - 1
      BY <3>1, DonatingFinite, FS_RemoveElement
    <3>3. active' = active \cup {minted + 1} /\ replaced' = replaced
      BY <2>2 DEF DonationSave
    <3>4. Cardinality(active') <= Cardinality(active) + 1 /\ Cardinality(active') \in Nat
      <4>1. Cardinality(active \cup {minted + 1}) =
              IF minted + 1 \in active THEN Cardinality(active) ELSE Cardinality(active) + 1
        BY DonatingFinite, FS_AddElement
      <4>2. Cardinality(active) \in Nat
        BY DonatingFinite
      <4> QED
        BY <3>3, <4>1, <4>2
    <3>5. Cardinality(Donating) \in Nat /\ Cardinality(Writers) \in Nat /\ Cardinality(active) \in Nat
      BY DonatingFinite
    <3> QED
      BY <3>2, <3>3, <3>4, <3>5 DEF DonationInv
  <2>3. CASE EditSave(r)
    <3>1. CASE replaced' = TRUE
      BY <3>1 DEF DonationInv
    <3>2. CASE UNCHANGED <<active, replaced>>
      <4>1. Donating' \subseteq Donating
        BY <2>0, <2>3 DEF EditSave
      <4> QED
        BY <3>2, <4>1, DonationsShrink
    <3> QED
      BY <2>3, <3>1, <3>2 DEF EditSave
  <2>4. CASE FollowSave(r)
    <3>1. Donating' \subseteq Donating /\ UNCHANGED <<active, replaced>>
      BY <2>0, <2>4 DEF FollowSave
    <3> QED
      BY <3>1, DonationsShrink
  <2>5. CASE FundraiserSave(r)
    <3>1. Donating' \subseteq Donating /\ UNCHANGED <<active, replaced>>
      BY <2>0, <2>5 DEF FundraiserSave
    <3> QED
      BY <3>1, DonationsShrink
  <2>6. CASE InviteSave(r)
    <3>1. Donating' \subseteq Donating /\ UNCHANGED <<active, replaced>>
      BY <2>0, <2>6 DEF InviteSave
    <3> QED
      BY <3>1, DonationsShrink
  <2>7. CASE ListsAbort(r)
    <3>1. Donating' \subseteq Donating /\ UNCHANGED <<active, replaced>>
      BY <2>0, <2>7 DEF ListsAbort, lists
    <3> QED
      BY <3>1, DonationsShrink
  <2> QED
    BY <1>1, <2>1, <2>2, <2>3, <2>4, <2>5, <2>6, <2>7, StepCases
<1>2. CASE EditProfile
  BY <1>2 DEF EditProfile, DonationInv
<1>3. ASSUME NEW d \in Items, Deactivate(d) PROVE DonationInv'
  <2>1. Donating' = Donating /\ active' \subseteq active /\ replaced' = replaced
    BY <1>3 DEF Deactivate, Donating
  <2> QED
    BY <2>1, DonationsShrink
<1>4. CASE UNCHANGED listsVars
  <2>1. Donating' = Donating /\ active' = active /\ replaced' = replaced
    BY <1>4 DEF listsVars, Donating
  <2> QED
    BY <2>1, DonationsShrink
<1> QED
  BY <1>1, <1>2, <1>3, <1>4 DEF ListsNext

(* With n requests at a time a user who only asks has at most n active donation
   requests, whichever of them passed the check together. *)
THEOREM DonationsBounded ==
    ASSUME MaxItems \in Nat, IsFiniteSet(Writers)
    PROVE  ListsSpec => []DonationOverrun
<1>1. ListsInit => DonationInv
  <2> SUFFICES ASSUME ListsInit PROVE DonationInv
    OBVIOUS
  <2>1. active = {} /\ Donating = {}
    BY DEF ListsInit, Donating, NoTask
  <2> QED
    BY <2>1, FS_EmptySet, FS_CardinalityType DEF DonationInv
<1>2. ListsTypeOK /\ DonationInv => DonationOverrun
  <2> SUFFICES ASSUME ListsTypeOK, DonationInv, ~replaced
               PROVE  Cardinality(active) <= Cardinality(Writers)
    BY DEF DonationOverrun
  <2> QED
    BY DonatingFinite DEF DonationInv
<1> QED
  BY <1>1, <1>2, ListsTypeInit, ListsTypeStep, DonationStep, PTL DEF ListsSpec
=================================================================================
