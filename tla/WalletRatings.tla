---------------------------- MODULE WalletRatings ----------------------------
(***************************************************************************)
(* The ratings of one wallet: pages/api/ratings.ts (POST) loads the        *)
(* document, changes its copy and saves it, while the moderator's          *)
(* pages/api/admin/remove-moderation-item.ts takes a rating out in one     *)
(* update.  Of mongoose: a push is merged into the stored array and bumps  *)
(* the version; a change in place names the element by its position and is *)
(* refused when the version is not the loaded one; $pull does neither; a   *)
(* scalar is written when it differs from the loaded one.                  *)
(***************************************************************************)
EXTENDS Naturals, Sequences, SequencesExt

CONSTANTS
    Requests,
    Raters,
    Scores,
    MaxRatings,     \* bound: ratings in the document
    MaxSaves        \* bound: ratings and removals

VARIABLES
    ratings,        \* the array: [user, score]
    average,        \* avgRating, as a fraction
    version,        \* __v
    rating,         \* where a request is
    copy,           \* the document as a request loaded it, and what it asks
    fresh,          \* ghost: nothing was written since the request loaded
    lone,           \* ghost: the last write was by a fresh request
    saves           \* ghost: counts ratings and removals

vars == <<ratings, average, version, rating, copy, fresh, lone, saves>>

Nobody == "nobody"
NoCopy == [user |-> Nobody, score |-> 0, ratings |-> <<>>,
           average |-> [sum |-> 0, count |-> 1], version |-> 0]

(* The reduce over the ratings, *)
Total(list) ==
    LET total[n \in 0 .. Len(list)] ==
            IF n = 0 THEN 0 ELSE total[n - 1] + list[n].score
    IN total[Len(list)]

(* as the fraction it divides; 0 when there are none. *)
Mean(list) ==
    IF list = <<>>
    THEN [sum |-> 0, count |-> 1]
    ELSE [sum |-> Total(list), count |-> Len(list)]

Equal(a, b) == a.sum * b.count = b.sum * a.count

(* A wallet nobody has rated yet is an empty document: the request creates it. *)
Init ==
    /\ ratings = <<>>
    /\ average = Mean(<<>>)
    /\ version = 0
    /\ rating = [r \in Requests |-> "idle"]
    /\ copy = [r \in Requests |-> NoCopy]
    /\ fresh = [r \in Requests |-> FALSE]
    /\ lone = TRUE
    /\ saves = 0

Load(r) ==
    /\ rating[r] = "idle"
    /\ rating' = [rating EXCEPT ![r] = "loaded"]
    /\ \E u \in Raters, s \in Scores :
          copy' = [copy EXCEPT ![r] = [user |-> u, score |-> s, ratings |-> ratings,
                                       average |-> average, version |-> version]]
    /\ fresh' = [fresh EXCEPT ![r] = TRUE]
    /\ UNCHANGED <<ratings, average, version, lone, saves>>

(* wallet.ratings.find: where the user's own rating is in the copy. *)
Own(c) == SelectInSeq(c.ratings, LAMBDA x : x.user = c.user)

Rated(c) == [user |-> c.user, score |-> c.score]

Ends(r) ==
    /\ rating' = [rating EXCEPT ![r] = "idle"]
    /\ copy' = [copy EXCEPT ![r] = NoCopy]

(* What every write does to the ghosts. *)
Wrote(isFresh) ==
    /\ fresh' = [r \in Requests |-> FALSE]
    /\ lone' = isFresh
    /\ saves' = saves + 1

WriteAverage(c, list) ==
    average' = IF Equal(Mean(list), c.average) THEN average ELSE Mean(list)

AverageBeforePush(c) == WriteAverage(c, c.ratings)
AverageOfCopy(c) ==
    WriteAverage(c, IF Own(c) = 0 THEN Append(c.ratings, Rated(c))
                    ELSE [c.ratings EXCEPT ![Own(c)] = Rated(c)])

(* A first rating is pushed. *)
SaveNew(r) ==
    LET c == copy[r] IN
    /\ rating[r] = "loaded" /\ Own(c) = 0
    /\ saves < MaxSaves /\ Len(ratings) < MaxRatings
    /\ ratings' = Append(ratings, Rated(c))
    /\ version' = version + 1
    /\ AverageOfCopy(c)
    /\ Wrote(fresh[r]) /\ Ends(r)

(* A rating given before is changed at the position it has in the copy: a position
   that a removal has left empty gets an element without a user. *)
SaveInPlace(r) ==
    LET c == copy[r] IN
    /\ rating[r] = "loaded" /\ Own(c) # 0
    /\ saves < MaxSaves
    /\ c.version = version
    /\ ratings' = IF Own(c) <= Len(ratings)
                  THEN [ratings EXCEPT ![Own(c)].score = c.score]
                  ELSE Append(ratings, [user |-> Nobody, score |-> c.score])
    /\ AverageOfCopy(c)
    /\ Wrote(fresh[r]) /\ Ends(r)
    /\ UNCHANGED version

(* VersionError: nothing is written. *)
SaveRefused(r) ==
    LET c == copy[r] IN
    /\ rating[r] = "loaded" /\ Own(c) # 0
    /\ c.version # version
    /\ Ends(r)
    /\ fresh' = [fresh EXCEPT ![r] = FALSE]
    /\ UNCHANGED <<ratings, average, version, lone, saves>>

(* DELETE of remove-moderation-item.ts: the average stays. *)
RemoveItem(i) ==
    /\ saves < MaxSaves
    /\ ratings' = RemoveAt(ratings, i)
    /\ Wrote(FALSE)
    /\ UNCHANGED <<average, version, rating, copy>>

Next ==
    \/ \E r \in Requests : Load(r) \/ SaveNew(r) \/ SaveInPlace(r) \/ SaveRefused(r)
    \/ \E i \in DOMAIN ratings : RemoveItem(i)

Spec == Init /\ [][Next]_vars

-----------------------------------------------------------------------------
(* Properties. *)

(* Every variable has its type. *)
TypeOK ==
    /\ ratings \in Seq([user : Raters \cup {Nobody}, score : Scores])
    /\ average \in [sum : Nat, count : Nat \ {0}]
    /\ version \in Nat /\ saves \in 0 .. MaxSaves
    /\ rating \in [Requests -> {"idle", "loaded"}]
    /\ \A r \in Requests : copy[r].user \in Raters \cup {Nobody}
    /\ fresh \in [Requests -> BOOLEAN] /\ lone \in BOOLEAN

(* Whatever overlapping ratings and removals have done to avgRating, a rating whose
   load and save no other write separates makes it the mean of all ratings again. *)
AverageHeals == lone => Equal(average, Mean(ratings))
===============================================================================
