---------------------------- MODULE DocumentsProofs ----------------------------
(***************************************************************************)
(* Theorems about the components of MCDocuments that are instances there,  *)
(* Outreach, WalletRatings, ProfileEditor and LiveFeed, and the types of   *)
(* all of its variables: for any requests, users, forms and transactions   *)
(* and any thresholds, limits and bounds.                                  *)
(*                                                                         *)
(* Each component has an inductive invariant.  A step of one leaves the    *)
(* variables of the others alone, so that each is an invariant of          *)
(* DocumentsSpec.                                                          *)
(***************************************************************************)
EXTENDS MCDocuments, UserProofs, Sequences, WellFoundedInduction

(* The instances count as this module does. *)
LEMMA SameCardinality ==
    ASSUME NEW S
    PROVE  /\ Promotion!Cardinality(S) = Cardinality(S)
           /\ Editor!Cardinality(S) = Cardinality(S)
           /\ Feed!Cardinality(S) = Cardinality(S)
BY DEF Promotion!Cardinality, Editor!Cardinality, Feed!Cardinality, Cardinality

-----------------------------------------------------------------------------
(* Outreach.  A request that goes on to promote the provider found it to be a
   candidate, which it stays: reports are only added. *)

PromotionInv ==
    /\ Promotion!TypeOK
    /\ CounterNeverAhead
    /\ \/ readyForOutreach
       \/ \E r \in Requests : phase[r] \in {"promote", "save"}
       => Promotion!Candidate

Uncounting == {r \in Requests : phase[r] = "count"}

LEMMA UncountingFinite ==
    /\ IsFiniteSet(Uncounting) /\ Cardinality(Uncounting) \in Nat
    /\ Promotion!Uncounted = Cardinality(Uncounting)
    /\ Promotion!Uncounted' = Cardinality(Uncounting')
<1>1. Uncounting \subseteq Requests
  BY DEF Uncounting
<1>2. IsFiniteSet(Uncounting) /\ Cardinality(Uncounting) \in Nat
  BY <1>1, DocumentsAssumption, FS_Subset, FS_CardinalityType
<1>3. Promotion!Uncounted = Cardinality(Uncounting)
  BY SameCardinality DEF Uncounting, Promotion!Uncounted
<1>4. Promotion!Uncounted' = Cardinality(Uncounting')
  BY SameCardinality DEF Uncounting, Promotion!Uncounted
<1> QED
  BY <1>2, <1>3, <1>4

LEMMA UncountingShrinks ==
    ASSUME Uncounting' \subseteq Uncounting
    PROVE  Promotion!Uncounted' \in Nat /\ Promotion!Uncounted' <= Promotion!Uncounted
<1>1. /\ IsFiniteSet(Uncounting')
      /\ Cardinality(Uncounting') <= Cardinality(Uncounting)
  BY UncountingFinite, FS_Subset
<1> QED
  BY <1>1, UncountingFinite, FS_CardinalityType

(* A candidate stays one. *)
LEMMA ReportersFinite ==
    ASSUME NEW list \in Seq(Reporters)
    PROVE  IsFiniteSet(Promotion!ToSet(list)) /\ Cardinality(Promotion!ToSet(list)) \in Nat
<1> DEFINE listed == [i \in 1 .. Len(list) |-> list[i]]
<1>1. IsFiniteSet(1 .. Len(list))
  BY FS_Interval
<1>2. listed \in Surjection(1 .. Len(list), Promotion!ToSet(list))
  <2>1. DOMAIN list = 1 .. Len(list)
    OBVIOUS
  <2>2. listed \in [1 .. Len(list) -> Promotion!ToSet(list)]
    BY <2>1 DEF Promotion!ToSet
  <2>3. \A u \in Promotion!ToSet(list) : \E i \in 1 .. Len(list) : listed[i] = u
    BY <2>1 DEF Promotion!ToSet
  <2> HIDE DEF listed
  <2> QED
    BY <2>2, <2>3 DEF Surjection
<1> QED
  BY <1>1, <1>2, FS_Surjection, FS_CardinalityType

LEMMA MoreReports ==
    ASSUME reports \in Seq(Reporters), NEW u \in Reporters, reports' = Append(reports, u)
    PROVE  /\ reports' \in Seq(Reporters)
           /\ Promotion!Total' = Promotion!Total + 1
           /\ Promotion!Candidate => Promotion!Candidate'
<1>1. reports' \in Seq(Reporters) /\ Len(reports') = Len(reports) + 1
  OBVIOUS
<1>2. \A i \in 1 .. Len(reports) : reports'[i] = reports[i]
  OBVIOUS
<1>3. Promotion!ToSet(reports) \subseteq Promotion!ToSet(reports')
  BY <1>1, <1>2 DEF Promotion!ToSet
<1>4. Cardinality(Promotion!ToSet(reports)) <= Cardinality(Promotion!ToSet(reports'))
  BY <1>1, <1>3, ReportersFinite, FS_Subset
<1>5. /\ Cardinality(Promotion!ToSet(reports)) \in Nat
      /\ Cardinality(Promotion!ToSet(reports')) \in Nat
      /\ Promotion!Distinct = Cardinality(Promotion!ToSet(reports))
      /\ Promotion!Distinct' = Cardinality(Promotion!ToSet(reports'))
  BY <1>1, ReportersFinite, SameCardinality DEF Promotion!Distinct
<1>6. MinReports \in Nat /\ MinUnique \in Nat
  BY DocumentsAssumption
<1> QED
  BY <1>1, <1>4, <1>5, <1>6
     DEF Promotion!Total, Promotion!Candidate

LEMMA PromotionStep == PromotionInv /\ [Promotion!Next]_promotionVars => PromotionInv'
<1> SUFFICES ASSUME PromotionInv, [Promotion!Next]_promotionVars PROVE PromotionInv'
  OBVIOUS
<1> USE DEF PromotionInv, Promotion!TypeOK, Promotion!Phases, Promotion!Goto
<1>1. ASSUME NEW r \in Requests, NEW u \in Reporters, Promotion!CreateReport(r, u)
      PROVE  PromotionInv'
  <2>1. /\ reports' = Append(reports, u) /\ phase[r] = "idle"
        /\ phase' = [phase EXCEPT ![r] = "count"]
        /\ UNCHANGED <<reportsCount, readyForOutreach>>
    BY <1>1 DEF Promotion!CreateReport
  <2>2. r \notin Uncounting /\ Uncounting' = Uncounting \cup {r}
    BY <2>1 DEF Uncounting
  <2>3. Cardinality(Uncounting') = Cardinality(Uncounting) + 1
    BY <2>2, UncountingFinite, FS_AddElement
  <2>4. CounterNeverAhead'
    BY <2>1, <2>3, MoreReports, UncountingFinite
       DEF CounterNeverAhead, Promotion!CounterNeverAhead, Promotion!Total
  <2>5. Promotion!Candidate => Promotion!Candidate'
    BY <2>1, MoreReports
  <2> QED
    BY <2>1, <2>4, <2>5, MoreReports
<1>2. ASSUME NEW r \in Requests, Promotion!CountReport(r)
      PROVE  PromotionInv'
  <2>1. /\ phase[r] = "count" /\ reportsCount' = reportsCount + 1
        /\ phase' = [phase EXCEPT ![r] = "idle"]
        /\ UNCHANGED <<reports, readyForOutreach>>
    BY <1>2 DEF Promotion!CountReport
  <2>2. r \in Uncounting /\ Uncounting' = Uncounting \ {r}
    BY <2>1 DEF Uncounting
  <2>3. Cardinality(Uncounting') = Cardinality(Uncounting) - 1
    BY <2>2, UncountingFinite, FS_RemoveElement
  <2>4. CounterNeverAhead'
    BY <2>1, <2>3, UncountingFinite
       DEF CounterNeverAhead, Promotion!CounterNeverAhead, Promotion!Total
  <2> QED
    BY <2>1, <2>4 DEF Promotion!Candidate, Promotion!Total, Promotion!Distinct
<1>3. ASSUME NEW r \in Requests, NEW p \in Promotion!Phases \ {"count"},
             phase' = [phase EXCEPT ![r] = p], UNCHANGED <<reports, reportsCount>>,
             readyForOutreach' \in BOOLEAN,
             readyForOutreach' \/ p \in {"promote", "save"} => Promotion!Candidate
      PROVE  PromotionInv'
  <2>1. Uncounting' \subseteq Uncounting
    BY <1>3 DEF Uncounting
  <2>2. CounterNeverAhead'
    BY <1>3, <2>1, UncountingShrinks, UncountingFinite
       DEF CounterNeverAhead, Promotion!CounterNeverAhead, Promotion!Total
  <2>3. Promotion!Candidate' = Promotion!Candidate
    BY <1>3 DEF Promotion!Candidate, Promotion!Total, Promotion!Distinct
  <2> QED
    BY <1>3, <2>2, <2>3
<1>4. ASSUME NEW r \in Requests, Promotion!FindCandidates(r) PROVE PromotionInv'
  BY <1>3, <1>4 DEF Promotion!FindCandidates, Promotion!documents
<1>5. ASSUME NEW r \in Requests, Promotion!LoadCandidate(r) PROVE PromotionInv'
  BY <1>3, <1>5 DEF Promotion!LoadCandidate, Promotion!documents
<1>6. ASSUME NEW r \in Requests, Promotion!Promote(r) PROVE PromotionInv'
  BY <1>3, <1>6 DEF Promotion!Promote
<1>7. ASSUME NEW r \in Requests, Promotion!Abort(r) PROVE PromotionInv'
  BY <1>3, <1>7 DEF Promotion!Abort, Promotion!documents
<1>8. CASE UNCHANGED promotionVars
  BY <1>8 DEF promotionVars, CounterNeverAhead, Promotion!CounterNeverAhead,
              Promotion!Uncounted, Promotion!Candidate, Promotion!Total, Promotion!Distinct
<1> QED
  BY <1>1, <1>2, <1>4, <1>5, <1>6, <1>7, <1>8 DEF Promotion!Next
LEMMA PromotionInit == Promotion!Init => PromotionInv
<1> SUFFICES ASSUME Promotion!Init PROVE PromotionInv
  OBVIOUS
<1>1. Uncounting = {} /\ Len(reports) = 0
  BY DEF Uncounting, Promotion!Init
<1>2. Promotion!Uncounted = 0
  BY <1>1, UncountingFinite, FS_EmptySet
<1>3. CounterNeverAhead
  BY <1>1, <1>2 DEF Promotion!Init, CounterNeverAhead, Promotion!CounterNeverAhead,
                    Promotion!Total
<1>4. Promotion!TypeOK
  <2>1. reports \in Seq(Reporters)
    BY DEF Promotion!Init
  <2>2. reportsCount \in Nat /\ readyForOutreach \in BOOLEAN
    BY DEF Promotion!Init
  <2>3. phase \in [Requests -> Promotion!Phases]
    BY DEF Promotion!Init, Promotion!Phases
  <2> QED
    BY <2>1, <2>2, <2>3 DEF Promotion!TypeOK
<1>5. ~readyForOutreach /\ \A r \in Requests : phase[r] = "idle"
  BY DEF Promotion!Init
<1> QED
  BY <1>3, <1>4, <1>5 DEF PromotionInv

-----------------------------------------------------------------------------
(* WalletRatings.  The sum a mean divides is defined by recursion over the list; that
   it is a number for every list is shown by a least place where it would not be. *)

LEMMA Least ==
    ASSUME NEW S \in SUBSET Nat, S # {}
    PROVE  \E x \in S : \A y \in S : x <= y
<1>1. PICK x \in S : \A y \in S : ~(<<y, x>> \in OpToRel(<, Nat))
  BY WFMin, NatLessThanWellFounded
<1>2. \A y \in S : ~(y < x)
  BY <1>1 DEF OpToRel
<1> QED
  BY <1>2

Sums(list, g, k) ==
    g = [n \in 0 .. k |-> IF n = 0 THEN 0 ELSE g[n - 1] + list[n].score]

LEMMA SumsExist ==
    ASSUME NEW list, Len(list) \in Nat
    PROVE  \E g : Sums(list, g, Len(list))
<1> DEFINE Without == {k \in 0 .. Len(list) : ~\E g : Sums(list, g, k)}
<1>1. SUFFICES ASSUME Without # {} PROVE FALSE
  OBVIOUS
<1>2. Without \subseteq Nat
  OBVIOUS
<1>3. PICK k \in Without : \A j \in Without : k <= j
  BY <1>1, <1>2, Least
<1>4. k # 0
  <2>1. Sums(list, [n \in 0 .. 0 |-> 0], 0)
    BY DEF Sums
  <2> QED
    BY <2>1
<1>5. k - 1 \in 0 .. Len(list) /\ k - 1 \notin Without
  BY <1>3, <1>4
<1>6. PICK g : Sums(list, g, k - 1)
  BY <1>5
<1> DEFINE h == [n \in 0 .. k |-> IF n = k THEN g[k - 1] + list[k].score ELSE g[n]]
<1>7. \A n \in 0 .. k - 1 :
         h[n] = g[n] /\ g[n] = IF n = 0 THEN 0 ELSE g[n - 1] + list[n].score
  BY <1>4, <1>5, <1>6 DEF Sums
<1>8. \A n \in 0 .. k : h[n] = IF n = 0 THEN 0 ELSE h[n - 1] + list[n].score
  <2>1. k \in Nat \ {0}
    BY <1>2, <1>4
  <2>2. ASSUME NEW n \in 0 .. k - 1
        PROVE  h[n] = IF n = 0 THEN 0 ELSE h[n - 1] + list[n].score
    <3>1. h[n] = g[n] /\ g[n] = IF n = 0 THEN 0 ELSE g[n - 1] + list[n].score
      BY <1>7
    <3>2. n # 0 => h[n - 1] = g[n - 1]
      BY <1>7, <2>1
    <3> HIDE DEF h
    <3> QED
      BY <3>1, <3>2
  <2>3. h[k] = g[k - 1] + list[k].score /\ h[k - 1] = g[k - 1]
    BY <2>1
  <2> QED
    BY <2>1, <2>2, <2>3
<1>9. Sums(list, h, k)
  BY <1>8 DEF Sums
<1> QED
  BY <1>9

LEMMA TotalType ==
    ASSUME NEW list, Len(list) \in Nat, \A n \in 1 .. Len(list) : list[n].score \in Nat
    PROVE  Ratings!Total(list) \in Nat
<1> DEFINE total == CHOOSE g : Sums(list, g, Len(list))
           Bad == {k \in 0 .. Len(list) : total[k] \notin Nat}
<1>1. Ratings!Total(list) = total[Len(list)]
  BY DEF Ratings!Total, Sums
<1>2. Sums(list, total, Len(list))
  BY SumsExist
<1> HIDE DEF total
<1>3. \A n \in 0 .. Len(list) :
         total[n] = IF n = 0 THEN 0 ELSE total[n - 1] + list[n].score
  BY <1>2 DEF Sums
<1>4. Bad = {}
  <2>1. SUFFICES ASSUME Bad # {} PROVE FALSE
    OBVIOUS
  <2>2. PICK k \in Bad : \A j \in Bad : k <= j
    <3>1. Bad \subseteq Nat
      OBVIOUS
    <3> QED
      BY <2>1, <3>1, Least
  <2>3. k # 0
    BY <1>3
  <2>4. k - 1 \in 0 .. Len(list) /\ k - 1 \notin Bad
    BY <2>2, <2>3
  <2> QED
    BY <1>3, <2>2, <2>3, <2>4
<1> QED
  BY <1>1, <1>4

Scored == [user : Raters \cup {Ratings!Nobody}, score : Scores]
Averages == [sum : Nat, count : Nat \ {0}]
Loaded == [user : Raters, score : Scores, ratings : Seq(Scored), average : Averages,
           version : Nat]

(* A request that no write has overtaken knows what the document holds. *)
RatingsInv ==
    /\ Ratings!TypeOK
    /\ AverageHeals
    /\ \A r \in Requests :
          /\ rating[r] = "loaded" => copy[r] \in Loaded
          /\ fresh[r] => copy[r].ratings = ratings /\ copy[r].average = average
    /\ copy \in [Requests -> Loaded \cup {Ratings!NoCopy}]

LEMMA MeanType == ASSUME NEW list \in Seq(Scored) PROVE Ratings!Mean(list) \in Averages
<1>1. CASE list = <<>>
  BY <1>1 DEF Ratings!Mean, Averages
<1>2. CASE list # <<>>
  <2>1. Len(list) \in Nat \ {0}
    BY <1>2
  <2>2. \A n \in 1 .. Len(list) : list[n].score \in Nat
    <3>1. \A n \in 1 .. Len(list) : list[n] \in Scored
      OBVIOUS
    <3>2. Scores \subseteq Nat
      BY DocumentsAssumption
    <3> QED
      BY <3>1, <3>2 DEF Scored
  <2>3. Ratings!Total(list) \in Nat
    BY <2>1, <2>2, TotalType
  <2> QED
    BY <1>2, <2>1, <2>3 DEF Ratings!Mean, Averages
<1> QED
  BY <1>1, <1>2

LEMMA OwnPlace ==
    ASSUME NEW c, Len(c.ratings) \in Nat, Ratings!Own(c) # 0
    PROVE  Ratings!Own(c) \in 1 .. Len(c.ratings) /\ c.ratings[Ratings!Own(c)].user = c.user
<1> DEFINE Places == {i \in 1 .. Len(c.ratings) : c.ratings[i].user = c.user}
<1>1. Ratings!Own(c) = IF Places # {} THEN Ratings!Min(Places) ELSE 0
  BY DEF Ratings!Own, Ratings!SelectInSeq
<1>2. Places # {} /\ Ratings!Own(c) = Ratings!Min(Places)
  BY <1>1
<1>3. Places \subseteq Nat
  OBVIOUS
<1>4. \E x \in Places : \A y \in Places : x <= y
  BY <1>2, <1>3, Least
<1>5. Ratings!Min(Places) \in Places
  <2> HIDE DEF Places
  <2> QED
    BY <1>4 DEF Ratings!Min
<1> QED
  BY <1>2, <1>5

(* The average written is the mean of the list the request made of its copy, if that
   copy's average is the stored one. *)
LEMMA AverageWritten ==
    ASSUME NEW c, NEW list \in Seq(Scored), average \in Averages,
           Ratings!WriteAverage(c, list)
    PROVE  /\ average' \in Averages
           /\ c.average = average => Ratings!Equal(average', Ratings!Mean(list))
<1>1. Ratings!Mean(list) \in Averages
  BY MeanType
<1> QED
  BY <1>1 DEF Ratings!WriteAverage, Ratings!Equal

(* A write by a request: what it leaves of the invariant is the new array and average. *)
LEMMA SaveRating ==
    ASSUME RatingsInv, NEW r \in Requests, NEW list \in Seq(Scored),
           ratings' \in Seq(Scored), fresh[r] => ratings' = list,
           saves < MaxSaves, revision' \in Nat,
           Ratings!WriteAverage(copy[r], list), Ratings!Wrote(fresh[r]), Ratings!Ends(r)
    PROVE  RatingsInv'
<1>1. /\ fresh' = [q \in Requests |-> FALSE] /\ lone' = fresh[r] /\ saves' = saves + 1
      /\ rating' = [rating EXCEPT ![r] = "idle"]
      /\ copy' = [copy EXCEPT ![r] = Ratings!NoCopy]
  BY DEF Ratings!Wrote, Ratings!Ends
<1>2. average \in Averages
  BY DEF RatingsInv, Ratings!TypeOK, Averages
<1>3. average' \in Averages
  BY <1>2, AverageWritten
<1>4. AverageHeals'
  <2>1. SUFFICES ASSUME lone' PROVE Ratings!Equal(average, Ratings!Mean(ratings))'
    BY DEF AverageHeals, Ratings!AverageHeals
  <2>2. fresh[r]
    BY <1>1, <2>1
  <2>3. copy[r].average = average /\ ratings' = list
    BY <2>2 DEF RatingsInv
  <2>4. Ratings!Equal(average', Ratings!Mean(ratings'))
    BY <1>2, <2>3, AverageWritten
  <2> QED
    BY <2>4 DEF Ratings!Equal, Ratings!Mean, Ratings!Total
<1>5. copy' \in [Requests -> Loaded \cup {Ratings!NoCopy}]
  BY <1>1 DEF RatingsInv
<1>6. Ratings!TypeOK'
  <2>1. ratings' \in Seq([user : Raters \cup {Ratings!Nobody}, score : Scores])
    BY DEF Scored
  <2>2. average' \in [sum : Nat, count : Nat \ {0}]
    BY <1>3 DEF Averages
  <2>3. saves' \in 0 .. MaxSaves
    BY <1>1, DocumentsAssumption DEF RatingsInv, Ratings!TypeOK
  <2>4. rating' \in [Requests -> {"idle", "loaded"}]
    BY <1>1 DEF RatingsInv, Ratings!TypeOK
  <2>5. \A q \in Requests : copy'[q].user \in Raters \cup {Ratings!Nobody}
    BY <1>5 DEF Loaded, Ratings!NoCopy
  <2>6. fresh' \in [Requests -> BOOLEAN] /\ lone' \in BOOLEAN
    BY <1>1 DEF RatingsInv, Ratings!TypeOK
  <2> QED
    BY <2>1, <2>2, <2>3, <2>4, <2>5, <2>6 DEF Ratings!TypeOK
<1>7. \A q \in Requests : rating'[q] = "loaded" => copy'[q] \in Loaded
  BY <1>1 DEF RatingsInv, Ratings!TypeOK
<1> QED
  BY <1>1, <1>4, <1>5, <1>6, <1>7 DEF RatingsInv

LEMMA RatingsStep == RatingsInv /\ [Ratings!Next]_ratingsVars => RatingsInv'
<1> SUFFICES ASSUME RatingsInv, [Ratings!Next]_ratingsVars PROVE RatingsInv'
  OBVIOUS
<1>0. /\ ratings \in Seq(Scored) /\ average \in Averages /\ revision \in Nat
      /\ saves \in 0 .. MaxSaves /\ rating \in [Requests -> {"idle", "loaded"}]
      /\ fresh \in [Requests -> BOOLEAN] /\ lone \in BOOLEAN
  BY DEF RatingsInv, Ratings!TypeOK, Scored, Averages
<1>1. ASSUME NEW r \in Requests, Ratings!Load(r) PROVE RatingsInv'
  <2>1. PICK u \in Raters, s \in Scores :
           copy' = [copy EXCEPT ![r] = [user |-> u, score |-> s, ratings |-> ratings,
                                        average |-> average, version |-> revision]]
    BY <1>1 DEF Ratings!Load
  <2>2. /\ rating' = [rating EXCEPT ![r] = "loaded"]
        /\ fresh' = [fresh EXCEPT ![r] = TRUE]
        /\ UNCHANGED <<ratings, average, revision, lone, saves>>
    BY <1>1 DEF Ratings!Load
  <2> DEFINE c == [user |-> u, score |-> s, ratings |-> ratings, average |-> average,
                   version |-> revision]
  <2>3. c \in Loaded
    BY <1>0 DEF Loaded
  <2>4. copy' \in [Requests -> Loaded \cup {Ratings!NoCopy}]
    BY <2>1, <2>3 DEF RatingsInv
  <2>5. \A q \in Requests :
           /\ rating'[q] = "loaded" => copy'[q] \in Loaded
           /\ fresh'[q] => copy'[q].ratings = ratings' /\ copy'[q].average = average'
    BY <1>0, <2>1, <2>2, <2>3 DEF RatingsInv
  <2>6. Ratings!TypeOK'
    <3>1. \A q \in Requests : copy'[q].user \in Raters \cup {Ratings!Nobody}
      BY <2>4 DEF Loaded, Ratings!NoCopy
    <3> QED
      BY <1>0, <2>2, <3>1 DEF Ratings!TypeOK, Scored, Averages
  <2>7. AverageHeals'
    BY <2>2 DEF RatingsInv, AverageHeals, Ratings!AverageHeals, Ratings!Equal,
                Ratings!Mean, Ratings!Total
  <2> QED
    BY <2>4, <2>5, <2>6, <2>7 DEF RatingsInv
<1>2. ASSUME NEW r \in Requests, Ratings!SaveNew(r) PROVE RatingsInv'
  <2>1. copy[r] \in Loaded /\ Ratings!Own(copy[r]) = 0
    BY <1>2 DEF Ratings!SaveNew, RatingsInv
  <2> DEFINE list == Append(copy[r].ratings, Ratings!Rated(copy[r]))
  <2>2. Ratings!Rated(copy[r]) \in Scored
    BY <2>1 DEF Loaded, Scored, Ratings!Rated
  <2>3. list \in Seq(Scored) /\ ratings' \in Seq(Scored)
    BY <1>0, <1>2, <2>1, <2>2 DEF Ratings!SaveNew, Loaded
  <2>4. Ratings!WriteAverage(copy[r], list)
    BY <1>2, <2>1 DEF Ratings!SaveNew, Ratings!AverageOfCopy
  <2>5. fresh[r] => ratings' = list
    BY <1>2 DEF Ratings!SaveNew, RatingsInv
  <2>6. /\ revision' = revision + 1 /\ saves < MaxSaves
        /\ Ratings!Wrote(fresh[r]) /\ Ratings!Ends(r)
    BY <1>2 DEF Ratings!SaveNew
  <2>7. revision' \in Nat
    BY <1>0, <2>6
  <2> HIDE DEF list
  <2> QED
    BY <2>3, <2>4, <2>5, <2>6, <2>7, SaveRating
<1>3. ASSUME NEW r \in Requests, Ratings!SaveInPlace(r) PROVE RatingsInv'
  <2>1. copy[r] \in Loaded /\ Ratings!Own(copy[r]) # 0
    BY <1>3 DEF Ratings!SaveInPlace, RatingsInv
  <2> DEFINE c == copy[r]
             own == Ratings!Own(c)
             list == [c.ratings EXCEPT ![own] = Ratings!Rated(c)]
  <2>2. Ratings!Rated(c) = [user |-> c.user, score |-> c.score]
    BY DEF Ratings!Rated
  <2>3. c.ratings \in Seq(Scored) /\ c.score \in Scores /\ c.user \in Raters
    BY <2>1 DEF Loaded
  <2>4. own \in 1 .. Len(c.ratings) /\ c.ratings[own].user = c.user
    BY <2>1, <2>3, OwnPlace
  <2>5. ratings' = IF own <= Len(ratings) THEN [ratings EXCEPT ![own].score = c.score]
                   ELSE Append(ratings, [user |-> Ratings!Nobody, score |-> c.score])
    BY <1>3 DEF Ratings!SaveInPlace
  <2>6. Ratings!WriteAverage(c, list)
    BY <1>3, <2>1 DEF Ratings!SaveInPlace, Ratings!AverageOfCopy
  <2>7. fresh[r] => c.ratings = ratings
    BY DEF RatingsInv
  <2>8. Ratings!Rated(c) \in Scored
    BY <2>2, <2>3 DEF Scored
  <2>9. UNCHANGED revision /\ saves < MaxSaves /\ Ratings!Wrote(fresh[r]) /\ Ratings!Ends(r)
    BY <1>3 DEF Ratings!SaveInPlace
  <2> HIDE DEF own, c
  <2>10. list \in Seq(Scored)
    BY <2>3, <2>4, <2>8
  <2>11. ratings' \in Seq(Scored)
    <3>1. CASE own <= Len(ratings)
      <4>1. ratings[own] \in Scored
        BY <1>0, <2>4, <3>1
      <4>2. [ratings[own] EXCEPT !.score = c.score] \in Scored
        BY <2>3, <4>1 DEF Scored
      <4> QED
        BY <1>0, <2>4, <2>5, <3>1, <4>2
    <3>2. CASE ~(own <= Len(ratings))
      <4>1. [user |-> Ratings!Nobody, score |-> c.score] \in Scored
        BY <2>3 DEF Scored
      <4> QED
        BY <1>0, <2>5, <3>2, <4>1
    <3> QED
      BY <3>1, <3>2
  <2>12. fresh[r] => ratings' = list
    <3>1. SUFFICES ASSUME fresh[r] PROVE ratings' = list
      OBVIOUS
    <3>2. ratings[own] \in Scored /\ ratings[own].user = c.user
      BY <2>3, <2>4, <2>7, <3>1
    <3>3. [ratings[own] EXCEPT !.score = c.score] = Ratings!Rated(c)
      BY <2>2, <3>2 DEF Scored
    <3>4. own <= Len(ratings)
      BY <2>4, <2>7, <3>1
    <3> QED
      BY <2>5, <2>7, <3>1, <3>3, <3>4
  <2> QED
    BY <1>0, <2>6, <2>9, <2>10, <2>11, <2>12, SaveRating DEF c
<1>4. ASSUME NEW r \in Requests, Ratings!SaveRefused(r) PROVE RatingsInv'
  <2>1. /\ rating' = [rating EXCEPT ![r] = "idle"]
        /\ copy' = [copy EXCEPT ![r] = Ratings!NoCopy]
        /\ fresh' = [fresh EXCEPT ![r] = FALSE]
        /\ UNCHANGED <<ratings, average, revision, lone, saves>>
    BY <1>4 DEF Ratings!SaveRefused, Ratings!Ends
  <2>2. copy' \in [Requests -> Loaded \cup {Ratings!NoCopy}]
    BY <2>1 DEF RatingsInv
  <2>3. \A q \in Requests :
           /\ rating'[q] = "loaded" => copy'[q] \in Loaded
           /\ fresh'[q] => copy'[q].ratings = ratings' /\ copy'[q].average = average'
    BY <1>0, <2>1 DEF RatingsInv
  <2>4. Ratings!TypeOK'
    <3>1. \A q \in Requests : copy'[q].user \in Raters \cup {Ratings!Nobody}
      BY <2>2 DEF Loaded, Ratings!NoCopy
    <3> QED
      BY <1>0, <2>1, <3>1 DEF Ratings!TypeOK, Scored, Averages
  <2>5. AverageHeals'
    BY <2>1 DEF RatingsInv, AverageHeals, Ratings!AverageHeals, Ratings!Equal,
                Ratings!Mean, Ratings!Total
  <2> QED
    BY <2>2, <2>3, <2>4, <2>5 DEF RatingsInv
<1>5. ASSUME NEW i \in DOMAIN ratings, Ratings!RemoveItem(i) PROVE RatingsInv'
  <2>1. /\ fresh' = [q \in Requests |-> FALSE] /\ lone' = FALSE /\ saves' = saves + 1
        /\ saves < MaxSaves /\ UNCHANGED <<average, revision, rating, copy>>
        /\ ratings' = SubSeq(ratings, 1, i - 1) \o SubSeq(ratings, i + 1, Len(ratings))
    BY <1>5 DEF Ratings!RemoveItem, Ratings!Wrote, Ratings!RemoveAt
  <2>2. ratings' \in Seq(Scored)
    <3>1. i \in 1 .. Len(ratings)
      BY <1>0
    <3>2. /\ SubSeq(ratings, 1, i - 1) \in Seq(Scored)
          /\ SubSeq(ratings, i + 1, Len(ratings)) \in Seq(Scored)
      BY <1>0, <3>1
    <3> QED
      BY <2>1, <3>2
  <2>3. saves' \in 0 .. MaxSaves
    BY <1>0, <2>1, DocumentsAssumption
  <2>4. Ratings!TypeOK'
    BY <1>0, <2>1, <2>2, <2>3 DEF RatingsInv, Ratings!TypeOK, Scored, Averages
  <2>5. AverageHeals'
    BY <2>1 DEF AverageHeals, Ratings!AverageHeals
  <2> QED
    BY <2>1, <2>4, <2>5 DEF RatingsInv
<1>6. CASE UNCHANGED ratingsVars
  BY <1>6 DEF ratingsVars, RatingsInv, Ratings!TypeOK, AverageHeals, Ratings!AverageHeals,
              Ratings!Equal, Ratings!Mean, Ratings!Total
<1> QED
  BY <1>1, <1>2, <1>3, <1>4, <1>5, <1>6 DEF Ratings!Next

LEMMA RatingsInit == Ratings!Init => RatingsInv
<1> SUFFICES ASSUME Ratings!Init PROVE RatingsInv
  OBVIOUS
<1>1. ratings = <<>> /\ average = [sum |-> 0, count |-> 1]
  BY DEF Ratings!Init, Ratings!Mean
<1>2. /\ revision = 0 /\ saves = 0 /\ lone = TRUE
      /\ rating = [r \in Requests |-> "idle"] /\ fresh = [r \in Requests |-> FALSE]
      /\ copy = [r \in Requests |-> Ratings!NoCopy]
  BY DEF Ratings!Init
<1>3. AverageHeals
  BY DEF Ratings!Init, AverageHeals, Ratings!AverageHeals, Ratings!Equal, Ratings!Mean
<1>4. \A r \in Requests : copy[r].user \in Raters \cup {Ratings!Nobody}
  BY <1>2 DEF Ratings!NoCopy
<1>5. ratings \in Seq([user : Raters \cup {Ratings!Nobody}, score : Scores])
  BY <1>1
<1>6. saves \in 0 .. MaxSaves
  BY <1>2, DocumentsAssumption
<1>7. Ratings!TypeOK
  BY <1>1, <1>2, <1>4, <1>5, <1>6 DEF Ratings!TypeOK
<1> QED
  BY <1>2, <1>3, <1>7 DEF RatingsInv

-----------------------------------------------------------------------------
(* LiveFeed.  Sockets are opened by the connects and reconnects that errors allow; what
   is listed was seen, and is listed once. *)

SocketsOK ==
    /\ mounted \in BOOLEAN /\ polling \in BOOLEAN
    /\ connecting \in Nat /\ retries \in 0 .. MaxErrors /\ reconnects \in 0 .. retries
    /\ opened \in 0 .. MaxErrors + 1 /\ live \subseteq 1 .. opened
    /\ opened + connecting + reconnects <= (IF mounted THEN retries ELSE MaxErrors) + 1

QueuesOK ==
    /\ queue \in [Feed!Sockets -> Seq(Txs)]
    /\ fetching \in [Feed!Sockets -> SUBSET Txs]
    /\ \A s \in Feed!Sockets :
          IsFiniteSet(fetching[s]) /\ Cardinality(fetching[s]) <= Concurrency

BufferOK == buffered \in Seq(Txs) /\ flushTimeout \in {"null", "set", "fired"}

ListOK ==
    /\ updating \in BOOLEAN /\ seenRef \subseteq Txs
    /\ txs \in Seq(Txs) /\ Len(txs) <= MaxListed
    /\ \A n \in DOMAIN txs : txs[n] \in seenRef
    /\ \A m, n \in DOMAIN txs : txs[m] = txs[n] => m = n

FeedInv == SocketsOK /\ QueuesOK /\ BufferOK /\ ListOK

LEMMA FeedTypes == FeedInv => Feed!TypeOK
<1> SUFFICES ASSUME FeedInv PROVE Feed!TypeOK
  OBVIOUS
<1>1. reconnects \in 0 .. MaxErrors
  BY DocumentsAssumption DEF FeedInv, SocketsOK
<1> QED
  BY <1>1, SameCardinality DEF FeedInv, SocketsOK, QueuesOK, BufferOK, ListOK, Feed!TypeOK

(* What a place in a list of ids once each stands for. *)
LEMMA PlacesFinite ==
    ASSUME NEW a, NEW b, NEW S \in SUBSET Nat, NEW n \in Nat, S \subseteq 1 .. n,
           NEW m \in Nat
    PROVE  /\ IsFiniteSet(({a} \X S) \cup ({b} \X (1 .. m)))
           /\ Cardinality(({a} \X S) \cup ({b} \X (1 .. m))) \in Nat
<1>1. IsFiniteSet(1 .. n) /\ IsFiniteSet(1 .. m)
  BY FS_Interval
<1>2. IsFiniteSet(S)
  BY <1>1, FS_Subset
<1>3. IsFiniteSet({a}) /\ IsFiniteSet({b})
  BY FS_Singleton
<1>4. IsFiniteSet({a} \X S) /\ IsFiniteSet({b} \X (1 .. m))
  BY <1>1, <1>2, <1>3, FS_Product
<1>5. IsFiniteSet(({a} \X S) \cup ({b} \X (1 .. m)))
  BY <1>4, FS_Union
<1> QED
  BY <1>5, FS_CardinalityType

LEMMA MergeStep ==
    ASSUME BufferOK, ListOK, Feed!Merge, updating' \in BOOLEAN
    PROVE  /\ ListOK'
           /\ \A n \in DOMAIN txs' : txs'[n] \in seenRef => \E m \in DOMAIN txs : txs[m] = txs'[n]
<1> DEFINE new == {"new"} \X Feed!NotSeen(buffered)
           old == {"old"} \X DOMAIN txs
           places == new \cup old
           Value(place) == IF place \in new THEN buffered[place[2]] ELSE txs[place[2]]
           length == Cardinality(places)
<1>1. /\ buffered \in Seq(Txs) /\ txs \in Seq(Txs)
      /\ DOMAIN buffered = 1 .. Len(buffered) /\ DOMAIN txs = 1 .. Len(txs)
  BY DEF BufferOK, ListOK
<1>2. length \in Nat
  <2>1. Feed!NotSeen(buffered) \subseteq 1 .. Len(buffered)
    BY <1>1 DEF Feed!NotSeen
  <2>2. Len(buffered) \in Nat /\ Len(txs) \in Nat
    BY <1>1
  <2>3. Feed!NotSeen(buffered) \in SUBSET Nat
    BY <2>1, <2>2
  <2>4. places = ({"new"} \X Feed!NotSeen(buffered)) \cup ({"old"} \X (1 .. Len(txs)))
    BY <1>1
  <2> HIDE DEF places
  <2> QED
    BY <2>1, <2>2, <2>3, <2>4, PlacesFinite
<1>3. PICK sorted \in Feed!SetToSeqs(places) :
         txs' = [n \in 1 .. (IF length > MaxListed THEN MaxListed ELSE length)
                   |-> Value(sorted[n])]
  BY SameCardinality DEF Feed!Merge
<1>4. /\ sorted \in [1 .. length -> places]
      /\ \A i, j \in 1 .. length : i # j => sorted[i] # sorted[j]
  <2> HIDE DEF places
  <2>1. Feed!Cardinality(places) = length
    BY SameCardinality
  <2>2. sorted \in {f \in [1 .. Feed!Cardinality(places) -> places] :
                     \A i, j \in 1 .. Feed!Cardinality(places) : i # j => f[i] # f[j]}
    BY <1>3 DEF Feed!SetToSeqs
  <2> QED
    BY <2>1, <2>2
<1>5. ASSUME NEW p \in new
      PROVE  /\ p[2] \in 1 .. Len(buffered) /\ p = <<"new", p[2]>>
             /\ Value(p) = buffered[p[2]] /\ Value(p) \in Txs \ seenRef
             /\ \A j \in 1 .. p[2] - 1 : buffered[j] # Value(p)
  BY <1>1, <1>5 DEF Feed!NotSeen
<1>6. ASSUME NEW p \in old
      PROVE  p[2] \in DOMAIN txs /\ p = <<"old", p[2]>> /\ Value(p) = txs[p[2]] /\ Value(p) \in seenRef
  BY <1>1, <1>6 DEF ListOK
<1>7. seenRef' = seenRef \cup {buffered[i] : i \in DOMAIN buffered}
  BY DEF Feed!Merge, Feed!ToSet
<1>8. ASSUME NEW p \in places, NEW q \in places, Value(p) = Value(q) PROVE p = q
  <2> HIDE DEF new, old, Value
  <2>1. CASE p \in new /\ q \in new
    <3>1. ~(p[2] < q[2]) /\ ~(q[2] < p[2])
      BY <1>5, <1>8, <2>1
    <3> QED
      BY <1>5, <2>1, <3>1
  <2>2. CASE p \in old /\ q \in old
    BY <1>6, <1>8, <2>2 DEF ListOK
  <2>3. CASE ~(p \in new <=> q \in new) \/ ~(p \in old <=> q \in old)
    BY <1>5, <1>6, <1>8, <2>3
  <2> QED
    BY <2>1, <2>2, <2>3
<1>9. ASSUME NEW p \in places
      PROVE  Value(p) \in Txs /\ Value(p) \in seenRef'
  BY <1>1, <1>5, <1>6, <1>7 DEF ListOK
<1>10. ASSUME NEW p \in places, Value(p) \in seenRef
       PROVE  \E m \in DOMAIN txs : txs[m] = Value(p)
  BY <1>5, <1>6, <1>10
<1> HIDE DEF Value, places, length
<1>11. PICK k \in Nat : k <= length /\ k <= MaxListed /\ txs' = [n \in 1 .. k |-> Value(sorted[n])]
  BY <1>2, <1>3, DocumentsAssumption
<1>12. DOMAIN txs' = 1 .. k /\ \A n \in 1 .. k : txs'[n] = Value(sorted[n]) /\ sorted[n] \in places
  BY <1>2, <1>4, <1>11
<1>13. txs' \in Seq(Txs) /\ Len(txs') = k
  BY <1>9, <1>11, <1>12
<1>14. \A m, n \in DOMAIN txs' : txs'[m] = txs'[n] => m = n
  BY <1>2, <1>4, <1>8, <1>11, <1>12
<1>15. seenRef' \subseteq Txs
  BY <1>1, <1>7 DEF ListOK
<1> QED
  BY <1>9, <1>10, <1>11, <1>12, <1>13, <1>14, <1>15 DEF ListOK

LEMMA QueueStep ==
    ASSUME QueuesOK, NEW s \in Feed!Sockets, NEW waiting \in Seq(Txs),
           NEW flying \in SUBSET Txs, IsFiniteSet(flying), Cardinality(flying) <= Concurrency,
           Feed!processQueue(s, waiting, flying)
    PROVE  QueuesOK'
<1> DEFINE room == waiting # <<>> /\ Cardinality(flying) < Concurrency
           q == IF room THEN Tail(waiting) ELSE waiting
           f == IF room THEN flying \cup {Head(waiting)} ELSE flying
<1>1. queue' = [queue EXCEPT ![s] = q] /\ fetching' = [fetching EXCEPT ![s] = f]
  BY SameCardinality DEF Feed!processQueue
<1>2. q \in Seq(Txs) /\ f \in SUBSET Txs
  OBVIOUS
<1>3. IsFiniteSet(f) /\ Cardinality(f) <= Concurrency
  <2>1. Cardinality(flying) \in Nat
    BY FS_CardinalityType
  <2>2. CASE room
    <3>1. /\ IsFiniteSet(f) /\ Cardinality(flying) \in Nat
          /\ Cardinality(f) <= Cardinality(flying) + 1
      <4>1. f = flying \cup {Head(waiting)}
        BY <2>2
      <4>2. /\ IsFiniteSet(flying \cup {Head(waiting)})
            /\ \/ Cardinality(flying \cup {Head(waiting)}) = Cardinality(flying)
               \/ Cardinality(flying \cup {Head(waiting)}) = Cardinality(flying) + 1
        BY FS_AddElement
      <4> HIDE DEF f
      <4> QED
        BY <2>1, <4>1, <4>2
    <3>2. Cardinality(f) \in Nat /\ Concurrency \in Nat
      BY <3>1, FS_CardinalityType, DocumentsAssumption
    <3> HIDE DEF f
    <3> QED
      BY <2>2, <3>1, <3>2
  <2>3. CASE ~room
    BY <2>3
  <2> QED
    BY <2>2, <2>3
<1> HIDE DEF q, f
<1> QED
  BY <1>1, <1>2, <1>3 DEF QueuesOK

LEMMA LookedUpStep ==
    ASSUME QueuesOK, NEW s \in Feed!Sockets, NEW t, Feed!LookedUp(s, t)
    PROVE  QueuesOK'
<1>1. queue[s] \in Seq(Txs) /\ fetching[s] \ {t} \in SUBSET Txs
  BY DEF QueuesOK
<1>2. IsFiniteSet(fetching[s]) /\ Cardinality(fetching[s]) <= Concurrency
  BY DEF QueuesOK
<1>3. /\ IsFiniteSet(fetching[s] \ {t})
      /\ Cardinality(fetching[s] \ {t}) <= Cardinality(fetching[s])
      /\ Cardinality(fetching[s] \ {t}) \in Nat /\ Cardinality(fetching[s]) \in Nat
  BY <1>2, FS_Subset, FS_CardinalityType
<1>4. Cardinality(fetching[s] \ {t}) <= Concurrency
  BY <1>2, <1>3, DocumentsAssumption
<1>5. Feed!processQueue(s, queue[s], fetching[s] \ {t})
  BY DEF Feed!LookedUp
<1> QED
  BY <1>1, <1>3, <1>4, <1>5, QueueStep

LEMMA ErrorStep ==
    ASSUME SocketsOK, mounted, Feed!handleError,
           UNCHANGED <<mounted, connecting, opened, live, polling>>
    PROVE  SocketsOK'
BY DocumentsAssumption DEF SocketsOK, Feed!handleError

LEMMA BufferStep ==
    ASSUME BufferOK, NEW list \in Seq(Txs), Feed!Buffer(list)
    PROVE  BufferOK'
BY DEF BufferOK, Feed!Buffer

LEMMA SameSockets ==
    ASSUME SocketsOK, UNCHANGED <<mounted, connecting, opened, live, retries, reconnects, polling>>
    PROVE  SocketsOK'
BY DEF SocketsOK

LEMMA SameQueues == ASSUME QueuesOK, UNCHANGED <<queue, fetching>> PROVE QueuesOK'
BY DEF QueuesOK

LEMMA SameBuffer == ASSUME BufferOK, UNCHANGED <<buffered, flushTimeout>> PROVE BufferOK'
BY DEF BufferOK

LEMMA SameList == ASSUME ListOK, UNCHANGED <<updating, seenRef, txs>> PROVE ListOK'
BY DEF ListOK

(* The steps of one socket. *)
LEMMA SocketStep ==
    ASSUME FeedInv, NEW s \in Feed!Sockets,
           \/ Feed!SocketFails(s)
           \/ \E t \in Txs : \/ Feed!Announced(s, t) \/ Feed!Found(s, t)
                             \/ Feed!PassedOver(s, t) \/ Feed!LookupFails(s, t)
    PROVE  FeedInv'
<1> USE DEF FeedInv, Feed!bufferVars, Feed!listVars
<1>1. CASE Feed!SocketFails(s)
  BY <1>1, ErrorStep, SameQueues, SameBuffer, SameList DEF Feed!SocketFails
<1>2. ASSUME NEW t \in Txs, Feed!Announced(s, t) PROVE FeedInv'
  <2>1. QueuesOK'
    <3>1. Append(queue[s], t) \in Seq(Txs) /\ fetching[s] \in SUBSET Txs
      BY DEF QueuesOK
    <3>2. IsFiniteSet(fetching[s]) /\ Cardinality(fetching[s]) <= Concurrency
      BY DEF QueuesOK
    <3>3. Feed!processQueue(s, Append(queue[s], t), fetching[s])
      BY <1>2 DEF Feed!Announced
    <3> QED
      BY <3>1, <3>2, <3>3, QueueStep
  <2> QED
    BY <1>2, <2>1, SameSockets, SameBuffer, SameList DEF Feed!Announced
<1>3. ASSUME NEW t \in Txs, Feed!Found(s, t) PROVE FeedInv'
  <2>1. <<t>> \in Seq(Txs) /\ Feed!Buffer(<<t>>) /\ Feed!LookedUp(s, t)
    BY <1>3 DEF Feed!Found
  <2> QED
    BY <1>3, <2>1, BufferStep, LookedUpStep, SameSockets, SameList DEF Feed!Found
<1>4. ASSUME NEW t \in Txs, Feed!PassedOver(s, t) PROVE FeedInv'
  BY <1>4, LookedUpStep, SameSockets, SameBuffer, SameList DEF Feed!PassedOver
<1>5. ASSUME NEW t \in Txs, Feed!LookupFails(s, t) PROVE FeedInv'
  <2>1. mounted /\ Feed!LookedUp(s, t) /\ Feed!handleError
    BY <1>5 DEF Feed!LookupFails, Feed!LookedUp
  <2> QED
    BY <1>5, <2>1, LookedUpStep, ErrorStep, SameBuffer, SameList DEF Feed!LookupFails
<1> QED
  BY <1>1, <1>2, <1>3, <1>4, <1>5

LEMMA FeedStep == FeedInv /\ [Feed!Next]_feedVars => FeedInv'
<1> SUFFICES ASSUME FeedInv, [Feed!Next]_feedVars PROVE FeedInv'
  OBVIOUS
<1> USE DEF FeedInv, Feed!bufferVars, Feed!listVars, Feed!socketVars
<1>1. CASE Feed!Connect
  <2>1. SocketsOK'
    BY <1>1, DocumentsAssumption DEF Feed!Connect, SocketsOK
  <2> QED
    BY <1>1, <2>1, SameQueues, SameBuffer, SameList DEF Feed!Connect
<1>2. CASE Feed!ConnectFails
  <2>1. SocketsOK'
    BY <1>2, DocumentsAssumption DEF Feed!ConnectFails, SocketsOK
  <2> QED
    BY <1>2, <2>1, SameQueues, SameBuffer, SameList DEF Feed!ConnectFails
<1>3. CASE Feed!Reconnect
  <2>1. SocketsOK'
    BY <1>3, DocumentsAssumption DEF Feed!Reconnect, SocketsOK
  <2> QED
    BY <1>3, <2>1, SameQueues, SameBuffer, SameList DEF Feed!Reconnect
<1>4. ASSUME NEW list \in Seq(Txs), Feed!Poll(list) PROVE FeedInv'
  BY <1>4, BufferStep, SameSockets, SameQueues, SameList DEF Feed!Poll
<1>5. CASE Feed!FlushNothing
  <2>1. BufferOK'
    BY <1>5 DEF Feed!FlushNothing, BufferOK
  <2> QED
    BY <1>5, <2>1, SameSockets, SameQueues, SameList DEF Feed!FlushNothing
<1>6. ASSUME Feed!Flush PROVE SocketsOK' /\ QueuesOK' /\ BufferOK'
  <2>1. BufferOK'
    BY <1>6 DEF Feed!Flush, BufferOK
  <2> QED
    BY <1>6, <2>1, SameSockets, SameQueues DEF Feed!Flush
<1>7. CASE Feed!FlushAtOnce
  <2>1. Feed!Flush /\ Feed!Merge /\ updating' \in BOOLEAN
    BY <1>7 DEF Feed!FlushAtOnce, ListOK
  <2> QED
    BY <1>6, <2>1, MergeStep
<1>8. CASE Feed!FlushLater
  <2>1. ListOK'
    BY <1>8 DEF Feed!FlushLater, ListOK
  <2> QED
    BY <1>6, <1>8, <2>1 DEF Feed!FlushLater
<1>9. CASE Feed!Render
  <2>1. Feed!Merge /\ updating' \in BOOLEAN
    BY <1>9 DEF Feed!Render
  <2> QED
    BY <1>9, <2>1, MergeStep, SameSockets, SameQueues, SameBuffer DEF Feed!Render
<1>10. CASE Feed!Unmount
  <2>1. SocketsOK'
    <3>1. /\ mounted = TRUE /\ mounted' = FALSE /\ polling' = FALSE
          /\ live' = {} /\ retries' = 0 /\ reconnects' = 0
          /\ connecting' = connecting /\ opened' = opened
      BY <1>10 DEF Feed!Unmount, SocketsOK
    <3>2. MaxErrors \in Nat
      BY DocumentsAssumption
    <3>3. opened + connecting + 0 <= MaxErrors + 1
      BY <3>1, <3>2 DEF SocketsOK
    <3>4. /\ polling' \in BOOLEAN /\ mounted' \in BOOLEAN /\ live' \subseteq 1 .. opened'
          /\ opened' \in 0 .. MaxErrors + 1 /\ connecting' \in Nat
      BY <3>1 DEF SocketsOK
    <3>5. retries' \in 0 .. MaxErrors /\ reconnects' \in 0 .. retries'
      BY <3>1, <3>2
    <3>6. opened' + connecting' + reconnects' <= (IF mounted' THEN retries' ELSE MaxErrors) + 1
      BY <3>1, <3>3
    <3> QED
      BY <3>4, <3>5, <3>6 DEF SocketsOK
  <2>2. QueuesOK'
    <3>1. Cardinality({}) = 0 /\ IsFiniteSet({}) /\ Concurrency \in Nat
      BY FS_EmptySet, DocumentsAssumption
    <3>2. <<>> \in Seq(Txs)
      OBVIOUS
    <3> QED
      BY <1>10, <3>1, <3>2 DEF Feed!Unmount, QueuesOK
  <2>3. BufferOK'
    BY <1>10 DEF Feed!Unmount, BufferOK
  <2>4. ListOK'
    <3>1. updating' = FALSE /\ seenRef' = {} /\ txs' = <<>>
      BY <1>10 DEF Feed!Unmount
    <3>2. <<>> \in Seq(Txs) /\ Len(<<>>) = 0 /\ DOMAIN <<>> = {} /\ 0 <= MaxListed
      BY DocumentsAssumption
    <3> QED
      BY <3>1, <3>2 DEF ListOK
  <2> QED
    BY <2>1, <2>2, <2>3, <2>4
<1>11. CASE UNCHANGED feedVars
  BY <1>11, SameSockets, SameQueues, SameBuffer, SameList DEF feedVars
<1>12. <<>> \in Seq(Txs) /\ \A t \in Txs : <<t>> \in Seq(Txs)
  OBVIOUS
<1> QED
  BY <1>1, <1>2, <1>3, <1>4, <1>5, <1>7, <1>8, <1>9, <1>10, <1>11, <1>12, SocketStep
     DEF Feed!Next

LEMMA FeedInit == Feed!Init => FeedInv
<1> SUFFICES ASSUME Feed!Init PROVE FeedInv
  OBVIOUS
<1>1. SocketsOK
  BY DocumentsAssumption DEF Feed!Init, SocketsOK
<1>2. QueuesOK
  <2>1. Cardinality({}) = 0 /\ IsFiniteSet({}) /\ Concurrency \in Nat
    BY FS_EmptySet, DocumentsAssumption
  <2>2. <<>> \in Seq(Txs)
    OBVIOUS
  <2> QED
    BY <2>1, <2>2 DEF Feed!Init, QueuesOK
<1>3. BufferOK
  BY DEF Feed!Init, BufferOK
<1>4. ListOK
  <2>1. updating = FALSE /\ seenRef = {} /\ txs = <<>>
    BY DEF Feed!Init
  <2>2. <<>> \in Seq(Txs) /\ Len(<<>>) = 0 /\ DOMAIN <<>> = {} /\ 0 <= MaxListed
    BY DocumentsAssumption
  <2> QED
    BY <2>1, <2>2 DEF ListOK
<1> QED
  BY <1>1, <1>2, <1>3, <1>4 DEF FeedInv

(* A step lists nothing again that was seen and is not on the list. *)
LEMMA ListedStep ==
    ASSUME FeedInv, [Feed!Next]_feedVars
    PROVE  Feed!ToSet(txs') \cap seenRef \subseteq Feed!ToSet(txs)
<1> USE DEF Feed!bufferVars, Feed!listVars, Feed!socketVars
<1>1. CASE Feed!Merge /\ updating' \in BOOLEAN
  BY <1>1, MergeStep DEF Feed!ToSet, FeedInv
<1>2. CASE txs' = txs \/ txs' = <<>>
  BY <1>2 DEF Feed!ToSet
<1>3. ASSUME Feed!FlushAtOnce PROVE Feed!Merge /\ updating' \in BOOLEAN
  BY <1>3 DEF Feed!FlushAtOnce, FeedInv, ListOK
<1>4. ASSUME Feed!Render PROVE Feed!Merge /\ updating' \in BOOLEAN
  BY <1>4 DEF Feed!Render
<1>5. ASSUME NEW s \in Feed!Sockets,
             \/ Feed!SocketFails(s)
             \/ \E t \in Txs : \/ Feed!Announced(s, t) \/ Feed!Found(s, t)
                               \/ Feed!PassedOver(s, t) \/ Feed!LookupFails(s, t)
      PROVE  txs' = txs
  BY <1>5 DEF Feed!SocketFails, Feed!Announced, Feed!Found, Feed!PassedOver, Feed!LookupFails
<1>6. ASSUME \/ Feed!Connect \/ Feed!ConnectFails \/ Feed!Reconnect
             \/ Feed!Poll(<<>>) \/ \E t \in Txs : Feed!Poll(<<t>>)
             \/ Feed!FlushNothing \/ Feed!FlushLater \/ Feed!Unmount \/ UNCHANGED feedVars
      PROVE  txs' = txs \/ txs' = <<>>
  BY <1>6 DEF Feed!Connect, Feed!ConnectFails, Feed!Reconnect, Feed!Poll, Feed!FlushNothing,
              Feed!FlushLater, Feed!Unmount, feedVars
<1> QED
  BY <1>1, <1>2, <1>3, <1>4, <1>5, <1>6 DEF Feed!Next

-----------------------------------------------------------------------------
(* ProfileEditor.  What the timer is about to send is shown.  While nothing has disturbed
   the page since it was opened, its requests agree with one another, what it believes of
   a field is, as the route stores it, what the profile holds, unless a request whose
   answer is to come has set it, and after a save by the button what it shows is what it
   believes. *)

Known == Editor!Fields \ Stripped
Kept(f, v) == Stored[f][v]

Settled ==
    /\ \A q \in flight : q.page = "here"
    /\ \A p, q \in flight : ~Editor!Clash(p, q) /\ (p.button /\ q.button => p = q)
    /\ \A q \in flight, f \in Editor!Fields :
          /\ f \in q.fields \ Stripped /\ q.done => profile[f] = Kept(f, q.shown[f])
          /\ q.button /\ f \notin q.fields => serverValues[f] = q.shown[f]
    /\ \A f \in Known :
          \/ profile[f] = Kept(f, serverValues[f])
          \/ \E q \in flight : q.done /\ f \in q.fields
    /\ saved =>
          /\ serverValues = values
          /\ \A q \in flight : \A f \in q.fields : q.shown[f] = values[f]

(* A failure puts back a photo only, which no timer is about to send. *)
PhotosBack == \A q \in flight : q.prior # {} => q.fields \subseteq Avatars

EditorInv ==
    /\ Editor!TypeOK
    /\ PhotosBack
    /\ \A c \in timer : open /\ c.field \in Typed /\ values[c.field] = c.value
    /\ open /\ ~disturbed => Settled

LEMMA OverlayForm ==
    ASSUME NEW from \in Editor!Forms, NEW onto \in Editor!Forms, NEW fields
    PROVE  /\ Editor!Overlay(fields, from, onto) \in Editor!Forms
           /\ \A f \in Editor!Fields : Editor!Overlay(fields, from, onto)[f] =
                                       IF f \in fields THEN from[f] ELSE onto[f]
BY DEF Editor!Overlay, Editor!Forms

LEMMA SameForm ==
    ASSUME NEW a \in Editor!Forms, NEW b \in Editor!Forms,
           \A f \in Editor!Fields : a[f] = b[f]
    PROVE  a = b
BY DEF Editor!Forms

LEMMA SingletonSize == ASSUME NEW x PROVE Editor!Cardinality({x}) <= 1
BY SameCardinality, FS_Singleton

LEMMA NoneSize == Editor!Cardinality({}) <= 1
BY SameCardinality, FS_EmptySet

(* What is stored stays as it is when it is stored again. *)
LEMMA KeptType ==
    ASSUME NEW f \in Editor!Fields, NEW v \in Editor!Contents
    PROVE  Kept(f, v) \in Editor!Contents /\ Kept(f, Kept(f, v)) = Kept(f, v)
<1>1. Editor!Fields = Typed \cup Picked \cup Avatars /\ Editor!Contents = {Blank} \cup Words
  BY DEF Editor!Fields, Editor!Contents
<1> QED
  BY <1>1, DocumentsAssumption DEF Kept

LEMMA ProfileFields ==
    ASSUME NEW p \in Editor!Profiles
    PROVE  p \in Editor!Forms /\ \A f \in Known : p[f] = Kept(f, p[f])
BY DEF Editor!Profiles, Known, Kept

LEMMA EmptyForm ==
    /\ Editor!Empty \in Editor!Forms
    /\ \A f \in Editor!Fields, v \in Editor!Contents : Editor!Patch(f, v) \in Editor!Forms
    /\ \A f \in Editor!Fields, v \in Editor!Contents : Editor!Patch(f, v)[f] = v
BY DEF Editor!Empty, Editor!Patch, Editor!Forms, Editor!Contents

LEMMA FormWith ==
    ASSUME NEW v \in Editor!Forms, NEW f \in Editor!Fields, NEW c \in Editor!Contents
    PROVE  /\ [v EXCEPT ![f] = c] \in Editor!Forms
           /\ [v EXCEPT ![f] = c][f] = c
           /\ \A g \in Editor!Fields \ {f} : [v EXCEPT ![f] = c][g] = v[g]
BY DEF Editor!Forms

(* The request a page makes. *)
Request(fields, shown, button, prior, page) ==
    [fields |-> fields, shown |-> shown, button |-> button, prior |-> prior,
     done |-> FALSE, page |-> page]

LEMMA SendType ==
    ASSUME Editor!TypeOK, NEW fields \in SUBSET Editor!Fields, NEW shown \in Editor!Forms,
           NEW button \in BOOLEAN, NEW prior \in SUBSET Editor!Forms,
           NEW page \in {"here", "left"},
           Editor!Send(fields, shown, button, prior, page)
    PROVE  /\ Request(fields, shown, button, prior, page) \in Editor!Calls
           /\ flight' = flight \cup {Request(fields, shown, button, prior, page)}
           /\ flight' \subseteq Editor!Calls
           /\ sends' \in 0 .. MaxSends /\ disturbed' \in BOOLEAN
           /\ open /\ ~disturbed' =>
                 /\ ~disturbed /\ page = "here"
                 /\ \A p \in flight :
                       ~Editor!Clash(p, Request(fields, shown, button, prior, page))
<1> DEFINE q == Request(fields, shown, button, prior, page)
<1>1. q \in Editor!Calls
  BY DEF Request, Editor!Calls
<1>2. /\ sends < MaxSends /\ sends' = sends + 1 /\ flight' = flight \cup {q}
      /\ disturbed' = (disturbed \/ (open /\ (page # "here" \/ \E p \in flight :
                                                              Editor!Clash(p, q))))
  BY DEF Editor!Send, Request
<1> HIDE DEF q
<1>3. sends' \in 0 .. MaxSends
  BY <1>2, DocumentsAssumption DEF Editor!TypeOK
<1>4. disturbed' \in BOOLEAN
  BY <1>2
<1>5. open /\ ~disturbed' =>
         ~disturbed /\ page = "here" /\ \A p \in flight : ~Editor!Clash(p, q)
  BY <1>2, Zenon
<1>6. flight' \subseteq Editor!Calls
  BY <1>1, <1>2 DEF Editor!TypeOK
<1> QED
  BY <1>1, <1>2, <1>3, <1>4, <1>5, <1>6 DEF q

LEMMA SendPhotos ==
    ASSUME EditorInv, NEW fields \in SUBSET Editor!Fields, NEW shown \in Editor!Forms,
           NEW button \in BOOLEAN, NEW prior \in SUBSET Editor!Forms,
           NEW page \in {"here", "left"},
           Editor!Send(fields, shown, button, prior, page),
           prior # {} => fields \subseteq Avatars
    PROVE  PhotosBack'
<1> DEFINE q == Request(fields, shown, button, prior, page)
<1>1. flight' = flight \cup {q}
  BY DEF Editor!Send, Request
<1>2. q.prior = prior /\ q.fields = fields
  BY DEF Request
<1> HIDE DEF q
<1> QED
  BY <1>1, <1>2 DEF EditorInv, PhotosBack

LEMMA ClashSymmetric ==
    ASSUME NEW p, NEW q, Editor!Clash(p, q)
    PROVE  Editor!Clash(q, p)
BY DEF Editor!Clash

LEMMA NoClashWithItself == ASSUME NEW p PROVE ~Editor!Clash(p, p)
BY DEF Editor!Clash

LEMMA SendSettled ==
    ASSUME EditorInv, NEW fields \in SUBSET Editor!Fields, NEW shown \in Editor!Forms,
           NEW button \in BOOLEAN, NEW prior \in SUBSET Editor!Forms,
           NEW page \in {"here", "left"},
           Editor!Send(fields, shown, button, prior, page),
           UNCHANGED <<profile, open, serverValues>>, saved' => saved /\ values' = values,
           open, ~disturbed',
           \A f \in fields : saved' => shown[f] = values[f],
           button => /\ \A p \in flight : ~p.button
                     /\ \A f \in Editor!Fields \ fields : serverValues[f] = shown[f]
    PROVE  Settled'
<1> DEFINE q == Request(fields, shown, button, prior, page)
<1>1. /\ flight' = flight \cup {q} /\ ~disturbed /\ page = "here"
      /\ \A p \in flight : ~Editor!Clash(p, q)
  BY SendType DEF EditorInv
<1>2. /\ q.fields = fields /\ q.shown = shown /\ q.button = button
      /\ q.done = FALSE /\ q.page = "here"
  BY <1>1 DEF Request
<1> HIDE DEF q
<1>3. Settled
  BY <1>1 DEF EditorInv
<1>4. ~Editor!Clash(q, q) /\ \A p \in flight : ~Editor!Clash(q, p)
  BY <1>1, ClashSymmetric, NoClashWithItself
<1>5. \A p, r \in flight' : ~Editor!Clash(p, r)
  BY <1>1, <1>3, <1>4 DEF Settled
<1>6. \A p, r \in flight' : p.button /\ r.button => p = r
  BY <1>1, <1>2, <1>3 DEF Settled
<1>7. \A p \in flight' : p.page = "here"
  BY <1>1, <1>2, <1>3 DEF Settled
<1>8. \A p \in flight', f \in Editor!Fields :
         /\ f \in p.fields \ Stripped /\ p.done => profile'[f] = Kept(f, p.shown[f])
         /\ p.button /\ f \notin p.fields => serverValues'[f] = p.shown[f]
  BY <1>1, <1>2, <1>3 DEF Settled
<1>9. \A f \in Known :
         \/ profile'[f] = Kept(f, serverValues'[f])
         \/ \E p \in flight' : p.done /\ f \in p.fields
  BY <1>1, <1>3 DEF Settled
<1>10. saved' =>
          /\ serverValues' = values'
          /\ \A p \in flight' : \A f \in p.fields : p.shown[f] = values'[f]
  BY <1>1, <1>2, <1>3 DEF Settled
<1>11. \A p, r \in flight' : ~Editor!Clash(p, r)'
  BY <1>5 DEF Editor!Clash
<1> QED
  BY <1>6, <1>7, <1>8, <1>9, <1>10, <1>11 DEF Settled, Kept, Known

LEMMA WithDraftForm ==
    ASSUME EditorInv, NEW loaded \in Editor!Forms
    PROVE  Editor!WithDraft(loaded) \in Editor!Forms
<1>1. CASE draft = {}
  BY <1>1 DEF Editor!WithDraft
<1>2. CASE draft # {}
  <2> DEFINE d == CHOOSE d \in draft : TRUE
             fields == {f \in Editor!Fields : f \notin Avatars \/ d[f] # Blank}
  <2>1. d \in draft
    BY <1>2
  <2>2. d \in Editor!Forms
    BY <2>1 DEF EditorInv, Editor!TypeOK
  <2>3. Editor!WithDraft(loaded) = Editor!Overlay(fields, d, loaded)
    BY <1>2 DEF Editor!WithDraft
  <2> HIDE DEF d, fields
  <2> QED
    BY <2>2, <2>3, OverlayForm
<1> QED
  BY <1>1, <1>2

LEMMA OpenStep == EditorInv /\ (Editor!Open \/ Editor!OpenBlank) => EditorInv'
<1> SUFFICES ASSUME EditorInv, Editor!Open \/ Editor!OpenBlank PROVE EditorInv'
  OBVIOUS
<1>1. /\ ~open /\ timer = {} /\ open' = TRUE /\ saved' = FALSE
      /\ UNCHANGED <<profile, draft, timer, orphans, flight, changes, sends>>
      /\ \/ serverValues' = profile /\ values' = Editor!WithDraft(profile)
            /\ disturbed' = (flight # {})
         \/ serverValues' = Editor!Empty /\ values' = Editor!WithDraft(Editor!Empty)
            /\ disturbed' = TRUE
  BY DEF Editor!Open, Editor!OpenBlank, EditorInv
<1>2. profile \in Editor!Profiles /\ profile \in Editor!Forms /\ Editor!Empty \in Editor!Forms
  BY ProfileFields, EmptyForm DEF EditorInv, Editor!TypeOK
<1>3. values' \in Editor!Forms /\ serverValues' \in Editor!Forms
  BY <1>1, <1>2, WithDraftForm
<1>4. disturbed' \in BOOLEAN
  BY <1>1
<1>5. Editor!TypeOK'
  BY <1>1, <1>3, <1>4 DEF EditorInv, Editor!TypeOK
<1>6. ~disturbed' => Settled'
  <2> SUFFICES ASSUME ~disturbed' PROVE Settled'
    OBVIOUS
  <2>1. flight' = {} /\ serverValues' = profile'
    BY <1>1
  <2>2. \A f \in Known : profile'[f] = Kept(f, serverValues'[f])
    BY <1>1, <1>2, <2>1, ProfileFields
  <2> QED
    BY <1>1, <2>1, <2>2 DEF Settled, Kept, Known
<1> QED
  BY <1>1, <1>5, <1>6 DEF EditorInv, PhotosBack

LEMMA TypeFieldStep ==
    ASSUME EditorInv, NEW f \in Typed, NEW v \in Editor!Contents, Editor!Type(f, v)
    PROVE  EditorInv'
<1>1. /\ open /\ changes < MaxChanges /\ changes' = changes + 1
      /\ values' = [values EXCEPT ![f] = v] /\ draft' = {values'}
      /\ timer' = {[field |-> f, value |-> v]} /\ saved' = FALSE
      /\ UNCHANGED <<profile, open, serverValues, orphans, flight, disturbed, sends>>
  BY DEF Editor!Type
<1>2. values' \in Editor!Forms /\ values'[f] = v
  BY <1>1, FormWith DEF EditorInv, Editor!TypeOK, Editor!Fields, Editor!Forms
<1>3. Editor!TypeOK'
  <2>1. draft' \subseteq Editor!Forms /\ Editor!Cardinality(draft') <= 1
    BY <1>1, <1>2, SingletonSize
  <2>2. timer' \subseteq Editor!Changes /\ Editor!Cardinality(timer') <= 1
    <3>1. [field |-> f, value |-> v] \in Editor!Changes
      BY DEF Editor!Changes
    <3> QED
      BY <1>1, <3>1, SingletonSize
  <2>3. changes' \in 0 .. MaxChanges
    BY <1>1, DocumentsAssumption DEF EditorInv, Editor!TypeOK
  <2> QED
    BY <1>1, <1>2, <2>1, <2>2, <2>3 DEF EditorInv, Editor!TypeOK
<1>4. \A c \in timer' : open' /\ c.field \in Typed /\ values'[c.field] = c.value
  BY <1>1, <1>2
<1>5. ~disturbed' => Settled'
  BY <1>1 DEF EditorInv, Settled, Editor!Clash, Kept, Known
<1> QED
  BY <1>1, <1>3, <1>4, <1>5 DEF EditorInv, PhotosBack

LEMMA PickStep ==
    ASSUME EditorInv, NEW f \in Picked, NEW v \in Editor!Contents, Editor!Pick(f, v)
    PROVE  EditorInv'
<1>1. /\ open /\ changes < MaxChanges /\ changes' = changes + 1
      /\ values' = [values EXCEPT ![f] = v] /\ saved' = FALSE
      /\ UNCHANGED <<profile, open, serverValues, draft, timer, orphans, flight, disturbed,
                     sends>>
  BY DEF Editor!Pick
<1>2. values' \in Editor!Forms /\ \A g \in Editor!Fields \ {f} : values'[g] = values[g]
  BY <1>1, FormWith DEF EditorInv, Editor!TypeOK, Editor!Fields, Editor!Forms
<1>3. Editor!TypeOK'
  <2>1. changes' \in 0 .. MaxChanges
    BY <1>1, DocumentsAssumption DEF EditorInv, Editor!TypeOK
  <2> QED
    BY <1>1, <1>2, <2>1 DEF EditorInv, Editor!TypeOK
<1>4. \A c \in timer' : open' /\ c.field \in Typed /\ values'[c.field] = c.value
  <2>1. \A c \in timer : /\ open /\ c.field \in Typed /\ c.field \in Editor!Fields \ {f}
                         /\ values[c.field] = c.value
    BY <1>1, DocumentsAssumption DEF EditorInv, Editor!Fields
  <2> QED
    BY <1>1, <1>2, <2>1
<1>5. ~disturbed' => Settled'
  BY <1>1 DEF EditorInv, Settled, Editor!Clash, Kept, Known
<1> QED
  BY <1>1, <1>3, <1>4, <1>5 DEF EditorInv, PhotosBack

LEMMA PhotoStep ==
    ASSUME EditorInv, NEW f \in Avatars, NEW v \in Editor!Contents, Editor!Photo(f, v)
    PROVE  EditorInv'
<1> DEFINE prior == IF v = Blank THEN {Editor!Patch(f, values[f])} ELSE {}
<1>1. /\ open /\ changes < MaxChanges /\ changes' = changes + 1
      /\ values' = [values EXCEPT ![f] = v] /\ draft' = {values'} /\ saved' = FALSE
      /\ Editor!Send({f}, Editor!Patch(f, v), FALSE, prior, "here")
      /\ UNCHANGED <<profile, open, serverValues, timer, orphans>>
  BY DEF Editor!Photo
<1>2. f \in Editor!Fields /\ f \notin Typed /\ {f} \in SUBSET Editor!Fields
  BY DocumentsAssumption DEF Editor!Fields
<1>3. /\ Editor!TypeOK /\ values \in Editor!Forms /\ values[f] \in Editor!Contents
  BY <1>2 DEF EditorInv, Editor!TypeOK, Editor!Forms
<1>4. /\ values' \in Editor!Forms
      /\ \A g \in Editor!Fields \ {f} : values'[g] = values[g]
  <2> DEFINE w == [values EXCEPT ![f] = v]
  <2>1. w \in Editor!Forms /\ \A g \in Editor!Fields \ {f} : w[g] = values[g]
    BY <1>2, <1>3, FormWith
  <2>2. values' = w
    BY <1>1
  <2> HIDE DEF w
  <2> QED
    BY <2>1, <2>2
<1>5. Editor!Patch(f, v) \in Editor!Forms /\ prior \in SUBSET Editor!Forms
  BY <1>2, <1>3, EmptyForm
<1> HIDE DEF prior
<1>6. Editor!TypeOK'
  <2>1. /\ flight' \subseteq Editor!Calls
        /\ sends' \in 0 .. MaxSends /\ disturbed' \in BOOLEAN
    BY <1>1, <1>2, <1>3, <1>5, SendType
  <2>2. draft' \subseteq Editor!Forms /\ Editor!Cardinality(draft') <= 1
    BY <1>1, <1>4, SingletonSize
  <2>3. changes' \in 0 .. MaxChanges
    BY <1>1, DocumentsAssumption DEF EditorInv, Editor!TypeOK
  <2> QED
    BY <1>1, <1>4, <2>1, <2>2, <2>3 DEF EditorInv, Editor!TypeOK
<1>7. \A c \in timer' : open' /\ c.field \in Typed /\ values'[c.field] = c.value
  <2>1. \A c \in timer : /\ open /\ c.field \in Typed /\ c.field \in Editor!Fields \ {f}
                         /\ values[c.field] = c.value
    BY <1>2 DEF EditorInv, Editor!Fields
  <2> QED
    BY <1>1, <1>4, <2>1
<1>8. ASSUME ~disturbed' PROVE Settled'
  BY <1>1, <1>2, <1>5, <1>8, SendSettled
<1>9. PhotosBack'
  BY <1>1, <1>2, <1>5, SendPhotos
<1> QED
  BY <1>6, <1>7, <1>8, <1>9 DEF EditorInv

LEMMA AutosaveStep == EditorInv /\ Editor!Autosave => EditorInv'
<1> SUFFICES ASSUME EditorInv, Editor!Autosave PROVE EditorInv'
  OBVIOUS
<1>1. PICK c \in timer :
         /\ timer' = {}
         /\ Editor!Send({c.field}, Editor!Patch(c.field, c.value), FALSE, {}, "here")
         /\ UNCHANGED <<profile, open, values, draft, serverValues, orphans, saved, changes>>
  BY DEF Editor!Autosave, Editor!form
<1> DEFINE shown == Editor!Patch(c.field, c.value)
<1>2. c.field \in Editor!Fields /\ c.value \in Editor!Contents
  BY DEF EditorInv, Editor!TypeOK, Editor!Changes, Editor!Fields
<1>3. shown \in Editor!Forms /\ shown[c.field] = c.value
  BY <1>2, EmptyForm
<1>4. /\ Editor!TypeOK /\ {c.field} \in SUBSET Editor!Fields /\ {} \in SUBSET Editor!Forms
      /\ open /\ values[c.field] = c.value
  BY <1>2 DEF EditorInv
<1> HIDE DEF shown
<1>5. Editor!Send({c.field}, shown, FALSE, {}, "here")
  BY <1>1 DEF shown
<1>6. Editor!TypeOK'
  <2>1. /\ flight' \subseteq Editor!Calls
        /\ sends' \in 0 .. MaxSends /\ disturbed' \in BOOLEAN
    BY <1>3, <1>4, <1>5, SendType
  <2> QED
    BY <1>1, <2>1, NoneSize DEF EditorInv, Editor!TypeOK
<1>7. ASSUME open', ~disturbed' PROVE Settled'
  <2>1. \A f \in {c.field} : saved' => shown[f] = values[f]
    BY <1>3, <1>4
  <2>2. UNCHANGED <<profile, open, serverValues>> /\ (saved' => saved /\ values' = values)
    BY <1>1
  <2> QED
    BY <1>3, <1>4, <1>5, <1>7, <2>1, <2>2, SendSettled
<1>8. PhotosBack'
  BY <1>3, <1>4, <1>5, SendPhotos
<1> QED
  BY <1>1, <1>6, <1>7, <1>8 DEF EditorInv

(* What a page that was left still sends disturbs the one that is open. *)
LEMMA OrphanStep ==
    ASSUME EditorInv, NEW c \in orphans, Editor!Orphan(c)
    PROVE  EditorInv'
<1>1. /\ orphans' = orphans \ {c}
      /\ Editor!Send({c.field}, Editor!Patch(c.field, c.value), FALSE, {}, "left")
      /\ draft' = draft \/ draft' = {[values EXCEPT ![c.field] = c.value]}
      /\ UNCHANGED <<profile, open, values, serverValues, timer, saved, changes>>
  BY DEF Editor!Orphan
<1>2. c.field \in Editor!Fields /\ c.value \in Editor!Contents
  BY DEF EditorInv, Editor!TypeOK, Editor!Changes, Editor!Fields
<1>3. /\ Editor!Patch(c.field, c.value) \in Editor!Forms
      /\ [values EXCEPT ![c.field] = c.value] \in Editor!Forms
  BY <1>2, EmptyForm, FormWith DEF EditorInv, Editor!TypeOK
<1>4. draft' \subseteq Editor!Forms /\ Editor!Cardinality(draft') <= 1
  BY <1>1, <1>3, SingletonSize DEF EditorInv, Editor!TypeOK
<1>5. /\ flight' \subseteq Editor!Calls
      /\ sends' \in 0 .. MaxSends /\ disturbed' \in BOOLEAN
      /\ open => disturbed'
      /\ PhotosBack'
  <2>1. Editor!TypeOK /\ {c.field} \in SUBSET Editor!Fields /\ {} \in SUBSET Editor!Forms
    BY <1>2 DEF EditorInv
  <2> QED
    BY <1>1, <1>3, <2>1, SendType, SendPhotos
<1>6. Editor!TypeOK'
  BY <1>1, <1>4, <1>5 DEF EditorInv, Editor!TypeOK
<1> QED
  BY <1>1, <1>5, <1>6 DEF EditorInv

LEMMA SaveButtonStep == EditorInv /\ Editor!Save => EditorInv'
<1> SUFFICES ASSUME EditorInv, Editor!Save PROVE EditorInv'
  OBVIOUS
<1>1. /\ open /\ \A q \in flight : q.button => q.page # "here"
      /\ Editor!Send(Editor!Differing, values, TRUE, {}, "here")
      /\ UNCHANGED <<profile, open, values, draft, serverValues, timer, orphans, saved, changes>>
  BY DEF Editor!Save, Editor!form
<1>2. /\ Editor!TypeOK /\ values \in Editor!Forms
      /\ Editor!Differing \in SUBSET Editor!Fields /\ {} \in SUBSET Editor!Forms
      /\ \A f \in Editor!Fields \ Editor!Differing : serverValues[f] = values[f]
  BY DEF EditorInv, Editor!TypeOK, Editor!Differing
<1>3. Editor!TypeOK'
  <2>1. /\ flight' \subseteq Editor!Calls
        /\ sends' \in 0 .. MaxSends /\ disturbed' \in BOOLEAN
    BY <1>1, <1>2, SendType
  <2> QED
    BY <1>1, <2>1 DEF EditorInv, Editor!TypeOK
<1>4. ASSUME ~disturbed' PROVE Settled'
  <2>1. ~disturbed
    BY <1>1, <1>2, <1>4, SendType
  <2>2. \A q \in flight : ~q.button
    BY <1>1, <2>1 DEF EditorInv, Settled
  <2> QED
    BY <1>1, <1>2, <1>4, <2>2, SendSettled
<1>5. PhotosBack'
  BY <1>1, <1>2, SendPhotos
<1> QED
  BY <1>1, <1>3, <1>4, <1>5 DEF EditorInv

LEMMA ArrivesStep ==
    ASSUME EditorInv, NEW q \in flight, Editor!Arrives(q)
    PROVE  EditorInv'
<1> DEFINE d == [q EXCEPT !.done = TRUE]
<1> DEFINE kept == [f \in Editor!Fields |-> Kept(f, q.shown[f])]
<1>1. /\ ~q.done /\ profile' = Editor!Overlay(q.fields \ Stripped, kept, profile)
      /\ flight' = (flight \ {q}) \cup {d}
      /\ UNCHANGED <<open, values, draft, serverValues, timer, orphans, saved, disturbed,
                     changes, sends>>
  BY DEF Editor!Arrives, Editor!form, Kept
<1>2. q \in Editor!Calls
  BY DEF EditorInv, Editor!TypeOK
<1>3. /\ d \in Editor!Calls /\ d.fields = q.fields /\ d.shown = q.shown
      /\ d.button = q.button /\ d.page = q.page /\ d.done = TRUE /\ d.prior = q.prior
  BY <1>2 DEF Editor!Calls
<1> HIDE DEF d
<1>4. q.shown \in Editor!Forms /\ profile \in Editor!Forms /\ profile \in Editor!Profiles
  BY <1>2, ProfileFields DEF EditorInv, Editor!TypeOK, Editor!Calls
<1>5. /\ profile' \in Editor!Profiles
      /\ \A f \in Editor!Fields :
            profile'[f] = IF f \in q.fields \ Stripped THEN Kept(f, q.shown[f]) ELSE profile[f]
  <2>1. \A f \in Editor!Fields : q.shown[f] \in Editor!Contents
    BY <1>4 DEF Editor!Forms
  <2>2. \A f \in Editor!Fields :
           /\ Kept(f, q.shown[f]) \in Editor!Contents
           /\ Kept(f, Kept(f, q.shown[f])) = Kept(f, q.shown[f])
    BY <2>1, KeptType
  <2>3. kept \in Editor!Forms /\ \A f \in Editor!Fields : kept[f] = Kept(f, q.shown[f])
    BY <2>2 DEF Editor!Forms
  <2> HIDE DEF kept
  <2>4. /\ profile' \in Editor!Forms
        /\ \A f \in Editor!Fields :
              profile'[f] = IF f \in q.fields \ Stripped THEN Kept(f, q.shown[f]) ELSE profile[f]
    BY <1>1, <1>4, <2>3, OverlayForm
  <2>5. \A f \in Editor!Fields :
           IF f \in Stripped THEN profile[f] = Blank ELSE Kept(f, profile[f]) = profile[f]
    BY <1>4 DEF Editor!Profiles, Kept
  <2>6. \A f \in Editor!Fields :
           IF f \in Stripped THEN profile'[f] = Blank ELSE Kept(f, profile'[f]) = profile'[f]
    BY <2>2, <2>4, <2>5
  <2> QED
    BY <2>4, <2>6 DEF Editor!Profiles, Kept
<1> HIDE DEF kept
<1>6. Editor!TypeOK'
  BY <1>1, <1>3, <1>5 DEF EditorInv, Editor!TypeOK
<1>7. ASSUME open', ~disturbed' PROVE Settled'
  <2>1. Settled
    BY <1>1, <1>7 DEF EditorInv
  <2>2. \A p, r \in flight' : ~Editor!Clash(p, r)'
    <3>1. \A p, r \in flight : ~Editor!Clash(p, r)
      BY <2>1 DEF Settled
    <3>2. \A p \in flight : ~Editor!Clash(p, d) /\ ~Editor!Clash(d, p)
      BY <1>3, <3>1 DEF Editor!Clash
    <3>3. ~Editor!Clash(d, d)
      BY NoClashWithItself
    <3>4. \A p, r \in flight' : ~Editor!Clash(p, r)
      BY <1>1, <3>1, <3>2, <3>3
    <3> QED
      BY <3>4 DEF Editor!Clash
  <2>3. \A p, r \in flight' : p.button /\ r.button => p = r
    BY <1>1, <1>3, <2>1 DEF Settled
  <2>4. \A p \in flight' : p.page = "here"
    BY <1>1, <1>3, <2>1 DEF Settled
  <2>5. ASSUME NEW p \in flight', NEW f \in Editor!Fields, f \in p.fields \ Stripped,
               p.done
        PROVE  profile'[f] = Kept(f, p.shown[f])
    <3>1. CASE p = d
      BY <1>3, <1>5, <2>5, <3>1
    <3>2. CASE p \in flight /\ f \in q.fields
      <4>1. ~Editor!Clash(p, q)
        BY <2>1, <3>2 DEF Settled
      <4>2. p.shown[f] = q.shown[f]
        BY <2>5, <3>2, <4>1 DEF Editor!Clash
      <4> QED
        BY <1>5, <2>5, <3>2, <4>2
    <3>3. CASE p \in flight /\ f \notin q.fields
      BY <1>5, <2>1, <2>5, <3>3 DEF Settled
    <3> QED
      BY <1>1, <3>1, <3>2, <3>3
  <2>6. \A p \in flight', f \in Editor!Fields :
           p.button /\ f \notin p.fields => serverValues'[f] = p.shown[f]
    BY <1>1, <1>3, <2>1 DEF Settled
  <2>7. ASSUME NEW f \in Known
        PROVE  \/ profile'[f] = Kept(f, serverValues'[f])
               \/ \E p \in flight' : p.done /\ f \in p.fields
    <3>1. CASE f \in q.fields
      BY <1>1, <1>3, <3>1
    <3>2. CASE f \notin q.fields
      BY <1>1, <1>5, <2>1, <3>2 DEF Settled, Known
    <3> QED
      BY <3>1, <3>2
  <2>8. saved' =>
           /\ serverValues' = values'
           /\ \A p \in flight' : \A f \in p.fields : p.shown[f] = values'[f]
    BY <1>1, <1>3, <2>1 DEF Settled
  <2> QED
    BY <2>2, <2>3, <2>4, <2>5, <2>6, <2>7, <2>8 DEF Settled, Kept, Known
<1>8. PhotosBack'
  BY <1>1, <1>3 DEF EditorInv, PhotosBack
<1> QED
  BY <1>1, <1>6, <1>7, <1>8 DEF EditorInv

LEMMA AnsweredStep ==
    ASSUME EditorInv, NEW q \in flight, Editor!Answered(q)
    PROVE  EditorInv'
<1>1. /\ q.done /\ flight' = flight \ {q}
      /\ draft' = IF q.button /\ q.page # "gone" THEN {} ELSE draft
      /\ IF q.page = "here" THEN Editor!Believes(q) ELSE UNCHANGED serverValues
      /\ saved' = IF q.button /\ q.page = "here" THEN values = q.shown ELSE saved
      /\ UNCHANGED <<profile, open, values, timer, orphans, disturbed, changes, sends>>
  BY DEF Editor!Answered
<1>2. q \in Editor!Calls /\ q.shown \in Editor!Forms /\ q.fields \subseteq Editor!Fields
  BY DEF EditorInv, Editor!TypeOK, Editor!Calls
<1> DEFINE told == IF q.button THEN Editor!Fields ELSE q.fields
<1>3. q.page = "here" =>
         /\ serverValues' \in Editor!Forms
         /\ \A f \in Editor!Fields :
               serverValues'[f] = IF f \in told THEN q.shown[f] ELSE serverValues[f]
  BY <1>1, <1>2, OverlayForm DEF Editor!Believes, EditorInv, Editor!TypeOK
<1>4. Editor!TypeOK'
  <2>1. serverValues' \in Editor!Forms
    BY <1>1, <1>3 DEF EditorInv, Editor!TypeOK
  <2>2. saved' \in BOOLEAN
    BY <1>1 DEF EditorInv, Editor!TypeOK
  <2>3. draft' \subseteq Editor!Forms /\ Editor!Cardinality(draft') <= 1
    BY <1>1, NoneSize DEF EditorInv, Editor!TypeOK
  <2> QED
    BY <1>1, <2>1, <2>2, <2>3 DEF EditorInv, Editor!TypeOK
<1>5. ASSUME open', ~disturbed' PROVE Settled'
  <2>1. Settled /\ q.page = "here"
    BY <1>1, <1>5 DEF EditorInv, Settled
  <2>2. \A p, r \in flight' : ~Editor!Clash(p, r)'
    <3>1. \A p, r \in flight' : ~Editor!Clash(p, r)
      BY <1>1, <2>1 DEF Settled
    <3> QED
      BY <3>1 DEF Editor!Clash
  <2>3. \A p \in flight' : p \in flight /\ p # q /\ ~Editor!Clash(p, q)
    BY <1>1, <2>1 DEF Settled
  <2>4. \A p \in flight' : ~(p.button /\ q.button)
    BY <2>1, <2>3 DEF Settled
  <2>5. \A f \in told : serverValues'[f] = q.shown[f]
    BY <1>2, <1>3, <2>1
  <2>6. \A f \in Editor!Fields \ q.fields : serverValues'[f] = serverValues[f]
    BY <1>3, <2>1 DEF Settled
  <2>7. ASSUME NEW p \in flight', NEW f \in Editor!Fields, p.button, f \notin p.fields
        PROVE  serverValues'[f] = p.shown[f]
    <3>1. serverValues[f] = p.shown[f]
      BY <2>1, <2>3, <2>7 DEF Settled
    <3>2. CASE f \in q.fields
      <4>1. p.shown[f] = q.shown[f]
        BY <2>3, <2>7, <3>2 DEF Editor!Clash
      <4> QED
        BY <2>5, <3>2, <4>1
    <3>3. CASE f \notin q.fields
      BY <2>6, <3>1, <3>3
    <3> QED
      BY <3>2, <3>3
  <2>8. ASSUME NEW f \in Known
        PROVE  \/ profile'[f] = Kept(f, serverValues'[f])
               \/ \E p \in flight' : p.done /\ f \in p.fields
    <3>1. CASE f \in q.fields
      <4>1. profile[f] = Kept(f, q.shown[f])
        BY <1>1, <2>1, <3>1 DEF Settled, Known
      <4>2. f \in told
        BY <3>1 DEF Known
      <4>3. serverValues'[f] = q.shown[f]
        BY <2>5, <4>2
      <4> QED
        BY <1>1, <4>1, <4>3
    <3>2. CASE f \notin q.fields
      <4>1. serverValues'[f] = serverValues[f]
        BY <2>6, <3>2 DEF Known
      <4> QED
        BY <1>1, <2>1, <3>2, <4>1 DEF Settled
    <3> QED
      BY <3>1, <3>2
  <2>9. ASSUME saved'
        PROVE  /\ serverValues' = values'
               /\ \A p \in flight' : \A f \in p.fields : p.shown[f] = values'[f]
    <3>1. CASE q.button
      <4>1. values' = q.shown
        BY <1>1, <2>1, <2>9, <3>1
      <4>2. serverValues' = q.shown
        BY <1>2, <1>3, <2>1, <2>5, <3>1, SameForm
      <4>3. \A p \in flight' : \A f \in p.fields : p.shown[f] = q.shown[f]
        BY <2>3, <3>1 DEF Editor!Clash
      <4> QED
        BY <4>1, <4>2, <4>3
    <3>2. CASE ~q.button
      <4>1. saved /\ values' = values
        BY <1>1, <2>9, <3>2
      <4>2. /\ serverValues = values
            /\ \A p \in flight : \A f \in p.fields : p.shown[f] = values[f]
        BY <2>1, <4>1 DEF Settled
      <4>3. \A f \in Editor!Fields : serverValues'[f] = serverValues[f]
        BY <2>5, <2>6, <4>2
      <4>4. serverValues' = serverValues
        BY <1>3, <2>1, <4>3, SameForm DEF EditorInv, Editor!TypeOK
      <4> QED
        BY <2>3, <4>1, <4>2, <4>4
    <3> QED
      BY <3>1, <3>2
  <2>10. \A p, r \in flight' : p.button /\ r.button => p = r
    BY <2>1, <2>3 DEF Settled
  <2>11. \A p \in flight' : p.page = "here"
    BY <2>1, <2>3 DEF Settled
  <2>12. \A p \in flight', f \in Editor!Fields :
            f \in p.fields \ Stripped /\ p.done => profile'[f] = Kept(f, p.shown[f])
    BY <1>1, <2>1, <2>3 DEF Settled
  <2> QED
    BY <2>2, <2>7, <2>8, <2>9, <2>10, <2>11, <2>12 DEF Settled, Kept, Known
<1>6. PhotosBack'
  BY <1>1 DEF EditorInv, PhotosBack
<1> QED
  BY <1>1, <1>4, <1>5, <1>6 DEF EditorInv

LEMMA FailedStep ==
    ASSUME EditorInv, NEW q \in flight, Editor!Failed(q)
    PROVE  EditorInv'
<1>1. /\ flight' = flight \ {q}
      /\ disturbed' = (disturbed \/ (open /\ q.done))
      /\ saved' = (saved /\ (q.page = "here" => ~q.button /\ q.prior = {}))
      /\ UNCHANGED <<profile, open, serverValues, timer, orphans, changes, sends>>
  BY DEF Editor!Failed
<1>2. /\ (q.page = "here" /\ q.prior = {}) \/ q.page # "here" => values' = values
      /\ values' \in Editor!Forms
      /\ draft' \subseteq Editor!Forms /\ Editor!Cardinality(draft') <= 1
      /\ \A f \in Editor!Fields \ q.fields : values'[f] = values[f]
  <2>1. CASE (q.prior = {} \/ q.page = "gone") /\ UNCHANGED <<values, draft>>
    BY <2>1 DEF EditorInv, Editor!TypeOK
  <2>2. ASSUME NEW p \in q.prior, Editor!PutBack(q, Editor!Overlay(q.fields, p, values))
        PROVE  <1>2
    <3> DEFINE back == Editor!Overlay(q.fields, p, values)
    <3>1. q \in Editor!Calls /\ p \in Editor!Forms /\ values \in Editor!Forms
      BY DEF EditorInv, Editor!TypeOK, Editor!Calls
    <3>2. back \in Editor!Forms /\ \A f \in Editor!Fields \ q.fields : back[f] = values[f]
      BY <3>1, OverlayForm
    <3>3. \/ q.page = "here" /\ values' = back /\ draft' = {back}
          \/ q.page = "left" /\ values' = values /\ draft' \in {draft, {back}}
      BY <2>2 DEF Editor!PutBack
    <3> HIDE DEF back
    <3>4. q.prior # {}
      OBVIOUS
    <3> QED
      BY <3>1, <3>2, <3>3, <3>4, SingletonSize DEF EditorInv, Editor!TypeOK
  <2> QED
    BY <2>1, <2>2 DEF Editor!Failed, Editor!form
<1>3. disturbed' \in BOOLEAN /\ saved' \in BOOLEAN
  BY <1>1
<1>4. open /\ ~disturbed' => ~disturbed /\ ~q.done
  BY <1>1, Zenon
<1>5. saved' => saved /\ (q.page = "here" => q.prior = {})
  BY <1>1, Zenon
<1>6. Editor!TypeOK'
  BY <1>1, <1>2, <1>3 DEF EditorInv, Editor!TypeOK
<1>7. \A c \in timer' : open' /\ c.field \in Typed /\ values'[c.field] = c.value
  <2>1. \A c \in timer : open /\ c.field \in Typed /\ values[c.field] = c.value
    BY DEF EditorInv
  <2>2. CASE q.prior = {} \/ q.page # "here"
    BY <1>1, <1>2, <2>1, <2>2
  <2>3. CASE q.prior # {}
    <3>1. \A c \in timer : c.field \in Editor!Fields \ q.fields
      BY <2>1, <2>3, DocumentsAssumption DEF EditorInv, PhotosBack, Editor!Fields
    <3> QED
      BY <1>1, <1>2, <2>1, <3>1
  <2> QED
    BY <2>2, <2>3
<1>8. ASSUME open', ~disturbed' PROVE Settled'
  <2>1. Settled /\ ~q.done /\ q.page = "here"
    BY <1>1, <1>4, <1>8 DEF EditorInv, Settled
  <2>2. \A p, r \in flight' : ~Editor!Clash(p, r)'
    <3>1. \A p, r \in flight' : ~Editor!Clash(p, r)
      BY <1>1, <2>1 DEF Settled
    <3> QED
      BY <3>1 DEF Editor!Clash
  <2>3. \A f \in Known :
           \/ profile'[f] = Kept(f, serverValues'[f])
           \/ \E p \in flight' : p.done /\ f \in p.fields
    BY <1>1, <2>1 DEF Settled
  <2>4. saved' => saved /\ values' = values
    BY <1>2, <1>5, <2>1
  <2>5. \A p \in flight', f \in Editor!Fields :
           /\ f \in p.fields \ Stripped /\ p.done => profile'[f] = Kept(f, p.shown[f])
           /\ p.button /\ f \notin p.fields => serverValues'[f] = p.shown[f]
    BY <1>1, <2>1 DEF Settled
  <2>6. saved' =>
           /\ serverValues' = values'
           /\ \A p \in flight' : \A f \in p.fields : p.shown[f] = values'[f]
    BY <1>1, <2>1, <2>4 DEF Settled
  <2>7. /\ \A p \in flight' : p.page = "here"
        /\ \A p, r \in flight' : p.button /\ r.button => p = r
    BY <1>1, <2>1 DEF Settled
  <2> QED
    BY <2>2, <2>3, <2>5, <2>6, <2>7 DEF Settled, Kept, Known
<1>9. PhotosBack'
  BY <1>1 DEF EditorInv, PhotosBack
<1> QED
  BY <1>6, <1>7, <1>8, <1>9 DEF EditorInv

(* A page that is left, by a reload or not: nothing is claimed until one is open. *)
LEMMA LeftStep ==
    ASSUME EditorInv, open' = FALSE, saved' = FALSE, disturbed' = FALSE, timer' = {},
           NEW page \in [flight -> {"left", "gone"}],
           flight' = {[q EXCEPT !.page = page[q]] : q \in flight},
           values' \in Editor!Forms, serverValues' \in Editor!Forms,
           orphans' \subseteq Editor!Changes, changes' \in 0 .. MaxChanges,
           UNCHANGED <<profile, draft, sends>>
    PROVE  EditorInv'
<1>1. \A q \in flight :
         /\ [q EXCEPT !.page = page[q]] \in Editor!Calls
         /\ [q EXCEPT !.page = page[q]].prior = q.prior
         /\ [q EXCEPT !.page = page[q]].fields = q.fields
  BY DEF EditorInv, Editor!TypeOK, Editor!Calls
<1>2. flight' \subseteq Editor!Calls /\ PhotosBack'
  BY <1>1 DEF EditorInv, PhotosBack
<1>3. Editor!TypeOK'
  BY <1>2, NoneSize DEF EditorInv, Editor!TypeOK
<1> QED
  BY <1>2, <1>3 DEF EditorInv

LEMMA ReloadStep == EditorInv /\ Editor!Reload => EditorInv'
<1> SUFFICES ASSUME EditorInv, Editor!Reload PROVE EditorInv'
  OBVIOUS
<1> DEFINE page == [q \in flight |-> "gone"]
<1>1. /\ open' = FALSE /\ saved' = FALSE /\ disturbed' = FALSE /\ timer' = {}
      /\ flight' = {[q EXCEPT !.page = page[q]] : q \in flight}
      /\ values' = Editor!Empty /\ serverValues' = Editor!Empty /\ orphans' = {}
      /\ UNCHANGED <<profile, draft, changes, sends>>
  BY DEF Editor!Reload
<1>2. changes' \in 0 .. MaxChanges /\ orphans' \subseteq Editor!Changes
      /\ values' \in Editor!Forms /\ serverValues' \in Editor!Forms
  BY <1>1, EmptyForm DEF EditorInv, Editor!TypeOK
<1>3. page \in [flight -> {"left", "gone"}]
  OBVIOUS
<1> HIDE DEF page
<1> QED
  BY <1>1, <1>2, <1>3, LeftStep

LEMMA LeaveStep ==
    ASSUME EditorInv, NEW uploads \in SUBSET Editor!Photos,
           Editor!Cardinality(uploads) \in Nat, Editor!Leave(uploads)
    PROVE  EditorInv'
<1> DEFINE page == [q \in flight |-> IF q.page = "gone" THEN q.page ELSE "left"]
<1>1. /\ open' = FALSE /\ saved' = FALSE /\ disturbed' = FALSE /\ timer' = {}
      /\ flight' = {[q EXCEPT !.page = page[q]] : q \in flight}
      /\ serverValues' = Editor!Empty /\ orphans' = orphans \cup timer \cup uploads
      /\ changes' = changes + Editor!Cardinality(uploads) /\ changes' <= MaxChanges
      /\ UNCHANGED <<profile, values, draft, sends>>
  BY DEF Editor!Leave, Editor!form
<1>2. uploads \subseteq Editor!Changes
  BY DEF Editor!Photos, Editor!Changes, Editor!Contents
<1>3. orphans' \subseteq Editor!Changes /\ values' \in Editor!Forms
  BY <1>1, <1>2 DEF EditorInv, Editor!TypeOK
<1>4. changes' \in 0 .. MaxChanges
  BY <1>1, DocumentsAssumption DEF EditorInv, Editor!TypeOK
<1>5. page \in [flight -> {"left", "gone"}]
  OBVIOUS
<1>6. serverValues' \in Editor!Forms
  BY <1>1, EmptyForm
<1> HIDE DEF page
<1> QED
  BY <1>1, <1>3, <1>4, <1>5, <1>6, LeftStep

LEMMA EditorStep == EditorInv /\ [Editor!Next]_editorVars => EditorInv'
<1> SUFFICES ASSUME EditorInv, [Editor!Next]_editorVars PROVE EditorInv'
  OBVIOUS
<1>1. CASE UNCHANGED editorVars
  BY <1>1 DEF editorVars, EditorInv, PhotosBack, Editor!TypeOK, Settled, Editor!Clash, Kept,
              Known
<1>2. ASSUME NEW c \in Editor!Photos, Editor!Leave({c}) PROVE EditorInv'
  <2>1. Editor!Cardinality({c}) \in Nat
    BY SameCardinality, FS_Singleton
  <2> QED
    BY <1>2, <2>1, LeaveStep
<1>3. CASE Editor!Leave({})
  <2>1. Editor!Cardinality({}) \in Nat
    BY SameCardinality, FS_EmptySet
  <2> QED
    BY <1>3, <2>1, LeaveStep
<1>4. \A f : Editor!Holds(f) \subseteq Editor!Contents
  BY DEF Editor!Holds, Editor!Contents
<1> QED
  BY <1>1, <1>2, <1>3, <1>4, OpenStep, AutosaveStep, SaveButtonStep, ReloadStep, TypeFieldStep,
     PickStep, PhotoStep, OrphanStep, ArrivesStep, AnsweredStep, FailedStep DEF Editor!Next

LEMMA EditorInit == Editor!Init => EditorInv
<1> SUFFICES ASSUME Editor!Init PROVE EditorInv
  OBVIOUS
<1>1. /\ profile \in Editor!Profiles /\ values \in Editor!Forms /\ serverValues \in Editor!Forms
      /\ open = FALSE /\ draft = {} /\ timer = {} /\ orphans = {} /\ flight = {}
      /\ saved = FALSE /\ disturbed = FALSE /\ changes = 0 /\ sends = 0
  BY EmptyForm DEF Editor!Init
<1>2. 0 \in 0 .. MaxChanges /\ 0 \in 0 .. MaxSends
  BY DocumentsAssumption
<1>3. Editor!Cardinality(draft) <= 1 /\ Editor!Cardinality(timer) <= 1
  BY <1>1, NoneSize
<1>4. Editor!TypeOK
  BY <1>1, <1>2, <1>3 DEF Editor!TypeOK
<1> QED
  BY <1>1, <1>4 DEF EditorInv, PhotosBack

LEMMA EditorShows == EditorInv => SavedWhatIsShown
<1> SUFFICES ASSUME EditorInv, open, saved, ~disturbed, flight = {},
                    NEW f \in Editor!Fields \ Stripped
             PROVE  profile[f] = Stored[f][values[f]]
  BY DEF SavedWhatIsShown, Editor!SavedWhatIsShown
<1>1. values = serverValues /\ profile[f] = Kept(f, serverValues[f])
  BY DEF EditorInv, Settled, Known
<1> QED
  BY <1>1 DEF Kept

-----------------------------------------------------------------------------
(* All of them together.  What each component keeps, DocumentsSpec keeps. *)
DocumentsInv ==
    /\ IdentityInv /\ ListsTypeOK
    /\ PromotionInv /\ RatingsInv /\ EditorInv /\ FeedInv

(* A step is one of every component's, or leaves that component alone. *)
LEMMA ComponentSteps ==
    ASSUME [DocumentsNext]_documentsVars
    PROVE  /\ [Next]_vars /\ [ListsNext]_listsVars
           /\ [Promotion!Next]_promotionVars /\ [Ratings!Next]_ratingsVars
           /\ [Editor!Next]_editorVars /\ [Feed!Next]_feedVars
<1>1. CASE UNCHANGED documentsVars
  BY <1>1 DEF documentsVars, identityVars, pageVars
<1>2. CASE IdentityRuns
  BY <1>2 DEF IdentityRuns, pageVars
<1>3. CASE ListsRun
  BY <1>3 DEF ListsRun, identityVars, pageVars
<1>4. CASE PromotionRuns
  BY <1>4 DEF PromotionRuns, identityVars, pageVars
<1>5. CASE RatingsRun
  BY <1>5 DEF RatingsRun, identityVars, pageVars
<1>6. CASE EditorRuns
  BY <1>6 DEF EditorRuns, identityVars
<1>7. CASE FeedRuns
  BY <1>7 DEF FeedRuns, identityVars
<1> QED
  BY <1>1, <1>2, <1>3, <1>4, <1>5, <1>6, <1>7 DEF DocumentsNext

LEMMA DocumentsSizes == SizeOK /\ MaxItems \in Nat
BY DocumentsAssumption DEF SizeOK

LEMMA DocumentsInductive ==
    /\ DocumentsInit => DocumentsInv
    /\ DocumentsInv /\ [DocumentsNext]_documentsVars => DocumentsInv'
<1>1. ASSUME DocumentsInit PROVE DocumentsInv
  BY <1>1, DocumentsSizes, IdentityInit, ListsTypeInit, PromotionInit, RatingsInit,
     EditorInit, FeedInit DEF DocumentsInit, DocumentsInv
<1>2. ASSUME DocumentsInv, [DocumentsNext]_documentsVars PROVE DocumentsInv'
  <2>1. /\ [Next]_vars /\ [ListsNext]_listsVars
        /\ [Promotion!Next]_promotionVars /\ [Ratings!Next]_ratingsVars
        /\ [Editor!Next]_editorVars /\ [Feed!Next]_feedVars
    BY <1>2, ComponentSteps
  <2> QED
    BY <1>2, <2>1, DocumentsSizes, IdentityStep, ListsTypeStep, PromotionStep, RatingsStep,
       EditorStep, FeedStep DEF DocumentsInv
<1> QED
  BY <1>1, <1>2

LEMMA DocumentsAlways == DocumentsSpec => []DocumentsInv
BY DocumentsInductive, PTL DEF DocumentsSpec

(* The types of all variables, of every component whichever of them runs. *)
THEOREM DocumentsTypes == DocumentsSpec => []DocumentsTypeOK
<1>1. DocumentsInv => DocumentsTypeOK
  BY FeedTypes DEF DocumentsInv, DocumentsTypeOK, IdentityInv, PromotionInv, RatingsInv,
                   EditorInv
<1> QED
  BY <1>1, DocumentsAlways, PTL

(* DocumentsSpec implements the specifications of UserIdentity and UserLists, so that
   what UserProofs shows of those holds of it. *)
THEOREM ComponentsImplemented == DocumentsSpec => Spec /\ ListsSpec
<1>1. DocumentsInit => Init /\ ListsInit
  BY DEF DocumentsInit
<1>2. [DocumentsNext]_documentsVars => [Next]_vars /\ [ListsNext]_listsVars
  BY ComponentSteps
<1> QED
  BY <1>1, <1>2, PTL DEF DocumentsSpec, Spec, ListsSpec

(* Of any number of requests that report a provider at once, those between the report
   and the increment are all that the counter lags behind by. *)
THEOREM CounterLags == DocumentsSpec => []CounterNeverAhead
<1>1. DocumentsInv => CounterNeverAhead
  BY DEF DocumentsInv, PromotionInv
<1> QED
  BY <1>1, DocumentsAlways, PTL

(* For any thresholds: no provider is promoted without the reports, and the different
   reporters, that it takes. *)
THEOREM PromotionDeserved == DocumentsSpec => []PromotedDeserved
<1>1. DocumentsInv => PromotedDeserved
  BY DEF DocumentsInv, PromotionInv, PromotedDeserved, Promotion!PromotedDeserved,
         Promotion!Candidate
<1> QED
  BY <1>1, DocumentsAlways, PTL

(* For any raters and scores: the rating after which nothing was in between leaves the
   average that the ratings have. *)
THEOREM AverageRight == DocumentsSpec => []AverageHeals
<1>1. DocumentsInv => AverageHeals
  BY DEF DocumentsInv, RatingsInv
<1> QED
  BY <1>1, DocumentsAlways, PTL

(* For any fields and contents, whichever requests of the page are lost: a form whose
   save was answered, and nothing since, shows what the server has. *)
THEOREM SaveShown == DocumentsSpec => []SavedWhatIsShown
<1>1. DocumentsInv => SavedWhatIsShown
  BY EditorShows DEF DocumentsInv
<1> QED
  BY <1>1, DocumentsAlways, PTL

(* In whatever order the sockets, the polls and the look-ups of a page bring a
   transaction, and however often: no render of the list adds one it has. *)
THEOREM ListsOnce == DocumentsSpec => ListedOnce
<1>1. ASSUME DocumentsInv, [DocumentsNext]_documentsVars, DocumentsInv'
      PROVE  /\ \A m, n \in DOMAIN txs' : txs'[m] = txs'[n] => m = n
             /\ Feed!ToSet(txs') \cap seenRef \subseteq Feed!ToSet(txs)
  <2>1. FeedInv /\ [Feed!Next]_feedVars /\ ListOK'
    BY <1>1, ComponentSteps DEF DocumentsInv, FeedInv
  <2>2. \A m, n \in DOMAIN txs' : txs'[m] = txs'[n] => m = n
    BY <2>1 DEF ListOK
  <2> QED
    BY <2>1, <2>2, ListedStep
<1>2. DocumentsInv /\ [DocumentsNext]_documentsVars /\ DocumentsInv'
      => [/\ \A m, n \in DOMAIN txs' : txs'[m] = txs'[n] => m = n
          /\ Feed!ToSet(txs') \cap seenRef \subseteq Feed!ToSet(txs)]_(Feed!vars)
  BY <1>1
<1> QED
  BY <1>2, DocumentsAlways, PTL DEF DocumentsSpec, ListedOnce, Feed!ListedOnce

================================================================================
