--------------------------- MODULE WalletFlagsProofs ---------------------------
(***************************************************************************)
(* Theorems about WalletFlags, for any wallets, users and requests, any    *)
(* daily limit and any bounds.                                             *)
(***************************************************************************)
EXTENDS WalletFlags, FiniteSetTheorems, TLAPS

(* What a request holds, whatever it goes on to do. *)
LEMMA BlankType == Blank \in Held
BY DEF Blank, Held, Nobody

LEMMA PusherType ==
    ASSUME TypeOK, NEW w \in Wallets, NEW u \in Users
    PROVE  /\ PusherOf(u, w) \in Held
           /\ PusherOf(u, w).user = u /\ PusherOf(u, w).wallet = w
           /\ AskerOf(u, w) \in Held
           /\ AskerOf(u, w).user = u /\ AskerOf(u, w).wallet = w
BY DEF AskerOf, PusherOf, Blank, Held, TypeOK

LEMMA DropperType ==
    ASSUME TypeOK, NEW w \in Wallets, NEW ids \in SUBSET FlagIds
    PROVE  DropperOf(w, ids) \in Held
BY DEF DropperOf, Held, Nobody, TypeOK

(* A push keeps the types of what it writes. *)
LEMMA PushType ==
    ASSUME TypeOK, NEW w \in Wallets, NEW u \in Users, NEW b \in BOOLEAN, Push(w, u, b)
    PROVE  /\ version' \in [Wallets -> Nat]
           /\ flags' \in [Wallets -> SUBSET Flag]
           /\ pushed' \in [Wallets -> SUBSET Flag]
           /\ minted' \in 0 .. MaxFlags /\ minted' = minted + 1
           /\ today' \subseteq FlagIds
<1> DEFINE flag == [id |-> minted + 1, user |-> u, mirror |-> b]
<1>1. minted \in Nat /\ minted + 1 <= MaxFlags /\ minted + 1 \in FlagIds
  BY LimitAssumption DEF TypeOK, Push, FlagIds
<1>2. flag \in Flag
  BY <1>1 DEF Flag
<1>3. /\ version' = [version EXCEPT ![w] = @ + 1]
      /\ flags' = [flags EXCEPT ![w] = @ \cup {flag}]
      /\ pushed' = [pushed EXCEPT ![w] = @ \cup {flag}]
      /\ minted' = minted + 1 /\ today' = today \cup {minted + 1}
  BY DEF Push
<1>4. version' \in [Wallets -> Nat]
  <2>1. version[w] + 1 \in Nat
    BY DEF TypeOK
  <2> QED
    BY <1>3, <2>1 DEF TypeOK
<1>5. flags' \in [Wallets -> SUBSET Flag] /\ pushed' \in [Wallets -> SUBSET Flag]
  <2>1. flags[w] \cup {flag} \in SUBSET Flag /\ pushed[w] \cup {flag} \in SUBSET Flag
    BY <1>2 DEF TypeOK
  <2> HIDE DEF flag
  <2> QED
    BY <1>3, <2>1 DEF TypeOK
<1>6. minted' \in 0 .. MaxFlags /\ today' \subseteq FlagIds
  BY <1>1, <1>3, LimitAssumption DEF TypeOK
<1> QED
  BY <1>3, <1>4, <1>5, <1>6

(* What the requests hold is a part of the type invariant by itself. *)
HeldOK ==
    /\ stage \in [Requests -> Stages]
    /\ held \in [Requests -> Held]
    /\ \A r \in Requests : stage[r] # "idle" => held[r].wallet \in Wallets
    /\ \A r \in Requests : stage[r] \notin {"idle", "save"} => held[r].user \in Users

LEMMA FinishHeld ==
    ASSUME HeldOK, NEW r \in Requests, Finish(r)
    PROVE  HeldOK'
BY BlankType DEF HeldOK, Finish, Goto, Stages

LEMMA GotoHeld ==
    ASSUME HeldOK, NEW r \in Requests, NEW s \in Stages, NEW h \in Held, Goto(r, s),
           held' = [held EXCEPT ![r] = h], h.wallet \in Wallets,
           s # "save" => h.user \in Users
    PROVE  HeldOK'
BY DEF HeldOK, Goto

LEMMA TypeInit == Init => TypeOK
BY LimitAssumption, BlankType DEF Init, TypeOK, Stages

LEMMA TypeStep == TypeOK /\ [Next]_vars => TypeOK'
<1> SUFFICES ASSUME TypeOK, [Next]_vars PROVE TypeOK'
  OBVIOUS
<1> DEFINE StoreOK ==
       /\ exists \in [Wallets -> BOOLEAN]
       /\ born \in [Wallets -> Nat]
       /\ version \in [Wallets -> Nat]
       /\ flags \in [Wallets -> SUBSET Flag]
       /\ reported \subseteq Users \X Wallets
       /\ minted \in 0 .. MaxFlags
       /\ today \subseteq FlagIds
       /\ pushed \in [Wallets -> SUBSET Flag]
       /\ gone \subseteq FlagIds
<1>0. /\ HeldOK /\ StoreOK /\ (HeldOK' /\ StoreOK' => TypeOK')
      /\ Flaggers \subseteq Requests /\ Reporters \subseteq Requests /\ Moderators \subseteq Requests
  BY DEF TypeOK, HeldOK, Requests
<1>s. "count" \in Stages /\ "create" \in Stages /\ "push" \in Stages /\ "load" \in Stages
      /\ "save" \in Stages
  BY DEF Stages
<1>1. ASSUME NEW g \in Flaggers, FlaggerStep(g) PROVE TypeOK'
  <2>1. ASSUME NEW u \in Users, NEW w \in Wallets, FlagStart(g, u, w) PROVE TypeOK'
    <3>1. StoreOK'
      BY <1>0, <2>1 DEF FlagStart, stored, history
    <3>2. PICK h \in {PusherOf(u, w), AskerOf(u, w)} : held' = [held EXCEPT ![g] = h]
      BY <2>1 DEF FlagStart
    <3>3. PICK s \in {"count", "create"} : Goto(g, s)
      BY <2>1 DEF FlagStart
    <3>4. h \in Held /\ h.user \in Users /\ h.wallet \in Wallets
      BY <3>2, PusherType
    <3>5. HeldOK'
      BY <1>0, <1>s, <3>2, <3>3, <3>4, GotoHeld
    <3> QED
      BY <1>0, <3>1, <3>5
  <2>2. ASSUME NEW w \in Wallets, FlagCreate(g, w) PROVE TypeOK'
    <3>1. CASE exists[w]
      BY <1>0, <2>2, <3>1, FinishHeld DEF FlagCreate, stored
    <3>2. CASE ~exists[w]
      <4>1. Create(w) /\ UNCHANGED <<reported, minted, today, gone>>
        BY <2>2, <3>2 DEF FlagCreate
      <4>2. born[w] + 1 \in Nat
        BY DEF TypeOK
      <4>3. born' = [born EXCEPT ![w] = born[w] + 1] /\ born' \in [Wallets -> Nat]
        BY <4>1, <4>2 DEF Create, TypeOK
      <4>4. StoreOK'
        BY <1>0, <4>1, <4>3 DEF Create
      <4>5. stage[g] = "create" /\ held[g].wallet = w
        BY <2>2 DEF FlagCreate
      <4>6. held[g] \in Held /\ held[g].user \in Users
        BY <1>0, <4>5 DEF HeldOK
      <4>7. DEFINE h == [held[g] EXCEPT !.born = born[w] + 1]
      <4>8. h \in Held /\ h.user \in Users /\ h.wallet \in Wallets
        BY <4>2, <4>5, <4>6 DEF Held
      <4>9. held' = [held EXCEPT ![g] = h] /\ Goto(g, "count")
        BY <2>2, <3>2 DEF FlagCreate
      <4> HIDE DEF h
      <4>10. HeldOK'
        BY <1>0, <1>s, <4>8, <4>9, GotoHeld
      <4> QED
        BY <1>0, <4>4, <4>10
    <3> QED
      BY <3>1, <3>2
  <2>3. CASE FlagCount(g)
    <3>1. StoreOK'
      BY <1>0, <2>3 DEF FlagCount, stored, history
    <3>2. CASE Finish(g)
      BY <1>0, <3>1, <3>2, FinishHeld
    <3>3. CASE Goto(g, "push") /\ UNCHANGED held
      BY <1>0, <1>s, <2>3, <3>1, <3>3 DEF FlagCount, HeldOK, Goto
    <3> QED
      BY <2>3, <3>2, <3>3 DEF FlagCount
  <2>4. CASE FlagPush(g)
    <3>1. held[g].wallet \in Wallets /\ held[g].user \in Users
      BY <1>0, <2>4 DEF FlagPush, HeldOK
    <3>2. HeldOK'
      BY <1>0, <2>4, FinishHeld DEF FlagPush
    <3>3. CASE Push(held[g].wallet, held[g].user, FALSE)
      <4>1. UNCHANGED <<exists, born, reported, gone>>
        BY <2>4 DEF FlagPush
      <4>2. /\ version' \in [Wallets -> Nat] /\ flags' \in [Wallets -> SUBSET Flag]
            /\ pushed' \in [Wallets -> SUBSET Flag]
            /\ minted' \in 0 .. MaxFlags /\ minted' = minted + 1 /\ today' \subseteq FlagIds
        BY <3>1, <3>3, PushType
      <4> QED
        BY <1>0, <3>2, <4>1, <4>2
    <3>4. CASE UNCHANGED <<version, flags, pushed, minted, today>>
      BY <1>0, <2>4, <3>2, <3>4 DEF FlagPush
    <3> QED
      BY <2>4, <3>3, <3>4 DEF FlagPush
  <2> QED
    BY <1>1, <2>1, <2>2, <2>3, <2>4 DEF FlaggerStep
<1>2. ASSUME NEW r \in Reporters, ReporterStep(r) PROVE TypeOK'
  <2>1. ASSUME NEW u \in Users, NEW w \in Wallets, ReportCreate(r, u, w) PROVE TypeOK'
    <3>1. StoreOK'
      BY <1>0, <2>1 DEF ReportCreate, stored, history
    <3>2. PICK h \in {AskerOf(u, w)} : held' = [held EXCEPT ![r] = h]
      BY <2>1 DEF ReportCreate
    <3>3. Goto(r, "load")
      BY <2>1 DEF ReportCreate
    <3>4. h \in Held /\ h.user \in Users /\ h.wallet \in Wallets
      BY <3>2, PusherType
    <3>5. HeldOK'
      BY <1>0, <1>s, <3>2, <3>3, <3>4, GotoHeld
    <3> QED
      BY <1>0, <3>1, <3>5
  <2>2. CASE ReportLoad(r)
    <3>1. StoreOK'
      BY <1>0, <2>2 DEF ReportLoad, stored, history
    <3>2. CASE Finish(r)
      BY <1>0, <3>1, <3>2, FinishHeld
    <3>3. CASE ~Finish(r)
      <4>1. stage[r] = "load" /\ held[r] \in Held /\ held[r].user \in Users
            /\ held[r].wallet \in Wallets
        BY <1>0, <2>2 DEF ReportLoad, HeldOK
      <4>2. born[held[r].wallet] \in Nat
        BY <4>1 DEF TypeOK
      <4>3. DEFINE h == [held[r] EXCEPT !.born = born[held[r].wallet]]
      <4>4. h \in Held /\ h.user \in Users /\ h.wallet \in Wallets
        BY <4>1, <4>2 DEF Held
      <4>5. held' = [held EXCEPT ![r] = h] /\ Goto(r, "push")
        BY <2>2, <3>3 DEF ReportLoad
      <4> HIDE DEF h
      <4>6. HeldOK'
        BY <1>0, <1>s, <4>4, <4>5, GotoHeld
      <4> QED
        BY <1>0, <3>1, <4>6
    <3> QED
      BY <3>2, <3>3
  <2>3. CASE ReportPush(r)
    <3>1. held[r].wallet \in Wallets /\ held[r].user \in Users
      BY <1>0, <2>3 DEF ReportPush, HeldOK
    <3>2. HeldOK'
      BY <1>0, <2>3, FinishHeld DEF ReportPush
    <3>3. CASE Push(held[r].wallet, held[r].user, TRUE)
      <4>1. UNCHANGED <<exists, born, reported, gone>>
        BY <2>3 DEF ReportPush
      <4>2. /\ version' \in [Wallets -> Nat] /\ flags' \in [Wallets -> SUBSET Flag]
            /\ pushed' \in [Wallets -> SUBSET Flag]
            /\ minted' \in 0 .. MaxFlags /\ minted' = minted + 1 /\ today' \subseteq FlagIds
        BY <3>1, <3>3, PushType
      <4> QED
        BY <1>0, <3>2, <4>1, <4>2
    <3>4. CASE UNCHANGED <<version, flags, pushed, minted, today>>
      BY <1>0, <2>3, <3>2, <3>4 DEF ReportPush
    <3> QED
      BY <2>3, <3>3, <3>4 DEF ReportPush
  <2> QED
    BY <1>2, <2>1, <2>2, <2>3 DEF ReporterStep
<1>3. ASSUME NEW m \in Moderators, ModeratorStep(m) PROVE TypeOK'
  <2>1. ASSUME NEW w \in Wallets, NEW ids \in SUBSET FlagIds,
               held' = [held EXCEPT ![m] = DropperOf(w, ids)], Goto(m, "save"),
               UNCHANGED <<stored, reported, minted, today, history>>
        PROVE  TypeOK'
    <3>1. StoreOK'
      BY <1>0, <2>1 DEF stored, history
    <3>2. PICK h \in {DropperOf(w, ids)} : held' = [held EXCEPT ![m] = h]
      BY <2>1
    <3>3. h \in Held /\ h.wallet \in Wallets
      BY <3>2, DropperType DEF DropperOf
    <3>4. HeldOK'
      BY <1>0, <1>s, <2>1, <3>2, <3>3, GotoHeld
    <3> QED
      BY <1>0, <3>1, <3>4
  <2>2. ASSUME NEW w \in Wallets, NEW n \in FlagIds, DismissLoad(m, w, n) PROVE TypeOK'
    <3>1. {n} \in SUBSET FlagIds
      OBVIOUS
    <3>2. /\ held' = [held EXCEPT ![m] = DropperOf(w, {n})] /\ Goto(m, "save")
          /\ UNCHANGED <<stored, reported, minted, today, history>>
      BY <2>2 DEF DismissLoad
    <3> QED
      BY <2>1, <3>1, <3>2
  <2>3. ASSUME NEW u \in Users, NEW w \in Wallets, FilterLoad(m, u, w) PROVE TypeOK'
    <3>1. PICK ids \in SUBSET FlagIds :
             ids = {x.id : x \in {y \in flags[w] : y.user = u /\ y.mirror}}
      <4>1. \A x \in flags[w] : x.id \in FlagIds
        BY DEF TypeOK, Flag
      <4>2. {x.id : x \in {y \in flags[w] : y.user = u /\ y.mirror}} \in SUBSET FlagIds
        BY <4>1
      <4> QED
        BY <4>2
    <3>2. /\ held' = [held EXCEPT ![m] = DropperOf(w, ids)] /\ Goto(m, "save")
          /\ UNCHANGED <<stored, reported, minted, today, history>>
      BY <2>3, <3>1 DEF FilterLoad
    <3> QED
      BY <2>1, <3>2
  <2>4. CASE ModeratorSave(m)
    <3>1. held[m] \in Held /\ held[m].wallet \in Wallets
      BY <1>0, <2>4 DEF ModeratorSave, HeldOK
    <3>2. HeldOK' /\ UNCHANGED <<exists, born, reported, minted, today, pushed>>
      BY <1>0, <2>4, FinishHeld DEF ModeratorSave
    <3>3. CASE UNCHANGED <<flags, version, gone>>
      BY <1>0, <3>2, <3>3
    <3>4. CASE ~UNCHANGED <<flags, version, gone>>
      <4>1. /\ flags' = [flags EXCEPT ![held[m].wallet] = Without(held[m].copy, held[m].drop)]
            /\ version' = [version EXCEPT ![held[m].wallet] = @ + 1]
            /\ gone' = gone \cup held[m].drop
        BY <2>4, <3>4 DEF ModeratorSave
      <4>2. version[held[m].wallet] + 1 \in Nat /\ Without(held[m].copy, held[m].drop) \in SUBSET Flag
        BY <3>1 DEF TypeOK, Without, Held
      <4>3. version' \in [Wallets -> Nat] /\ flags' \in [Wallets -> SUBSET Flag]
        BY <3>1, <4>1, <4>2 DEF TypeOK
      <4>4. gone' \subseteq FlagIds
        BY <3>1, <4>1 DEF TypeOK, Held
      <4> QED
        BY <1>0, <3>2, <4>3, <4>4
    <3> QED
      BY <3>3, <3>4
  <2> QED
    BY <1>3, <2>2, <2>3, <2>4 DEF ModeratorStep
<1>4. ASSUME NEW w \in Wallets, NEW n \in FlagIds, Pull(w, n) PROVE TypeOK'
  BY <1>0, <1>4 DEF Pull, Without, HeldOK
<1>5. ASSUME NEW w \in Wallets, DeleteWallet(w) PROVE TypeOK'
  BY <1>0, <1>5 DEF DeleteWallet, HeldOK
<1>6. CASE Midnight
  BY <1>0, <1>6 DEF Midnight, HeldOK, stored, history
<1>7. ASSUME NEW r \in Requests, Abort(r) PROVE TypeOK'
  BY <1>0, <1>7, FinishHeld DEF Abort, stored, history
<1>8. CASE UNCHANGED vars
  BY <1>8 DEF vars, TypeOK
<1> QED
  BY <1>1, <1>2, <1>3, <1>4, <1>5, <1>6, <1>7, <1>8 DEF Next

(* Type correctness of the embedded flags. *)
THEOREM TypeCorrect == Spec => []TypeOK
BY TypeInit, TypeStep, PTL DEF Spec

-----------------------------------------------------------------------------
(* Which changes of a wallet leave a moderator's copy of it fit, or unfit for
   ever, to be saved. *)
LEMMA SaveSame ==
    ASSUME TypeOK, NEW m \in Moderators, stage[m] = "save", SaveOK(m),
           held'[m] = held[m],
           exists'[held[m].wallet] = exists[held[m].wallet],
           born'[held[m].wallet] = born[held[m].wallet],
           version'[held[m].wallet] = version[held[m].wallet],
           flags'[held[m].wallet] = flags[held[m].wallet],
           pushed'[held[m].wallet] = pushed[held[m].wallet],
           gone \subseteq gone'
    PROVE  SaveOK(m)'
BY DEF SaveOK, Current, Unmodified, Without

LEMMA SaveStale ==
    ASSUME TypeOK, NEW m \in Moderators, stage[m] = "save", SaveOK(m),
           held'[m] = held[m],
           exists'[held[m].wallet] = exists[held[m].wallet],
           born'[held[m].wallet] = born[held[m].wallet],
           version'[held[m].wallet] = version[held[m].wallet] + 1
    PROVE  SaveOK(m)'
<1>1. m \in Requests /\ held[m] \in Held /\ held[m].wallet \in Wallets
  BY DEF TypeOK, Requests
<1>2. held[m].version \in Nat /\ version[held[m].wallet] \in Nat
  BY <1>1 DEF TypeOK, Held
<1> QED
  BY <1>2 DEF SaveOK, Current, Unmodified

LEMMA SaveDead ==
    ASSUME TypeOK, NEW m \in Moderators, stage[m] = "save", SaveOK(m),
           held'[m] = held[m],
           \/ ~exists'[held[m].wallet] /\ born'[held[m].wallet] = born[held[m].wallet]
           \/ born'[held[m].wallet] = born[held[m].wallet] + 1
    PROVE  SaveOK(m)'
<1>1. m \in Requests /\ held[m] \in Held /\ held[m].wallet \in Wallets
  BY DEF TypeOK, Requests
<1>2. held[m].born \in Nat /\ born[held[m].wallet] \in Nat
  BY <1>1 DEF TypeOK, Held
<1> QED
  BY <1>2 DEF SaveOK, Current, Unmodified

(* A step that writes no wallet and makes no moderator ready to save. *)
LEMMA QuietKeeps ==
    ASSUME TypeOK, FlagsKept, SaveInv,
           UNCHANGED <<stored, history>>,
           \A m \in Moderators : stage'[m] = "save" => stage[m] = "save" /\ held'[m] = held[m]
    PROVE  FlagsKept' /\ SaveInv'
<1>1. UNCHANGED <<exists, born, version, flags, pushed, gone>>
  BY DEF stored, history
<1>2. FlagsKept'
  BY <1>1 DEF FlagsKept, Without
<1>3. ASSUME NEW m \in Moderators, stage'[m] = "save" PROVE SaveOK(m)'
  BY <1>1, <1>3, SaveSame DEF SaveInv
<1> QED
  BY <1>2, <1>3 DEF SaveInv

(* A push makes every older copy of the wallet stale. *)
LEMMA PushKeeps ==
    ASSUME TypeOK, FlagsKept, SaveInv,
           NEW w \in Wallets, NEW u \in Users, NEW b \in BOOLEAN, Push(w, u, b),
           UNCHANGED <<exists, born, gone>>,
           \A m \in Moderators : stage'[m] = stage[m] /\ held'[m] = held[m]
    PROVE  FlagsKept' /\ SaveInv'
<1> DEFINE flag == [id |-> minted + 1, user |-> u, mirror |-> b]
<1>1. /\ version' = [version EXCEPT ![w] = @ + 1]
      /\ flags' = [flags EXCEPT ![w] = @ \cup {flag}]
      /\ pushed' = [pushed EXCEPT ![w] = @ \cup {flag}]
  BY DEF Push
<1> HIDE DEF flag
<1>2. /\ \A v \in Wallets \ {w} : version'[v] = version[v] /\ flags'[v] = flags[v] /\ pushed'[v] = pushed[v]
      /\ version'[w] = version[w] + 1
      /\ flags'[w] = flags[w] \cup {flag} /\ pushed'[w] = pushed[w] \cup {flag}
  BY <1>1 DEF TypeOK
<1>3. FlagsKept'
  BY <1>2 DEF FlagsKept, Without
<1>4. ASSUME NEW m \in Moderators, stage'[m] = "save" PROVE SaveOK(m)'
  <2>1. stage[m] = "save" /\ held'[m] = held[m] /\ SaveOK(m) /\ held[m].wallet \in Wallets
    BY <1>4 DEF SaveInv, TypeOK, Requests
  <2>2. CASE held[m].wallet = w
    BY <1>2, <2>1, <2>2, SaveStale
  <2>3. CASE held[m].wallet # w
    BY <1>2, <2>1, <2>3, SaveSame
  <2> QED
    BY <2>2, <2>3
<1> QED
  BY <1>3, <1>4 DEF SaveInv

(* A request that finishes or moves on concerns itself only. *)
LEMMA OthersHeld ==
    ASSUME TypeOK, NEW r \in Requests, Finish(r)
    PROVE  \A q \in Requests \ {r} : stage'[q] = stage[q] /\ held'[q] = held[q]
BY DEF TypeOK, Finish, Goto

LEMMA KeptStep ==
    TypeOK /\ FlagsKept /\ SaveInv /\ [Next]_vars => FlagsKept' /\ SaveInv'
<1> SUFFICES ASSUME TypeOK, FlagsKept, SaveInv, [Next]_vars PROVE FlagsKept' /\ SaveInv'
  OBVIOUS
<1>0. /\ Flaggers \subseteq Requests /\ Reporters \subseteq Requests /\ Moderators \subseteq Requests
      /\ Flaggers \cap Moderators = {} /\ Reporters \cap Moderators = {}
  BY SlotAssumption DEF Requests
<1>1. ASSUME NEW g \in Flaggers, FlaggerStep(g) PROVE FlagsKept' /\ SaveInv'
  <2>1. ASSUME NEW u \in Users, NEW w \in Wallets, FlagStart(g, u, w) PROVE FlagsKept' /\ SaveInv'
    BY <1>0, <2>1, QuietKeeps DEF FlagStart, Goto, TypeOK
  <2>2. ASSUME NEW w \in Wallets, FlagCreate(g, w) PROVE FlagsKept' /\ SaveInv'
    <3>1. CASE exists[w]
      BY <1>0, <2>2, <3>1, OthersHeld, QuietKeeps DEF FlagCreate, history
    <3>2. CASE ~exists[w]
      <4>1. /\ Create(w) /\ UNCHANGED gone
            /\ \A m \in Moderators : stage'[m] = stage[m] /\ held'[m] = held[m]
        BY <1>0, <2>2, <3>2 DEF FlagCreate, Goto, TypeOK
      <4>2. /\ \A v \in Wallets \ {w} : /\ exists'[v] = exists[v] /\ born'[v] = born[v]
                                        /\ version'[v] = version[v] /\ flags'[v] = flags[v]
                                        /\ pushed'[v] = pushed[v]
            /\ born'[w] = born[w] + 1 /\ flags'[w] = {} /\ pushed'[w] = {}
        BY <4>1 DEF Create, TypeOK
      <4>3. FlagsKept'
        BY <4>1, <4>2 DEF FlagsKept, Without
      <4>4. ASSUME NEW m \in Moderators, stage'[m] = "save" PROVE SaveOK(m)'
        <5>1. stage[m] = "save" /\ held'[m] = held[m] /\ SaveOK(m) /\ held[m].wallet \in Wallets
          BY <1>0, <4>1, <4>4 DEF SaveInv, TypeOK
        <5>2. CASE held[m].wallet = w
          BY <4>2, <5>1, <5>2, SaveDead
        <5>3. CASE held[m].wallet # w
          BY <4>1, <4>2, <5>1, <5>3, SaveSame
        <5> QED
          BY <5>2, <5>3
      <4> QED
        BY <4>3, <4>4 DEF SaveInv
    <3> QED
      BY <3>1, <3>2
  <2>3. CASE FlagCount(g)
    BY <1>0, <2>3, OthersHeld, QuietKeeps DEF FlagCount, Goto, TypeOK
  <2>4. CASE FlagPush(g)
    <3>1. held[g].wallet \in Wallets /\ held[g].user \in Users
      BY <1>0, <2>4 DEF FlagPush, TypeOK
    <3>2. \A m \in Moderators : stage'[m] = stage[m] /\ held'[m] = held[m]
      BY <1>0, <2>4, OthersHeld DEF FlagPush
    <3>3. CASE Push(held[g].wallet, held[g].user, FALSE)
      BY <2>4, <3>1, <3>2, <3>3, PushKeeps DEF FlagPush
    <3>4. CASE UNCHANGED <<version, flags, pushed>>
      BY <2>4, <3>2, <3>4, QuietKeeps DEF FlagPush, stored, history
    <3> QED
      BY <2>4, <3>3, <3>4 DEF FlagPush
  <2> QED
    BY <1>1, <2>1, <2>2, <2>3, <2>4 DEF FlaggerStep
<1>2. ASSUME NEW r \in Reporters, ReporterStep(r) PROVE FlagsKept' /\ SaveInv'
  <2>1. ASSUME NEW u \in Users, NEW w \in Wallets, ReportCreate(r, u, w) PROVE FlagsKept' /\ SaveInv'
    BY <1>0, <2>1, QuietKeeps DEF ReportCreate, Goto, TypeOK
  <2>2. CASE ReportLoad(r)
    BY <1>0, <2>2, OthersHeld, QuietKeeps DEF ReportLoad, Goto, TypeOK
  <2>3. CASE ReportPush(r)
    <3>1. held[r].wallet \in Wallets /\ held[r].user \in Users
      BY <1>0, <2>3 DEF ReportPush, TypeOK
    <3>2. \A m \in Moderators : stage'[m] = stage[m] /\ held'[m] = held[m]
      BY <1>0, <2>3, OthersHeld DEF ReportPush
    <3>3. CASE Push(held[r].wallet, held[r].user, TRUE)
      BY <2>3, <3>1, <3>2, <3>3, PushKeeps DEF ReportPush
    <3>4. CASE UNCHANGED <<version, flags, pushed>>
      BY <2>3, <3>2, <3>4, QuietKeeps DEF ReportPush, stored, history
    <3> QED
      BY <2>3, <3>3, <3>4 DEF ReportPush
  <2> QED
    BY <1>2, <2>1, <2>2, <2>3 DEF ReporterStep
<1>3. ASSUME NEW m \in Moderators, ModeratorStep(m) PROVE FlagsKept' /\ SaveInv'
  <2>1. ASSUME NEW w \in Wallets, NEW ids,
               held' = [held EXCEPT ![m] = DropperOf(w, ids)], Goto(m, "save"),
               UNCHANGED <<stored, reported, minted, today, history>>
        PROVE  FlagsKept' /\ SaveInv'
    <3>1. UNCHANGED <<exists, born, version, flags, pushed, gone>>
      BY <2>1 DEF stored, history
    <3>2. FlagsKept'
      BY <3>1 DEF FlagsKept, Without
    <3>3. ASSUME NEW n \in Moderators, stage'[n] = "save" PROVE SaveOK(n)'
      <4>1. CASE n = m
        <5>1. /\ held'[m].wallet = w /\ held'[m].born = born[w]
              /\ held'[m].version = version[w] /\ held'[m].copy = flags[w]
          BY <1>0, <2>1 DEF TypeOK, DropperOf
        <5>2. Without(flags[w] \cup pushed[w], gone) = Without(flags[w], gone)
          BY DEF FlagsKept, Without
        <5>3. born[w] \in Nat /\ version[w] \in Nat
          BY DEF TypeOK
        <5> QED
          BY <3>1, <4>1, <5>1, <5>2, <5>3 DEF SaveOK
      <4>2. CASE n # m
        BY <1>0, <2>1, <3>1, <3>3, <4>2, SaveSame DEF SaveInv, Goto, TypeOK
      <4> QED
        BY <4>1, <4>2
    <3> QED
      BY <3>2, <3>3 DEF SaveInv
  <2>2. ASSUME NEW w \in Wallets, NEW n \in FlagIds, DismissLoad(m, w, n) PROVE FlagsKept' /\ SaveInv'
    BY <2>1, <2>2 DEF DismissLoad
  <2>3. ASSUME NEW u \in Users, NEW w \in Wallets, FilterLoad(m, u, w) PROVE FlagsKept' /\ SaveInv'
    BY <2>1, <2>3 DEF FilterLoad
  <2>4. CASE ModeratorSave(m)
    <3>1. /\ held[m].wallet \in Wallets /\ stage[m] = "save" /\ SaveOK(m)
          /\ UNCHANGED <<exists, born, pushed>>
          /\ stage'[m] # "save"
          /\ \A n \in Moderators \ {m} : stage'[n] = stage[n] /\ held'[n] = held[n]
      BY <1>0, <2>4 DEF ModeratorSave, TypeOK, Finish, Goto, SaveInv
    <3>2. CASE UNCHANGED <<flags, version, gone>>
      BY <3>1, <3>2, QuietKeeps DEF stored, history
    <3>3. CASE ~UNCHANGED <<flags, version, gone>>
      <4> DEFINE v == held[m].wallet
      <4>1. /\ flags' = [flags EXCEPT ![v] = Without(held[m].copy, held[m].drop)]
            /\ version' = [version EXCEPT ![v] = @ + 1]
            /\ gone' = gone \cup held[m].drop
            /\ Current(m) /\ Unmodified(m)
        BY <2>4, <3>3 DEF ModeratorSave
      <4>2. /\ \A w \in Wallets \ {v} : flags'[w] = flags[w] /\ version'[w] = version[w]
            /\ flags'[v] = Without(held[m].copy, held[m].drop)
            /\ version'[v] = version[v] + 1
        BY <3>1, <4>1 DEF TypeOK
      <4>3. Without(flags[v] \cup pushed[v], gone) = Without(held[m].copy, gone)
        BY <3>1, <4>1 DEF SaveOK
      <4>4. Without(pushed[v], gone') \subseteq flags'[v]
        BY <4>1, <4>2, <4>3 DEF Without
      <4>5. FlagsKept'
        BY <3>1, <4>1, <4>2, <4>4 DEF FlagsKept, Without
      <4>6. ASSUME NEW n \in Moderators, stage'[n] = "save" PROVE SaveOK(n)'
        <5>1. /\ stage[n] = "save" /\ held'[n] = held[n] /\ SaveOK(n)
              /\ held[n].wallet \in Wallets
          BY <1>0, <3>1, <4>6 DEF SaveInv, TypeOK
        <5>2. CASE held[n].wallet = v
          BY <3>1, <4>2, <5>1, <5>2, SaveStale
        <5>3. CASE held[n].wallet # v
          BY <3>1, <4>1, <4>2, <5>1, <5>3, SaveSame
        <5> QED
          BY <5>2, <5>3
      <4> QED
        BY <4>5, <4>6 DEF SaveInv
    <3> QED
      BY <3>2, <3>3
  <2> QED
    BY <1>3, <2>2, <2>3, <2>4 DEF ModeratorStep
<1>4. ASSUME NEW w \in Wallets, NEW n \in FlagIds, Pull(w, n) PROVE FlagsKept' /\ SaveInv'
  <2>1. /\ UNCHANGED <<exists, born, version, pushed, stage, held>> /\ gone' = gone \cup {n}
        /\ flags'[w] = Without(flags[w], {n})
        /\ \A v \in Wallets \ {w} : flags'[v] = flags[v]
    BY <1>4 DEF Pull, TypeOK
  <2>2. FlagsKept'
    BY <2>1 DEF FlagsKept, Without
  <2>3. ASSUME NEW m \in Moderators, stage'[m] = "save" PROVE SaveOK(m)'
    <3>1. stage[m] = "save" /\ SaveOK(m) /\ held[m].wallet \in Wallets
      BY <1>0, <2>1, <2>3 DEF SaveInv, TypeOK
    <3>2. CASE held[m].wallet = w
      <4>1. ASSUME Without(flags[w] \cup pushed[w], gone) = Without(held[m].copy, gone)
            PROVE  Without(flags'[w] \cup pushed[w], gone') = Without(held[m].copy, gone')
        BY <2>1, <4>1 DEF Without
      <4> QED
        BY <2>1, <3>1, <3>2, <4>1 DEF SaveOK, Current, Unmodified
    <3>3. CASE held[m].wallet # w
      BY <2>1, <3>1, <3>3, SaveSame
    <3> QED
      BY <3>2, <3>3
  <2> QED
    BY <2>2, <2>3 DEF SaveInv
<1>5. ASSUME NEW w \in Wallets, DeleteWallet(w) PROVE FlagsKept' /\ SaveInv'
  <2>1. /\ UNCHANGED <<born, version, stage, held, gone>>
        /\ ~exists'[w] /\ pushed'[w] = {}
        /\ \A v \in Wallets \ {w} : exists'[v] = exists[v] /\ flags'[v] = flags[v] /\ pushed'[v] = pushed[v]
    BY <1>5 DEF DeleteWallet, TypeOK
  <2>2. FlagsKept'
    BY <2>1 DEF FlagsKept, Without
  <2>3. ASSUME NEW m \in Moderators, stage'[m] = "save" PROVE SaveOK(m)'
    <3>1. stage[m] = "save" /\ SaveOK(m) /\ held[m].wallet \in Wallets
      BY <1>0, <2>1, <2>3 DEF SaveInv, TypeOK
    <3>2. CASE held[m].wallet = w
      BY <2>1, <3>1, <3>2, SaveDead
    <3>3. CASE held[m].wallet # w
      BY <2>1, <3>1, <3>3, SaveSame
    <3> QED
      BY <3>2, <3>3
  <2> QED
    BY <2>2, <2>3 DEF SaveInv
<1>6. CASE Midnight
  BY <1>6, QuietKeeps DEF Midnight
<1>7. ASSUME NEW r \in Requests, Abort(r) PROVE FlagsKept' /\ SaveInv'
  <2>1. \A m \in Moderators : stage'[m] = "save" => stage[m] = "save" /\ held'[m] = held[m]
    BY <1>0, <1>7 DEF Abort, Finish, Goto, TypeOK
  <2> QED
    BY <1>7, <2>1, QuietKeeps DEF Abort, history
<1>8. CASE UNCHANGED vars
  BY <1>8, QuietKeeps DEF vars, stored, history
<1> QED
  BY <1>1, <1>2, <1>3, <1>4, <1>5, <1>6, <1>7, <1>8 DEF Next

(* The flags that were pushed stay on the wallet until a moderator takes them away
   or the wallet is deleted, however many requests and admins write it at once. *)
THEOREM FlagsAreKept == Spec => []FlagsKept
<1>1. Init => FlagsKept /\ SaveInv
  BY DEF Init, FlagsKept, SaveInv, Without, Requests
<1> QED
  BY <1>1, TypeInit, TypeStep, KeptStep, PTL DEF Spec

-----------------------------------------------------------------------------
(* The daily limit.  A user's flags are finitely many, for their ids are. *)
LEMMA TodayFinite ==
    ASSUME TypeOK, NEW u \in Users
    PROVE  /\ IsFiniteSet(FlagsToday(u))
           /\ IsFiniteSet(SetToday(u)) /\ Cardinality(SetToday(u)) \in Nat
           /\ Cardinality(FlagsToday(u)) \in Nat
           /\ Cardinality(SetToday(u)) <= Cardinality(FlagsToday(u))
<1> DEFINE T == FlagIds \X BOOLEAN
           f == [x \in FlagsToday(u) |-> <<x.id, x.mirror>>]
<1>1. IsFiniteSet(FlagIds) /\ IsFiniteSet(BOOLEAN)
  <2>1. IsFiniteSet(FlagIds)
    BY FS_Interval, LimitAssumption DEF FlagIds
  <2>2. IsFiniteSet({TRUE})
    BY FS_Singleton
  <2>3. IsFiniteSet({TRUE} \cup {FALSE})
    BY <2>2, FS_AddElement
  <2>4. {TRUE} \cup {FALSE} = BOOLEAN
    OBVIOUS
  <2> QED
    BY <2>1, <2>3, <2>4
<1>2. IsFiniteSet(T)
  BY <1>1, FS_Product
<1>3. \A x \in FlagsToday(u) : x \in Flag /\ x.user = u
  BY DEF FlagsToday, TypeOK
<1>4. f \in Injection(FlagsToday(u), T)
  <2>1. f \in [FlagsToday(u) -> T]
    BY <1>3 DEF Flag
  <2>2. ASSUME NEW x \in FlagsToday(u), NEW y \in FlagsToday(u), f[x] = f[y] PROVE x = y
    <3>1. x.id = y.id /\ x.mirror = y.mirror /\ x.user = y.user
      BY <1>3, <2>2
    <3> QED
      BY <1>3, <3>1 DEF Flag
  <2> QED
    BY <2>1, <2>2 DEF Injection, IsInjective
<1>5. IsFiniteSet(FlagsToday(u))
  BY <1>2, <1>4, FS_Injection
<1>6. SetToday(u) \in SUBSET FlagsToday(u)
  BY DEF SetToday
<1> QED
  BY <1>5, <1>6, FS_Subset, FS_CardinalityType

LEMMA PushingFinite ==
    ASSUME NEW u \in Users
    PROVE  /\ IsFiniteSet(Pushing(u)) /\ Cardinality(Pushing(u)) \in Nat
           /\ Cardinality(Flaggers) \in Nat
           /\ Cardinality(Pushing(u)) <= Cardinality(Flaggers)
BY SlotAssumption, FS_Subset, FS_CardinalityType DEF Pushing

(* The sum of the two cannot grow when neither set does. *)
LEMMA SumShrinks ==
    ASSUME TypeOK, NEW u \in Users, NEW S, NEW P,
           S \subseteq SetToday(u), P \subseteq Pushing(u)
    PROVE  Cardinality(S) + Cardinality(P) <= Cardinality(SetToday(u)) + Cardinality(Pushing(u))
<1>1. /\ IsFiniteSet(S) /\ Cardinality(S) <= Cardinality(SetToday(u))
      /\ IsFiniteSet(P) /\ Cardinality(P) <= Cardinality(Pushing(u))
  BY TodayFinite, PushingFinite, FS_Subset
<1>2. Cardinality(S) \in Nat /\ Cardinality(P) \in Nat
  BY <1>1, FS_CardinalityType
<1> QED
  BY <1>1, <1>2, TodayFinite, PushingFinite

LEMMA ShrinkOne ==
    ASSUME TypeOK, OverrunInv, NEW u \in Users,
           SetToday(u)' \subseteq SetToday(u), Pushing(u)' \subseteq Pushing(u)
    PROVE  Cardinality(SetToday(u)') + Cardinality(Pushing(u)') < Limit + Cardinality(Flaggers)
<1>1. Cardinality(SetToday(u)') + Cardinality(Pushing(u)')
         <= Cardinality(SetToday(u)) + Cardinality(Pushing(u))
  BY SumShrinks
<1>2. Cardinality(SetToday(u)) + Cardinality(Pushing(u)) < Limit + Cardinality(Flaggers)
  BY DEF OverrunInv
<1>3. IsFiniteSet(SetToday(u)') /\ IsFiniteSet(Pushing(u)')
  BY TodayFinite, PushingFinite, FS_Subset
<1>4. Cardinality(SetToday(u)') \in Nat /\ Cardinality(Pushing(u)') \in Nat
  BY <1>3, FS_CardinalityType
<1> QED
  BY <1>1, <1>2, <1>4, TodayFinite, PushingFinite, LimitAssumption

LEMMA ShrinkKeeps ==
    ASSUME TypeOK, OverrunInv,
           \A u \in Users : SetToday(u)' \subseteq SetToday(u) /\ Pushing(u)' \subseteq Pushing(u)
    PROVE  OverrunInv'
BY ShrinkOne DEF OverrunInv

(* A push adds at most the new flag, and the request that did it no longer counts. *)
LEMMA PushOverrun ==
    ASSUME TypeOK, FreshInv, OverrunInv, NEW g \in Flaggers, stage[g] = "push", stage'[g] = "idle",
           \A q \in Requests \ {g} : stage'[q] = stage[q] /\ held'[q] = held[q],
           held[g].wallet \in Wallets, held[g].user \in Users,
           Push(held[g].wallet, held[g].user, FALSE), UNCHANGED gone
    PROVE  OverrunInv'
<1> DEFINE flag == [id |-> minted + 1, user |-> held[g].user, mirror |-> FALSE]
<1>0. Flaggers \subseteq Requests
  BY DEF Requests
<1>1. SUFFICES ASSUME NEW u \in Users
               PROVE  Cardinality(SetToday(u)') + Cardinality(Pushing(u)') < Limit + Cardinality(Flaggers)
  BY DEF OverrunInv
<1>2. /\ flags' = [flags EXCEPT ![held[g].wallet] = @ \cup {flag}]
      /\ today' = today \cup {flag.id} /\ flag.user = held[g].user
  BY DEF Push
<1> HIDE DEF flag
<1>3. \A w \in Wallets : flags'[w] \subseteq flags[w] \cup {flag}
  BY <1>2 DEF TypeOK
<1>f. flag.id = minted + 1 /\ minted \in Nat
  BY DEF flag, TypeOK
<1>4. ASSUME NEW w \in Wallets, NEW x \in flags[w] PROVE x.id # flag.id
  <2>1. x.id \in Nat /\ x.id <= minted
    BY DEF FreshInv, TypeOK, Flag, FlagIds
  <2>2. x.id # minted + 1
    BY <1>f, <2>1
  <2> QED
    BY <1>f, <2>2
<1>5. SetToday(u)' \subseteq SetToday(u) \cup {flag}
  BY <1>2, <1>3, <1>4 DEF SetToday, FlagsToday
<1>6. Pushing(u)' \subseteq Pushing(u) \ {g}
  BY <1>0 DEF Pushing
<1>7. CASE u = held[g].user
  <2>1. g \in Pushing(u)
    BY <1>7 DEF Pushing
  <2>a. /\ IsFiniteSet(SetToday(u)) /\ Cardinality(SetToday(u)) \in Nat
        /\ IsFiniteSet(Pushing(u)) /\ Cardinality(Pushing(u)) \in Nat
    BY TodayFinite, PushingFinite
  <2>b. /\ IsFiniteSet(SetToday(u) \cup {flag})
        /\ Cardinality(SetToday(u) \cup {flag}) <= Cardinality(SetToday(u)) + 1
    <3> DEFINE S == SetToday(u)
    <3>1. IsFiniteSet(S) /\ Cardinality(S) \in Nat
      BY <2>a
    <3> HIDE DEF S
    <3>2. /\ IsFiniteSet(S \cup {flag})
          /\ Cardinality(S \cup {flag}) = IF flag \in S THEN Cardinality(S) ELSE Cardinality(S) + 1
      BY <3>1, FS_AddElement
    <3>3. Cardinality(S \cup {flag}) <= Cardinality(S) + 1
      BY <3>1, <3>2
    <3> QED
      BY <3>2, <3>3 DEF S
  <2>c. /\ Cardinality(Pushing(u) \ {g}) = Cardinality(Pushing(u)) - 1
        /\ IsFiniteSet(Pushing(u) \ {g})
    BY <2>1, <2>a, FS_RemoveElement
  <2>2. /\ IsFiniteSet(SetToday(u) \cup {flag}) /\ IsFiniteSet(Pushing(u) \ {g})
    BY <2>b, <2>c
  <2>3. /\ IsFiniteSet(SetToday(u)') /\ IsFiniteSet(Pushing(u)')
        /\ Cardinality(SetToday(u)') <= Cardinality(SetToday(u) \cup {flag})
        /\ Cardinality(Pushing(u)') <= Cardinality(Pushing(u) \ {g})
    BY <1>5, <1>6, <2>2, FS_Subset
  <2>4. /\ Cardinality(SetToday(u)') \in Nat /\ Cardinality(Pushing(u)') \in Nat
        /\ Cardinality(SetToday(u) \cup {flag}) \in Nat /\ Cardinality(Pushing(u) \ {g}) \in Nat
    BY <2>2, <2>3, FS_CardinalityType
  <2>5. Cardinality(SetToday(u)) + Cardinality(Pushing(u)) < Limit + Cardinality(Flaggers)
    BY DEF OverrunInv
  <2> QED
    BY <2>a, <2>b, <2>c, <2>3, <2>4, <2>5, PushingFinite, LimitAssumption
<1>8. CASE u # held[g].user
  <2>1. SetToday(u)' \subseteq SetToday(u) /\ Pushing(u)' \subseteq Pushing(u)
    <3>1. flag \notin SetToday(u)'
      BY <1>2, <1>8 DEF SetToday, FlagsToday
    <3> QED
      BY <1>5, <1>6, <3>1
  <2> QED
    BY <2>1, ShrinkOne
<1> QED
  BY <1>7, <1>8

LEMMA PushFresh ==
    ASSUME TypeOK, FreshInv, NEW w \in Wallets, NEW u \in Users, NEW b \in BOOLEAN, Push(w, u, b),
           \A r \in Requests : held'[r].copy \in {held[r].copy, {}}
    PROVE  FreshInv'
<1> DEFINE flag == [id |-> minted + 1, user |-> u, mirror |-> b]
<1>1. minted' = minted + 1 /\ minted \in Nat /\ flag.id = minted + 1
  BY DEF Push, TypeOK
<1>2. flags' = [flags EXCEPT ![w] = @ \cup {flag}]
  BY DEF Push
<1> HIDE DEF flag
<1>3. ASSUME NEW v \in Wallets, NEW x \in flags'[v] PROVE x.id <= minted'
  <2>1. CASE x \in flags[v]
    <3>1. x.id \in Nat /\ x.id <= minted
      BY <2>1 DEF FreshInv, TypeOK, Flag, FlagIds
    <3> QED
      BY <1>1, <3>1
  <2>2. CASE x = flag
    BY <1>1, <2>2
  <2> QED
    BY <1>2, <1>3, <2>1, <2>2 DEF TypeOK
<1>4. ASSUME NEW r \in Requests, NEW x \in held'[r].copy PROVE x.id <= minted'
  <2>1. x \in held[r].copy
    BY <1>4
  <2>2. x.id \in Nat /\ x.id <= minted
    BY <2>1 DEF FreshInv, TypeOK, Held, Flag, FlagIds
  <2> QED
    BY <1>1, <2>2
<1> QED
  BY <1>3, <1>4 DEF FreshInv

(* No request but a push gives out an id, and none invents a flag. *)
LEMMA OldFresh ==
    ASSUME TypeOK, FreshInv, UNCHANGED minted,
           \A w \in Wallets : \A x \in flags'[w] :
               \/ \E v \in Wallets : x \in flags[v]
               \/ \E r \in Requests : x \in held[r].copy,
           \A r \in Requests : \A x \in held'[r].copy :
               x \in held[r].copy \/ \E v \in Wallets : x \in flags[v]
    PROVE  FreshInv'
BY DEF FreshInv

LEMMA FreshStep == TypeOK /\ FreshInv /\ [Next]_vars => FreshInv'
<1> SUFFICES ASSUME TypeOK, FreshInv, [Next]_vars PROVE FreshInv'
  OBVIOUS
<1>0. /\ Flaggers \subseteq Requests /\ Reporters \subseteq Requests /\ Moderators \subseteq Requests
      /\ Blank.copy = {}
      /\ \A r \in Requests : held[r] \in Held
  BY DEF Requests, Blank, TypeOK
<1>f. ASSUME NEW r \in Requests, Finish(r)
      PROVE  \A q \in Requests : held'[q].copy \in {held[q].copy, {}}
  BY <1>0, <1>f DEF Finish, TypeOK
<1>1. ASSUME NEW g \in Flaggers, FlaggerStep(g) PROVE FreshInv'
  <2>1. ASSUME NEW u \in Users, NEW w \in Wallets, FlagStart(g, u, w) PROVE FreshInv'
    <3>1. UNCHANGED <<flags, minted>> /\ \A q \in Requests : held'[q].copy \in {held[q].copy, {}}
      BY <1>0, <2>1 DEF FlagStart, stored, PusherOf, AskerOf, Blank, TypeOK
    <3> QED
      BY <3>1, OldFresh
  <2>2. ASSUME NEW w \in Wallets, FlagCreate(g, w) PROVE FreshInv'
    <3>1. CASE exists[w]
      BY <1>0, <1>f, <2>2, <3>1, OldFresh DEF FlagCreate, stored
    <3>2. CASE ~exists[w]
      <4>1. /\ flags' = [flags EXCEPT ![w] = {}] /\ UNCHANGED minted
            /\ held' = [held EXCEPT ![g].born = born[w] + 1]
        BY <2>2, <3>2 DEF FlagCreate, Create
      <4>2. \A q \in Requests : held'[q].copy = held[q].copy
        BY <1>0, <4>1 DEF TypeOK, Held
      <4>3. \A v \in Wallets : flags'[v] \subseteq flags[v]
        BY <4>1 DEF TypeOK
      <4> QED
        BY <4>1, <4>2, <4>3, OldFresh
    <3> QED
      BY <3>1, <3>2
  <2>3. CASE FlagCount(g)
    BY <1>0, <1>f, <2>3, OldFresh DEF FlagCount, stored
  <2>4. CASE FlagPush(g)
    <3>1. held[g].wallet \in Wallets /\ held[g].user \in Users
      BY <1>0, <2>4 DEF FlagPush, TypeOK
    <3> QED
      BY <1>0, <1>f, <2>4, <3>1, PushFresh, OldFresh DEF FlagPush
  <2> QED
    BY <1>1, <2>1, <2>2, <2>3, <2>4 DEF FlaggerStep
<1>2. ASSUME NEW r \in Reporters, ReporterStep(r) PROVE FreshInv'
  <2>1. ASSUME NEW u \in Users, NEW w \in Wallets, ReportCreate(r, u, w) PROVE FreshInv'
    <3>1. UNCHANGED <<flags, minted>> /\ \A q \in Requests : held'[q].copy \in {held[q].copy, {}}
      BY <1>0, <2>1 DEF ReportCreate, stored, AskerOf, Blank, TypeOK
    <3> QED
      BY <3>1, OldFresh
  <2>2. CASE ReportLoad(r)
    <3>1. UNCHANGED <<flags, minted>>
      BY <2>2 DEF ReportLoad, stored
    <3>2. \A q \in Requests : held'[q].copy \in {held[q].copy, {}}
      <4>1. CASE Finish(r)
        BY <1>0, <1>f, <4>1
      <4>2. CASE held' = [held EXCEPT ![r].born = born[held[r].wallet]]
        BY <1>0, <4>2 DEF TypeOK, Held
      <4> QED
        BY <2>2, <4>1, <4>2 DEF ReportLoad
    <3> QED
      BY <3>1, <3>2, OldFresh
  <2>3. CASE ReportPush(r)
    <3>1. held[r].wallet \in Wallets /\ held[r].user \in Users
      BY <1>0, <2>3 DEF ReportPush, TypeOK
    <3> QED
      BY <1>0, <1>f, <2>3, <3>1, PushFresh, OldFresh DEF ReportPush
  <2> QED
    BY <1>2, <2>1, <2>2, <2>3 DEF ReporterStep
<1>3. ASSUME NEW m \in Moderators, ModeratorStep(m) PROVE FreshInv'
  <2>1. ASSUME NEW w \in Wallets, NEW ids, UNCHANGED <<flags, minted>>,
               held' = [held EXCEPT ![m] = DropperOf(w, ids)]
        PROVE  FreshInv'
    <3>1. \A r \in Requests : held'[r].copy \in {held[r].copy, flags[w]}
      BY <1>0, <2>1 DEF DropperOf, TypeOK
    <3> QED
      BY <2>1, <3>1, OldFresh
  <2>2. ASSUME NEW w \in Wallets, NEW n \in FlagIds, DismissLoad(m, w, n) PROVE FreshInv'
    BY <2>1, <2>2 DEF DismissLoad, stored
  <2>3. ASSUME NEW u \in Users, NEW w \in Wallets, FilterLoad(m, u, w) PROVE FreshInv'
    BY <2>1, <2>3 DEF FilterLoad, stored
  <2>4. CASE ModeratorSave(m)
    <3>1. UNCHANGED minted /\ Finish(m)
      BY <2>4 DEF ModeratorSave
    <3>2. \A w \in Wallets : flags'[w] \subseteq flags[w] \cup held[m].copy
      BY <2>4 DEF ModeratorSave, TypeOK, Without
    <3> QED
      BY <1>0, <1>f, <3>1, <3>2, OldFresh
  <2> QED
    BY <1>3, <2>2, <2>3, <2>4 DEF ModeratorStep
<1>4. ASSUME NEW w \in Wallets, NEW n \in FlagIds, Pull(w, n) PROVE FreshInv'
  BY <1>4, OldFresh DEF Pull, Without, TypeOK
<1>5. ASSUME NEW w \in Wallets, DeleteWallet(w) PROVE FreshInv'
  BY <1>5, OldFresh DEF DeleteWallet, TypeOK
<1>6. CASE Midnight
  BY <1>6, OldFresh DEF Midnight, stored
<1>7. ASSUME NEW r \in Requests, Abort(r) PROVE FreshInv'
  BY <1>f, <1>7, OldFresh DEF Abort, stored
<1>8. CASE UNCHANGED vars
  BY <1>8, OldFresh DEF vars
<1> QED
  BY <1>1, <1>2, <1>3, <1>4, <1>5, <1>6, <1>7, <1>8 DEF Next

LEMMA OverrunStep ==
    TypeOK /\ FlagsInv /\ [Next]_vars => OverrunInv'
<1> SUFFICES ASSUME TypeOK, FlagsInv, [Next]_vars PROVE OverrunInv'
  OBVIOUS
<1>0. /\ Flaggers \subseteq Requests /\ Reporters \subseteq Requests /\ Moderators \subseteq Requests
      /\ Flaggers \cap Moderators = {} /\ Flaggers \cap Reporters = {}
      /\ FreshInv /\ FlagsKept /\ SaveInv /\ OverrunInv
      /\ \A r \in Requests : held[r] \in Held
  BY SlotAssumption DEF Requests, FlagsInv, TypeOK
(* Fewer flags of today, and nobody who passed the limit. *)
<1>s. ASSUME \A w \in Wallets : Without(flags'[w], gone') \subseteq flags[w],
             today' \subseteq today, gone \subseteq gone',
             \A g \in Flaggers : stage'[g] = "push" => stage[g] = "push" /\ held'[g].user = held[g].user
      PROVE  OverrunInv'
  <2>1. ASSUME NEW u \in Users PROVE SetToday(u)' \subseteq SetToday(u)
    BY <1>s DEF SetToday, FlagsToday, Without
  <2>2. ASSUME NEW u \in Users PROVE Pushing(u)' \subseteq Pushing(u)
    BY <1>s DEF Pushing
  <2> QED
    BY <1>0, <2>1, <2>2, ShrinkKeeps
<1>w. ASSUME UNCHANGED <<flags, today, gone>>,
             \A g \in Flaggers : stage'[g] = "push" => stage[g] = "push" /\ held'[g].user = held[g].user
      PROVE  OverrunInv'
  <2>1. \A w \in Wallets : Without(flags'[w], gone') \subseteq flags[w]
    BY <1>w DEF Without
  <2> QED
    BY <1>s, <1>w, <2>1
<1>f. ASSUME NEW r \in Requests, Finish(r)
      PROVE  \A g \in Flaggers : stage'[g] = "push" => stage[g] = "push" /\ held'[g].user = held[g].user
  BY <1>0, <1>f DEF Finish, Goto, TypeOK
<1>1. ASSUME NEW g \in Flaggers, FlaggerStep(g) PROVE OverrunInv'
  <2>1. ASSUME NEW u \in Users, NEW w \in Wallets, FlagStart(g, u, w) PROVE OverrunInv'
    BY <1>0, <1>w, <2>1 DEF FlagStart, Goto, TypeOK, stored, history
  <2>2. ASSUME NEW w \in Wallets, FlagCreate(g, w) PROVE OverrunInv'
    <3>1. CASE exists[w]
      BY <1>0, <1>f, <1>w, <2>2, <3>1 DEF FlagCreate, stored
    <3>2. CASE ~exists[w]
      <4>1. /\ flags' = [flags EXCEPT ![w] = {}] /\ UNCHANGED <<today, gone>>
            /\ held' = [held EXCEPT ![g].born = born[w] + 1] /\ Goto(g, "count")
        BY <2>2, <3>2 DEF FlagCreate, Create
      <4>2. \A v \in Wallets : Without(flags'[v], gone') \subseteq flags[v]
        BY <4>1 DEF TypeOK, Without
      <4>3. \A q \in Flaggers : stage'[q] = "push" => stage[q] = "push" /\ held'[q].user = held[q].user
        BY <1>0, <4>1 DEF Goto, TypeOK
      <4> QED
        BY <1>s, <4>1, <4>2, <4>3
    <3> QED
      BY <3>1, <3>2
  <2>3. CASE FlagCount(g)
    <3>1. UNCHANGED <<flags, today, gone>>
      BY <2>3 DEF FlagCount, stored, history
    <3>2. CASE Finish(g)
      BY <1>0, <1>f, <1>w, <3>1, <3>2
    <3>3. CASE ~Finish(g)
      <4>1. ~OverLimit(held[g].user) /\ Goto(g, "push") /\ UNCHANGED held
        BY <2>3, <3>3 DEF FlagCount
      <4>2. ASSUME NEW u \in Users
            PROVE  Cardinality(SetToday(u)') + Cardinality(Pushing(u)') < Limit + Cardinality(Flaggers)
        <5>1. SetToday(u)' = SetToday(u)
          BY <3>1 DEF SetToday, FlagsToday
        <5>2. CASE u # held[g].user
          <6>1. Pushing(u)' \subseteq Pushing(u)
            BY <1>0, <4>1, <5>2 DEF Pushing, Goto, TypeOK
          <6> QED
            BY <1>0, <5>1, <6>1, ShrinkOne
        <5>3. CASE u = held[g].user
          <6>1. Cardinality(FlagsToday(u)) < Limit
            BY <4>1, <5>3, TodayFinite, LimitAssumption DEF OverLimit
          <6>2. Pushing(u)' \in SUBSET Flaggers
            BY DEF Pushing
          <6>3. Cardinality(Pushing(u)') <= Cardinality(Flaggers) /\ IsFiniteSet(Pushing(u)')
            BY <6>2, SlotAssumption, FS_Subset
          <6>4. Cardinality(Pushing(u)') \in Nat
            BY <6>3, FS_CardinalityType
          <6> QED
            BY <5>1, <6>1, <6>3, <6>4, TodayFinite, PushingFinite, LimitAssumption
        <5> QED
          BY <5>2, <5>3
      <4> QED
        BY <4>2 DEF OverrunInv
    <3> QED
      BY <3>2, <3>3
  <2>4. CASE FlagPush(g)
    <3>1. held[g].wallet \in Wallets /\ held[g].user \in Users
      BY <1>0, <2>4 DEF FlagPush, TypeOK
    <3>2. CASE Push(held[g].wallet, held[g].user, FALSE)
      <4>1. /\ stage[g] = "push" /\ stage'[g] = "idle" /\ UNCHANGED gone
            /\ \A q \in Requests \ {g} : stage'[q] = stage[q] /\ held'[q] = held[q]
        BY <1>0, <2>4, OthersHeld DEF FlagPush, Finish, Goto, TypeOK
      <4> QED
        BY <1>0, <3>1, <3>2, <4>1, PushOverrun
    <3>3. CASE UNCHANGED <<version, flags, pushed, minted, today>>
      BY <1>0, <1>f, <1>w, <2>4, <3>3 DEF FlagPush
    <3> QED
      BY <2>4, <3>2, <3>3 DEF FlagPush
  <2> QED
    BY <1>1, <2>1, <2>2, <2>3, <2>4 DEF FlaggerStep
<1>2. ASSUME NEW r \in Reporters, ReporterStep(r) PROVE OverrunInv'
  <2>0. ASSUME \A g \in Requests \ {r} : stage'[g] = stage[g] /\ held'[g] = held[g]
        PROVE  \A g \in Flaggers : stage'[g] = "push" => stage[g] = "push" /\ held'[g].user = held[g].user
    BY <1>0, <2>0
  <2>1. ASSUME NEW u \in Users, NEW w \in Wallets, ReportCreate(r, u, w) PROVE OverrunInv'
    BY <1>0, <1>w, <2>0, <2>1 DEF ReportCreate, Goto, TypeOK, stored, history
  <2>2. CASE ReportLoad(r)
    <3>1. UNCHANGED <<flags, today, gone>>
      BY <2>2 DEF ReportLoad, stored, history
    <3>2. \A g \in Requests \ {r} : stage'[g] = stage[g] /\ held'[g] = held[g]
      BY <1>0, <2>2 DEF ReportLoad, Goto, Finish, TypeOK
    <3> QED
      BY <1>w, <2>0, <3>1, <3>2
  <2>3. CASE ReportPush(r)
    <3>0. /\ held[r].wallet \in Wallets /\ held[r].user \in Users /\ UNCHANGED gone
          /\ \A g \in Flaggers : stage'[g] = "push" => stage[g] = "push" /\ held'[g].user = held[g].user
      BY <1>0, <1>f, <2>3 DEF ReportPush, TypeOK
    <3>1. CASE Push(held[r].wallet, held[r].user, TRUE)
      <4> DEFINE flag == [id |-> minted + 1, user |-> held[r].user, mirror |-> TRUE]
      <4>1. /\ flags' = [flags EXCEPT ![held[r].wallet] = @ \cup {flag}]
            /\ today' = today \cup {minted + 1} /\ flag.mirror = TRUE
        BY <3>1 DEF Push
      <4> HIDE DEF flag
      <4>2. \A w \in Wallets : flags'[w] \subseteq flags[w] \cup {flag}
        BY <3>0, <4>1 DEF TypeOK
      <4>3. ASSUME NEW w \in Wallets, NEW x \in flags[w] PROVE x.id # minted + 1
        <5>1. x.id \in Nat /\ x.id <= minted /\ minted \in Nat
          BY <1>0 DEF FreshInv, TypeOK, Flag, FlagIds
        <5> QED
          BY <5>1
      <4>4. ASSUME NEW u \in Users PROVE SetToday(u)' \subseteq SetToday(u)
        BY <3>0, <4>1, <4>2, <4>3 DEF SetToday, FlagsToday
      <4>5. ASSUME NEW u \in Users PROVE Pushing(u)' \subseteq Pushing(u)
        BY <3>0 DEF Pushing
      <4> QED
        BY <1>0, <4>4, <4>5, ShrinkKeeps
    <3>2. CASE UNCHANGED <<version, flags, pushed, minted, today>>
      BY <1>w, <3>0, <3>2
    <3> QED
      BY <2>3, <3>1, <3>2 DEF ReportPush
  <2> QED
    BY <1>2, <2>1, <2>2, <2>3 DEF ReporterStep
<1>3. ASSUME NEW m \in Moderators, ModeratorStep(m) PROVE OverrunInv'
  <2>0. ASSUME \A g \in Requests \ {m} : stage'[g] = stage[g] /\ held'[g] = held[g]
        PROVE  \A g \in Flaggers : stage'[g] = "push" => stage[g] = "push" /\ held'[g].user = held[g].user
    BY <1>0, <2>0
  <2>1. ASSUME NEW w \in Wallets, NEW n \in FlagIds, DismissLoad(m, w, n) PROVE OverrunInv'
    BY <1>0, <1>w, <2>0, <2>1 DEF DismissLoad, Goto, TypeOK, stored, history
  <2>2. ASSUME NEW u \in Users, NEW w \in Wallets, FilterLoad(m, u, w) PROVE OverrunInv'
    BY <1>0, <1>w, <2>0, <2>2 DEF FilterLoad, Goto, TypeOK, stored, history
  <2>3. CASE ModeratorSave(m)
    <3>0. /\ held[m].wallet \in Wallets /\ UNCHANGED today /\ SaveOK(m)
          /\ \A g \in Flaggers : stage'[g] = "push" => stage[g] = "push" /\ held'[g].user = held[g].user
      BY <1>0, <1>f, <2>3 DEF ModeratorSave, TypeOK, SaveInv
    <3>1. CASE UNCHANGED <<flags, version, gone>>
      BY <1>w, <3>0, <3>1
    <3>2. CASE ~UNCHANGED <<flags, version, gone>>
      <4> DEFINE v == held[m].wallet
      <4>1. /\ flags' = [flags EXCEPT ![v] = Without(held[m].copy, held[m].drop)]
            /\ gone' = gone \cup held[m].drop /\ Current(m) /\ Unmodified(m)
        BY <2>3, <3>2 DEF ModeratorSave
      <4>2. Without(flags[v] \cup pushed[v], gone) = Without(held[m].copy, gone)
        BY <3>0, <4>1 DEF SaveOK
      <4>3. Without(pushed[v], gone) \subseteq flags[v]
        BY <1>0, <3>0 DEF FlagsKept
      <4>4. Without(flags'[v], gone') \subseteq flags[v]
        BY <3>0, <4>1, <4>2, <4>3 DEF TypeOK, Without
      <4>5. \A w \in Wallets : Without(flags'[w], gone') \subseteq flags[w]
        BY <4>1, <4>4 DEF TypeOK, Without
      <4> QED
        BY <1>s, <3>0, <4>1, <4>5
    <3> QED
      BY <3>1, <3>2
  <2> QED
    BY <1>3, <2>1, <2>2, <2>3 DEF ModeratorStep
<1>4. ASSUME NEW w \in Wallets, NEW n \in FlagIds, Pull(w, n) PROVE OverrunInv'
  BY <1>0, <1>s, <1>4 DEF Pull, Without, TypeOK
<1>5. ASSUME NEW w \in Wallets, DeleteWallet(w) PROVE OverrunInv'
  BY <1>0, <1>s, <1>5 DEF DeleteWallet, Without, TypeOK
<1>6. CASE Midnight
  BY <1>0, <1>s, <1>6 DEF Midnight, stored, history, Without
<1>7. ASSUME NEW r \in Requests, Abort(r) PROVE OverrunInv'
  BY <1>0, <1>f, <1>w, <1>7 DEF Abort, stored, history
<1>8. CASE UNCHANGED vars
  BY <1>0, <1>w, <1>8 DEF vars
<1> QED
  BY <1>1, <1>2, <1>3, <1>4, <1>5, <1>6, <1>7, <1>8 DEF Next

(* However many flag requests of a user are under way at once, they set at most
   one flag too many for each but one of them. *)
THEOREM OverrunIsBounded == Spec => []DailyOverrun
<1>1. Init => FlagsInv
  <2> SUFFICES ASSUME Init PROVE FlagsInv
    OBVIOUS
  <2>1. FreshInv /\ FlagsKept /\ SaveInv
    BY DEF Init, FreshInv, FlagsKept, SaveInv, Without, Requests, Blank
  <2>2. ASSUME NEW u \in Users
        PROVE  Cardinality(SetToday(u)) + Cardinality(Pushing(u)) < Limit + Cardinality(Flaggers)
    <3>1. SetToday(u) = {} /\ Pushing(u) = {}
      BY DEF Init, SetToday, FlagsToday, Pushing, Requests
    <3> QED
      BY <3>1, FS_EmptySet, PushingFinite, LimitAssumption
  <2> QED
    BY <2>1, <2>2 DEF FlagsInv, OverrunInv
<1>2. TypeOK /\ FlagsInv /\ [Next]_vars => FlagsInv'
  BY FreshStep, KeptStep, OverrunStep DEF FlagsInv
<1>3. TypeOK /\ FlagsInv => DailyOverrun
  <2> SUFFICES ASSUME TypeOK, FlagsInv, NEW u \in Users
               PROVE  Cardinality(SetToday(u)) < Limit + Cardinality(Flaggers)
    BY DEF DailyOverrun
  <2> QED
    BY TodayFinite, PushingFinite, LimitAssumption DEF FlagsInv, OverrunInv
<1> QED
  BY <1>1, <1>2, <1>3, TypeInit, TypeStep, PTL DEF Spec
===============================================================================
