----------------------------- MODULE OnchainLedger -----------------------------
(***************************************************************************)
(* The on-chain path of the pledge ledger with the explorers it asks, and  *)
(* what it promises.  The verifiers, the overlapping poller runs, the      *)
(* webhook and the admin together implement IdempotentLedger when no       *)
(* request goes through pledge.ts (Donors = {}): the races that remain are *)
(* all closed by createPledgeAtomic.                                       *)
(*                                                                         *)
(* PledgeLedger lets an explorer show any rows and a detector confirm any  *)
(* of them.  Here an explorer shows a window of a wallet's newest          *)
(* transactions, and a detector is asked for the id in lower case.         *)
(***************************************************************************)
EXTENDS PledgeLedger

VARIABLES
    listed,     \* the transfers in the window of the explorer run.ts asks
    exact       \* the fundraisers polled on Solana, whose ids are case-sensitive

chain == <<listed, exact>>
onchainVars == <<vars, chain>>

(* Nothing is known of a wallet's chain but what its document says, for good. *)
OnchainInit ==
    /\ Init
    /\ listed = {}
    /\ exact \in SUBSET Fundraisers

(* A transfer enters the window, or newer ones push it out: Solscan and Tronscan
   are asked for 10 rows, Etherscan for all but of Ethereum alone and without token
   transfers, so that one of them, or of Polygon or BSC, may never enter. *)
WindowMoves(k) ==
    /\ listed' = IF k \in listed THEN listed \ {k} ELSE listed \cup {k}
    /\ UNCHANGED <<vars, exact>>

Rows(f) == {k \in listed : k[1] = f}

(* A detector can confirm the transfer by the id run.ts passes on. *)
Traceable(k) == k[1] \in exact => Lower[k[2]] = k[2]

(* What a step of a run learns from outside: all rows of the window or none, and
   of a row that is not traceable never that it was found. *)
Answers ==
    \A p \in Pollers :
        /\ \A f \in left[p] : f \notin left'[p] => batch'[p] \in {{}, Rows(f)}
        /\ stage[p] = "scan" /\ stage'[p] = "record"
              => \A k \in batch[p] \ batch'[p] : Traceable(k)

OnchainNext ==
    \/ \E k \in Pays : WindowMoves(k)
    \/ Next /\ Answers /\ UNCHANGED chain

OnchainSpec == OnchainInit /\ [][OnchainNext]_onchainVars

InCurrency == [f \in Fundraisers |-> {e \in Ids : Named(Matching, f, e)}]
Recorded == [f \in Fundraisers |-> {e \in Ids : pledge[f][e] # "none"}]
Counted == [f \in Fundraisers |-> {e \in Ids : raised[f][e] # 0}]

Ledger == INSTANCE IdempotentLedger
    WITH Countable <- InCurrency, recorded <- Recorded, counted <- Counted

(* Every behaviour of the on-chain path is one of the abstract ledger: one
   transfer id, one pledge, counted by the step that records it and for good. *)
ImplementsLedger == Ledger!Spec

(* Cron keeps starting runs (FUNDRAISERS.md, Vercel setup checklist), an await
   that has an answer resumes, an explorer that is asked again and again shows its
   window in the end, and a node confirms in the end what it can trace.  Nothing is
   assumed of the other rows, of the window, or of users, the admin and the payment
   processor. *)
PollerFairness(p) ==
    /\ WF_onchainVars(PollerStart(p) /\ UNCHANGED chain)
    /\ \A f \in Fundraisers : SF_onchainVars(PollerFetch(p, f, Rows(f)) /\ UNCHANGED chain)
    /\ \A k \in Pays :
          /\ WF_onchainVars(PollerLookup(p, k[1], k[2], FALSE) /\ UNCHANGED chain)
          /\ SF_onchainVars(/\ Traceable(k) /\ PollerLookup(p, k[1], k[2], TRUE)
                            /\ UNCHANGED chain)
          /\ WF_onchainVars(PollerRecord(p, k[1], Lower[k[2]]) /\ UNCHANGED chain)
    /\ WF_onchainVars(PollerFinish(p) /\ UNCHANGED chain)

FairSpec == OnchainSpec /\ \A p \in Pollers : PollerFairness(p)

(* A traceable transfer that stays in its explorer's window, to a fundraiser that
   stays active, gets its pledge in the end, through failed lookups, runs that die
   and runs that find it already there.  No more is promised: a transfer pushed out
   of the window between two runs, never in it, or a Solana signature with a capital
   letter is recorded by nobody unless a donor asks for it. *)
PolledTransferRecorded ==
    \A k \in Pays :
        <>[](Traceable(k) /\ active[k[1]] /\ k \in listed)
            => <>(pledge[k[1]][Lower[k[2]]] # "none")
===============================================================================
