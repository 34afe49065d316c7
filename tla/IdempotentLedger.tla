--------------------------- MODULE IdempotentLedger ---------------------------
(***************************************************************************)
(* What the on-chain path of the pledge ledger promises: every external id *)
(* is recorded for a fundraiser at most once; only an id in the            *)
(* fundraiser's own currency is counted in `raised', by the step that      *)
(* records it or never.  Nothing is forgotten, nothing counted twice.      *)
(***************************************************************************)
CONSTANTS
    Fundraisers,    \* fundraiser ids
    Ids,            \* external ids (payment ids or transaction hashes)
    Countable       \* Countable[f]: the ids whose currency is that of f

VARIABLES
    recorded,       \* recorded[f]: ids with a pledge
    counted         \* counted[f]: ids whose amount is in f's raised total

vars == <<recorded, counted>>

Init ==
    /\ recorded = [f \in Fundraisers |-> {}]
    /\ counted = [f \in Fundraisers |-> {}]

(* A transfer is recorded and counted in one step ... *)
RecordCounted(f, e) ==
    /\ e \in Countable[f] \ recorded[f]
    /\ recorded' = [recorded EXCEPT ![f] = @ \cup {e}]
    /\ counted' = [counted EXCEPT ![f] = @ \cup {e}]

(* ... or recorded and never counted: it is in another currency, its currency
   could not be read, or the payment processor reported it. *)
RecordUncounted(f, e) ==
    /\ e \notin recorded[f]
    /\ recorded' = [recorded EXCEPT ![f] = @ \cup {e}]
    /\ UNCHANGED counted

Next == \E f \in Fundraisers, e \in Ids : RecordCounted(f, e) \/ RecordUncounted(f, e)

Spec == Init /\ [][Next]_vars
=============================================================================
