---------------------------- MODULE MCPledgeLedger ----------------------------
(* One fundraiser f1; one transfer in its currency under two spellings of its
   hash (lo, and mixed as a donor may paste it); one in another currency. *)
EXTENDS PledgeLedger, TLC

CONSTANTS f1, lo, mixed, other, d1, d2, v1, p1, p2, i1

MCLower == [e \in {lo, mixed, other} |-> IF e = mixed THEN lo ELSE e]
MCPays == {<<f1, lo>>, <<f1, other>>}
MCMatching == {<<f1, lo>>}
MCSameEntry == [e \in {lo, mixed, other} |-> "Anonymous:5"]
MCOwnEntry == [e \in {lo, mixed, other} |-> e]
MCSymmetry == Permutations({d1, d2})
===============================================================================
