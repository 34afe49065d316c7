---------------------------- MODULE MCOnchainLedger ----------------------------
(* One fundraiser, on Solana or not; one transfer in its currency that its explorer
   spells Sig, with capitals, and everyone may also write sig. *)
EXTENDS OnchainLedger, TLC

CONSTANTS f1, Sig, sig, v1, p1, p2

MCLower == [e \in {Sig, sig} |-> sig]
MCPays == {<<f1, Sig>>}
MCEntryOf == [e \in {Sig, sig} |-> e]
===============================================================================
