---------------------------- MODULE MCWalletFlags -----------------------------
(* One wallet and one user are enough: the limit is over all wallets, the rest
   within one. *)
EXTENDS WalletFlags, TLC

CONSTANTS w1, u1, g1, g2, r1, m1

MCSymmetry == Permutations({g1, g2})
===============================================================================
