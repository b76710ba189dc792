---- MODULE MCBalanceCache ----
(* Constants of BalanceCache for TLC. *)
EXTENDS BalanceCache, TLC

CONSTANTS h1, h2, h3

MCHandlers == {h1, h2, h3}
HandlerSymmetry == Permutations(MCHandlers)
====
