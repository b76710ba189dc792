---- MODULE MCWalletEvents ----
(* Constants of WalletEvents for TLC. *)
EXTENDS WalletEvents, TLC

CONSTANTS h1, h2

MCHandlers == {h1, h2}
HandlerSymmetry == Permutations(MCHandlers)
====
