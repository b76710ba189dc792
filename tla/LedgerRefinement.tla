---- MODULE LedgerRefinement ----
(****************************************************************************)
(* WalletLedger implements AtomicLedger when no wallet is ever patched.     *)
(* The rows the handlers lock, their copies and their steps before the      *)
(* commit have no counterpart; a movement takes effect at its commit.       *)
(****************************************************************************)
EXTENDS WalletLedger

Atomic == INSTANCE AtomicLedger WITH
    balance <- [w \in Wallets |-> wallets[w].balance],
    history <- transactions,
    used <- {idempotency[slot] : slot \in Keys \X MovementTypes} \ {NoRecord},
    phase <- [h \in Handlers |-> IF pc[h] = "idle" THEN "idle"
                                 ELSE IF pc[h] = "respond" THEN "done"
                                 ELSE "busy"]

\* Movements are linearizable: every request takes effect at its commit as
\* if it were alone, or is refused for a reason that is true at that moment,
\* or replays what its key did before. A reader of the code would want this of
\* the locks, the index and the checks of TopUp, Transfer and Reverse together.
ImplementsAtomicLedger == Atomic!Spec
====
