---- MODULE MCWalletLedger ----
(****************************************************************************)
(* Constants of WalletLedger for TLC, and the three properties that the     *)
(* repository's comments state and the code does not keep.                  *)
(****************************************************************************)
EXTENDS LedgerRefinement, TLC

CONSTANTS h1, h2

MCHandlers == {h1, h2}

\* The handlers are interchangeable; the wallets are not, their ids order
\* the locks.
HandlerSymmetry == Permutations(MCHandlers)

----
\* model/transaction.go: a debit entry reduces a wallet balance and a credit
\* entry increases it. A status update that races a movement writes the old
\* balance back, and the entry has no effect on the balance.
EntriesMoveBalances ==
    \A w \in Wallets :
        InRange(w) => wallets[w].balance = ledger[w].credit - ledger[w].debit

\* model/wallet.go: a suspended wallet blocks money movement. Reverse never
\* looks at the status of the wallets it moves money between.
SuspendedBlocksMovement ==
    [][\A w \in Wallets :
         wallets[w].status = "suspended" => ledger'[w] = ledger[w]]_vars

\* README: a normal end-user balance must obey overdraft rules. The additions
\* are not checked for overflow and amounts have no upper limit.
UserNeverOverdrawn ==
    \A w \in Wallets \ {System} : wallets[w].balance >= 0
====
