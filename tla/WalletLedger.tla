---- MODULE WalletLedger ----
(****************************************************************************)
(* Money movement of the wallet service: TransactionService.TopUp, Transfer *)
(* and Reverse, and WalletService.UpdateStatus, run by concurrent HTTP      *)
(* handlers against one PostgreSQL database at READ COMMITTED.              *)
(*                                                                          *)
(* A handler's uncommitted writes are visible to nobody, so the steps that  *)
(* matter are: the replay lookup before the transaction, the insert of the  *)
(* idempotency record (it waits for an uncommitted duplicate), the lock on  *)
(* the transaction to reverse, the locks on the two wallets one at a time,  *)
(* and the commit that makes every write of the closure visible at once.    *)
(* UpdateStatus reads the wallet without a lock and saves the whole row.    *)
(****************************************************************************)
EXTENDS Integers, Sequences, FiniteSets

CONSTANTS
    Handlers,         \* the goroutines that serve requests
    Wallets,          \* ids of the wallet rows; their order is the lock order
    WalletRefs,       \* ids a request may name: rows and ids of no row
    System,           \* model.SystemWalletID, the least id
    Patchable,        \* ids an operator sends PATCH /wallets/:id/status for
    Amounts,          \* amount_minor of requests; binding:"gt=0"
    Keys,             \* Idempotency-Key header values
    NoKey,            \* the header is absent
    MaxMinor,         \* the largest int64
    MaxTransactions   \* bound: transactions committed or in flight

ASSUME ConstantsAssumption ==
    /\ WalletRefs \subseteq Nat
    /\ Wallets \subseteq WalletRefs
    /\ System \in Wallets
    /\ Patchable \subseteq WalletRefs
    /\ MaxMinor \in Nat
    /\ Amounts \subseteq 1..MaxMinor
    /\ NoKey \notin Keys
    /\ MaxTransactions \in Nat

VARIABLES
    wallets,       \* committed rows of table wallets
    transactions,  \* committed rows of table transactions, in commit order
    ledger,        \* totals of each wallet's committed ledger entries
    idempotency,   \* committed rows of table idempotency_keys
    pc,            \* what each handler does next
    req,           \* the request it serves, or served last
    copy,          \* the wallet rows it has in memory
    reply          \* its last answer

vars == <<wallets, transactions, ledger, idempotency, pc, req, copy, reply>>

----
\* Data of the tables and of the requests.

Statuses == {"active", "suspended", "closed"}
Balances == -(MaxMinor + 1)..MaxMinor
Rows == [status: Statuses, balance: Balances]
NoRow == [status |-> "absent", balance |-> 0]

\* Mutant: balances of unlimited size.
Wrap_Unbounded(n) == n

\* Go's int64 addition wraps around.
Wrap(n) ==
    IF n > MaxMinor THEN n - 2 * (MaxMinor + 1)
    ELSE IF n < -(MaxMinor + 1) THEN n + 2 * (MaxMinor + 1)
    ELSE n

MaybeKey == Keys \cup {NoKey}
TxIds == 1..MaxTransactions

TopUps == [op: {"topup"}, wallet: WalletRefs, amount: Amounts, key: MaybeKey]
Transfers == [op: {"transfer"}, source: WalletRefs, destination: WalletRefs,
              amount: Amounts, key: MaybeKey]
Reversals == [op: {"reversal"}, target: TxIds, key: MaybeKey]
Patches == [op: {"patch"}, wallet: Patchable, status: Statuses]
Movements == TopUps \cup Transfers \cup Reversals
NoRequest == [op |-> "none"]

MovementTypes == {"topup", "transfer", "reversal"}
Transactions == [type: MovementTypes, source: Wallets, destination: Wallets,
                 amount: Amounts, key: MaybeKey, related: Nat,
                 status: {"completed", "reversed"}]

\* request stands for request_hash, tx for the stored response.
Records == [request: Movements, tx: Nat \ {0}]
NoRecord == [request |-> NoRequest, tx |-> 0]

Codes == {"none", "created", "validation", "not_found", "wallet_not_active",
          "insufficient_funds", "already_reversed", "conflict",
          "idempotency_conflict", "internal", "updated"}

----
\* What a handler holds, and what it waits for.

Active(row) == row.status = "active"

InTransaction(h) == pc[h] \in {"original", "wallets"}

\* The idempotency record is inserted and not yet committed.
HoldsKey(h, k, op) ==
    InTransaction(h) /\ req[h].op = op /\ req[h].key = k /\ k # NoKey

\* The row of the transaction to reverse is locked.
HoldsOriginal(h, i) ==
    pc[h] = "wallets" /\ req[h].op = "reversal" /\ req[h].target = i

\* The wallet row is read FOR UPDATE.
HoldsWallet(h, w) == pc[h] = "wallets" /\ copy[h][w] # NoRow

\* The two ends and the amount of the movement the handler is about to post.
Movement(h) ==
    CASE req[h].op = "topup" ->
            [from |-> System, to |-> req[h].wallet, amount |-> req[h].amount]
      [] req[h].op = "transfer" ->
            [from |-> req[h].source, to |-> req[h].destination,
             amount |-> req[h].amount]
      [] req[h].op = "reversal" ->
            LET original == transactions[req[h].target]
            IN [from |-> original.destination, to |-> original.source,
                amount |-> original.amount]

\* Rows of the movement that exist and are not locked yet.
Unlocked(h) ==
    {w \in {Movement(h).from, Movement(h).to} \cap Wallets : copy[h][w] = NoRow}

\* Mutant: the source is locked first, without sorting.
NextWallet_SourceFirst(h, w) ==
    /\ w \in Unlocked(h)
    /\ Movement(h).from \in Unlocked(h) => w = Movement(h).from

\* GetByIDsForUpdate locks in ascending order of the ids.
NextWallet(h, w) == w \in Unlocked(h) /\ \A v \in Unlocked(h) : w <= v

\* Mutants: no unique index on (key, endpoint), no FOR UPDATE on the original,
\* no FOR UPDATE on the wallets.
KeyBusy_Never(h) == FALSE
OriginalBusy_Never(h) == FALSE
WalletBusy_Never(h, w) == FALSE

KeyBusy(h) == \E g \in Handlers \ {h} : HoldsKey(g, req[h].key, req[h].op)
OriginalBusy(h) == \E g \in Handlers \ {h} : HoldsOriginal(g, req[h].target)
WalletBusy(h, w) == \E g \in Handlers \ {h} : HoldsWallet(g, w)

\* Both ends are rows, and a top-up does not go to the settlement wallet.
Found(h) ==
    LET m == Movement(h)
    IN {m.from, m.to} \subseteq Wallets /\ m.from # m.to

\* A top-up looks at the status of its destination only, a transfer at both
\* ends, a reversal at none.
Permitted(h) ==
    LET m == Movement(h)
    IN /\ req[h].op \in {"topup", "transfer"} => Active(copy[h][m.to])
       /\ req[h].op = "transfer" => Active(copy[h][m.from])

\* Mutant: the balance check is missing in Reverse.
Funded_NotInReverse(h) ==
    req[h].op = "transfer" =>
        copy[h][Movement(h).from].balance >= Movement(h).amount

\* Only the settlement wallet of a top-up may be overdrawn.
Funded(h) ==
    req[h].op \in {"transfer", "reversal"} =>
        copy[h][Movement(h).from].balance >= Movement(h).amount

\* The answer the checks on the locked wallets lead to.
Verdict(h) ==
    CASE ~Found(h) -> "not_found"
      [] Found(h) /\ ~Permitted(h) -> "wallet_not_active"
      [] Found(h) /\ Permitted(h) /\ ~Funded(h) -> "insufficient_funds"
      [] OTHER -> "created"

\* The answer the checks on the locked original lead to.
OriginalVerdict(i) ==
    IF i \notin DOMAIN transactions THEN "not_found"
    ELSE IF transactions[i].status = "reversed" THEN "already_reversed"
    ELSE IF transactions[i].type = "reversal" THEN "validation"
    ELSE "created"

NoCopies == [w \in Wallets |-> NoRow]

----
\* main.go seeds the system wallet; the users' wallets were created empty.
Init ==
    /\ wallets = [w \in Wallets |-> [status |-> "active", balance |-> 0]]
    /\ transactions = <<>>
    /\ ledger = [w \in Wallets |-> [debit |-> 0, credit |-> 0]]
    /\ idempotency = [slot \in Keys \X MovementTypes |-> NoRecord]
    /\ pc = [h \in Handlers |-> "idle"]
    /\ req = [h \in Handlers |-> NoRequest]
    /\ copy = [h \in Handlers |-> NoCopies]
    /\ reply = [h \in Handlers |-> [code |-> "none", tx |-> 0]]

tables == <<wallets, transactions, ledger, idempotency>>

\* The handler answers; its transaction, if any, is over and its locks free.
Answer(h, code, tx) ==
    /\ pc' = [pc EXCEPT ![h] = "idle"]
    /\ copy' = [copy EXCEPT ![h] = NoCopies]
    /\ reply' = [reply EXCEPT ![h] = [code |-> code, tx |-> tx]]
    /\ req' = req

\* The handler goes on without an answer.
Goto(h, label) ==
    /\ pc' = [pc EXCEPT ![h] = label]
    /\ UNCHANGED <<req, reply>>

InFlight == {h \in Handlers : pc[h] \notin {"idle", "read", "save"}}

\* A client sends a request that moves money.
SubmitMovement(h) ==
    /\ pc[h] = "idle"
    /\ Len(transactions) + Cardinality(InFlight) < MaxTransactions
    /\ \E r \in Movements : req' = [req EXCEPT ![h] = r]
    /\ pc' = [pc EXCEPT ![h] = "replay"]
    /\ reply' = [reply EXCEPT ![h] = [code |-> "none", tx |-> 0]]
    /\ UNCHANGED <<tables, copy>>

\* An operator changes the status of a wallet.
SubmitPatch(h) ==
    /\ pc[h] = "idle"
    /\ \E r \in Patches : req' = [req EXCEPT ![h] = r]
    /\ pc' = [pc EXCEPT ![h] = "read"]
    /\ reply' = [reply EXCEPT ![h] = [code |-> "none", tx |-> 0]]
    /\ UNCHANGED <<tables, copy>>

----
\* Before the transaction: the request's own check, then the replay lookup.

SelfTransfer(r) == r.op = "transfer" /\ r.source = r.destination
StoredRecord(r) ==
    IF r.key = NoKey THEN NoRecord ELSE idempotency[<<r.key, r.op>>]

RefuseSelfTransfer(h) ==
    /\ pc[h] = "replay"
    /\ SelfTransfer(req[h])
    /\ Answer(h, "validation", 0)
    /\ UNCHANGED tables

RefuseReusedKey(h) ==
    /\ pc[h] = "replay"
    /\ ~SelfTransfer(req[h])
    /\ StoredRecord(req[h]) # NoRecord
    /\ StoredRecord(req[h]).request # req[h]
    /\ Answer(h, "idempotency_conflict", 0)
    /\ UNCHANGED tables

\* Mutant: the hash of the stored request is not compared.
ReplayResponse_AnyHash(h) ==
    /\ pc[h] = "replay"
    /\ ~SelfTransfer(req[h])
    /\ StoredRecord(req[h]) # NoRecord
    /\ Answer(h, "created", StoredRecord(req[h]).tx)
    /\ UNCHANGED tables

ReplayResponse(h) ==
    /\ pc[h] = "replay"
    /\ ~SelfTransfer(req[h])
    /\ StoredRecord(req[h]).request = req[h]
    /\ Answer(h, "created", StoredRecord(req[h]).tx)
    /\ UNCHANGED tables

BeginTransaction(h) ==
    /\ pc[h] = "replay"
    /\ ~SelfTransfer(req[h])
    /\ StoredRecord(req[h]) = NoRecord
    /\ Goto(h, "key")
    /\ UNCHANGED <<tables, copy>>

----
\* Inside the transaction.

\* createIdempotencyRecord: the unique index makes the insert wait for the
\* transaction that inserted the same (key, endpoint) to end.
InsertKey(h) ==
    /\ pc[h] = "key"
    /\ ~KeyBusy(h)
    /\ StoredRecord(req[h]) = NoRecord
    /\ Goto(h, IF req[h].op = "reversal" THEN "original" ELSE "wallets")
    /\ UNCHANGED <<tables, copy>>

\* Mutant: a key in flight is refused at once, although its transaction may
\* still roll back.
RefuseDuplicateKey_NoWait(h) ==
    /\ pc[h] = "key"
    /\ KeyBusy(h) \/ StoredRecord(req[h]) # NoRecord
    /\ Answer(h, "conflict", 0)
    /\ UNCHANGED tables

RefuseDuplicateKey(h) ==
    /\ pc[h] = "key"
    /\ StoredRecord(req[h]) # NoRecord
    /\ Answer(h, "conflict", 0)
    /\ UNCHANGED tables

\* GetByIDForUpdate on the transaction to reverse, and the checks on it.
LockOriginal(h) ==
    /\ pc[h] = "original"
    /\ ~OriginalBusy(h)
    /\ OriginalVerdict(req[h].target) = "created"
    /\ Goto(h, "wallets")
    /\ UNCHANGED <<tables, copy>>

RefuseOriginal(h) ==
    /\ pc[h] = "original"
    /\ ~OriginalBusy(h)
    /\ OriginalVerdict(req[h].target) # "created"
    /\ Answer(h, OriginalVerdict(req[h].target), 0)
    /\ UNCHANGED tables

\* SELECT ... ORDER BY id FOR UPDATE reads the row as it is when the lock is
\* granted.
LockWallet(h, w) ==
    /\ pc[h] = "wallets"
    /\ NextWallet(h, w)
    /\ ~WalletBusy(h, w)
    /\ copy' = [copy EXCEPT ![h][w] = wallets[w]]
    /\ UNCHANGED <<tables, pc, req, reply>>

RefuseMovement(h) ==
    /\ pc[h] = "wallets"
    /\ Unlocked(h) = {}
    /\ Verdict(h) # "created"
    /\ Answer(h, Verdict(h), 0)
    /\ UNCHANGED tables

\* The rows the closure writes and the commit makes visible.
NewTransaction(h) ==
    [type |-> req[h].op, source |-> Movement(h).from,
     destination |-> Movement(h).to, amount |-> Movement(h).amount,
     key |-> req[h].key, status |-> "completed",
     related |-> IF req[h].op = "reversal" THEN req[h].target ELSE 0]

SavedRows(h) ==
    LET m == Movement(h)
        debited == [copy[h][m.from] EXCEPT !.balance = Wrap(@ - m.amount)]
        credited == [copy[h][m.to] EXCEPT !.balance = Wrap(@ + m.amount)]
    IN [wallets EXCEPT ![m.from] = debited, ![m.to] = credited]

PostedEntries(h) ==
    LET m == Movement(h)
    IN [ledger EXCEPT ![m.from].debit = @ + m.amount,
                      ![m.to].credit = @ + m.amount]

\* Mutant: the ends of the original are swapped in memory to build the
\* reversal, and Save writes them with the new status.
MarkedOriginal_SwappedInPlace(h) ==
    IF req[h].op = "reversal"
      THEN [transactions EXCEPT ![req[h].target] =
              [@ EXCEPT !.status = "reversed", !.source = Movement(h).from,
                        !.destination = Movement(h).to]]
      ELSE transactions

MarkedOriginal(h) ==
    IF req[h].op = "reversal"
      THEN [transactions EXCEPT ![req[h].target].status = "reversed"]
      ELSE transactions

SavedResponse(h, id) ==
    IF req[h].key = NoKey THEN idempotency
    ELSE [idempotency EXCEPT ![<<req[h].key, req[h].op>>] =
             [request |-> req[h], tx |-> id]]

Post(h) ==
    LET id == Len(transactions) + 1
    IN /\ pc[h] = "wallets"
       /\ Unlocked(h) = {}
       /\ Verdict(h) = "created"
       /\ wallets' = SavedRows(h)
       /\ ledger' = PostedEntries(h)
       /\ transactions' = Append(MarkedOriginal(h), NewTransaction(h))
       /\ idempotency' = SavedResponse(h, id)
       /\ copy' = [copy EXCEPT ![h] = NoCopies]
       /\ pc' = [pc EXCEPT ![h] = "respond"]
       /\ reply' = [reply EXCEPT ![h].tx = id]
       /\ req' = req

\* After the commit: the cache refresh, which cannot fail the request, and
\* the 201.
Respond(h) ==
    /\ pc[h] = "respond"
    /\ Answer(h, "created", reply[h].tx)
    /\ UNCHANGED tables

----
\* WalletService.UpdateStatus.

ReadWallet(h) ==
    /\ pc[h] = "read"
    /\ req[h].wallet \in Wallets
    /\ copy' = [copy EXCEPT ![h][req[h].wallet] = wallets[req[h].wallet]]
    /\ Goto(h, "save")
    /\ UNCHANGED tables

RefusePatch(h) ==
    /\ pc[h] = "read"
    /\ req[h].wallet \notin Wallets
    /\ Answer(h, "not_found", 0)
    /\ UNCHANGED tables

\* gorm's Save writes every column of the row, the balance included; the
\* UPDATE waits for the row's lock but does not read the row again.
SaveWallet(h) ==
    LET w == req[h].wallet
    IN /\ pc[h] = "save"
       /\ ~WalletBusy(h, w)
       /\ wallets' = [wallets EXCEPT
                        ![w] = [copy[h][w] EXCEPT !.status = req[h].status]]
       /\ Answer(h, "updated", 0)
       /\ UNCHANGED <<transactions, ledger, idempotency>>

\* A database error, a cancelled context or a crash of the process: what is
\* not committed is rolled back, the locks are released, and the client sees
\* an error even when the commit had already happened.
Fail(h) ==
    /\ pc[h] # "idle"
    /\ Answer(h, "internal", 0)
    /\ UNCHANGED tables

----
\* The handler's own next step: everything but new requests and failures.
Step(h) ==
    \/ RefuseSelfTransfer(h)
    \/ RefuseReusedKey(h)
    \/ ReplayResponse(h)
    \/ BeginTransaction(h)
    \/ InsertKey(h)
    \/ RefuseDuplicateKey(h)
    \/ LockOriginal(h)
    \/ RefuseOriginal(h)
    \/ \E w \in Wallets : LockWallet(h, w)
    \/ RefuseMovement(h)
    \/ Post(h)
    \/ Respond(h)
    \/ ReadWallet(h)
    \/ RefusePatch(h)
    \/ SaveWallet(h)

Next ==
    \E h \in Handlers :
        \/ SubmitMovement(h)
        \/ SubmitPatch(h)
        \/ Step(h)
        \/ Fail(h)

Spec == Init /\ [][Next]_vars

\* Go schedules every runnable goroutine, and PostgreSQL grants a row or
\* unique-key lock to its waiters in turn: a handler whose next step is
\* possible again and again takes it, hence strong fairness for the steps that
\* wait. Failures and new requests are never owed.
Fairness == \A h \in Handlers : SF_vars(Step(h))

FairSpec == Spec /\ Fairness

----
\* Every variable holds a value of its table or of its handler's memory.
TypeOK ==
    /\ wallets \in [Wallets -> Rows]
    /\ transactions \in Seq(Transactions)
    /\ ledger \in [Wallets -> [debit: Nat, credit: Nat]]
    /\ idempotency \in [Keys \X MovementTypes -> Records \cup {NoRecord}]
    /\ pc \in [Handlers -> {"idle", "replay", "key", "original", "wallets",
                            "respond", "read", "save"}]
    /\ req \in [Handlers -> Movements \cup Patches \cup {NoRequest}]
    /\ copy \in [Handlers -> [Wallets -> Rows \cup {NoRow}]]
    /\ reply \in [Handlers -> [code: Codes, tx: Nat]]

\* The wallet rows a movement computes with are the committed rows for as
\* long as it holds them: no other movement or status update slips in between
\* the SELECT ... FOR UPDATE and the commit (GetByIDsForUpdate).
FreshCopies ==
    \A h \in Handlers, w \in Wallets :
        HoldsWallet(h, w) => copy[h][w] = wallets[w]

\* The wallet's totals fit the int64 columns.
InRange(w) == ledger[w].debit <= MaxMinor /\ ledger[w].credit <= MaxMinor

\* No wallet but the settlement wallet is overdrawn, whatever transfers,
\* reversals and status updates interleave (the balance checks of Transfer
\* and Reverse).
NonNegative ==
    \A w \in Wallets \ {System} : InRange(w) => wallets[w].balance >= 0

\* The balance column of a wallet nobody patches is the sum of its ledger
\* entries: balances and entries are written by the same commit.
LedgerExact ==
    \A w \in Wallets \ Patchable :
        InRange(w) => wallets[w].balance = ledger[w].credit - ledger[w].debit

\* A transaction is marked reversed exactly when one reversal compensates it,
\* later, between the same wallets and for the same amount: two concurrent
\* reversals of one transaction never both commit (Reverse).
ReversedOnce ==
    /\ \A i \in DOMAIN transactions :
         transactions[i].status = "reversed" <=>
            \E j \in DOMAIN transactions : transactions[j].related = i
    /\ \A j \in DOMAIN transactions :
         LET r == transactions[j]
         IN r.type = "reversal" =>
              /\ r.related \in 1..(j - 1)
              /\ transactions[r.related].type # "reversal"
              /\ r.source = transactions[r.related].destination
              /\ r.destination = transactions[r.related].source
              /\ r.amount = transactions[r.related].amount
    /\ \A j, k \in DOMAIN transactions :
         /\ transactions[j].type = "reversal"
         /\ transactions[k].related = transactions[j].related
         => j = k

\* An idempotency record is committed with its transaction or not at all, so
\* a key moves money at most once per endpoint: every keyed transaction is
\* the one its record names, and every record names such a transaction.
KeyedOnce ==
    /\ \A i \in DOMAIN transactions :
         LET t == transactions[i]
         IN t.key # NoKey => idempotency[<<t.key, t.type>>].tx = i
    /\ \A k \in Keys, op \in MovementTypes :
         LET record == idempotency[<<k, op>>]
         IN record # NoRecord =>
              /\ record.tx \in DOMAIN transactions
              /\ record.request.op = op
              /\ record.request.key = k
              /\ transactions[record.tx].type = op
              /\ transactions[record.tx].key = k

\* The transaction is the one the request asks for.
Serves(t, r) ==
    /\ t.type = r.op
    /\ t.key = r.key
    /\ r.op = "topup" =>
         t.source = System /\ t.destination = r.wallet /\ t.amount = r.amount
    /\ r.op = "transfer" =>
         /\ t.source = r.source
         /\ t.destination = r.destination
         /\ t.amount = r.amount
    /\ r.op = "reversal" => t.related = r.target

\* A 201 is never wrong: fresh or replayed, it carries a committed
\* transaction that did what this very request asked for.
CreatedIsServed ==
    \A h \in Handlers :
        reply[h].code = "created" =>
            /\ reply[h].tx \in DOMAIN transactions
            /\ Serves(transactions[reply[h].tx], req[h])

\* A 409 tells the truth: a refusal for a used key means that the key's
\* request did move money, and "already reversed" means it is.
RefusalsAreTrue ==
    \A h \in Handlers :
        /\ reply[h].code \in {"conflict", "idempotency_conflict"} =>
             StoredRecord(req[h]) # NoRecord
        /\ reply[h].code = "idempotency_conflict" =>
             StoredRecord(req[h]).request # req[h]
        /\ reply[h].code = "already_reversed" =>
             /\ req[h].target \in DOMAIN transactions
             /\ transactions[req[h].target].status = "reversed"

----
\* Waiting: keys come before transactions to reverse, and those before
\* wallets, which come in the order of their ids.
KeyStage == -2
OriginalStage == -1

WaitsFor(h, g) ==
    /\ g # h
    /\ \/ pc[h] = "key" /\ HoldsKey(g, req[h].key, req[h].op)
       \/ pc[h] = "original" /\ HoldsOriginal(g, req[h].target)
       \/ /\ pc[h] = "wallets"
          /\ \E w \in Wallets : NextWallet(h, w) /\ HoldsWallet(g, w)
       \/ pc[h] = "save" /\ HoldsWallet(g, req[h].wallet)

\* The handler is at a step that may wait at this place of the order.
WaitsAt(h, place) ==
    \/ pc[h] = "key" /\ place = KeyStage
    \/ pc[h] = "original" /\ place = OriginalStage
    \/ pc[h] = "wallets" /\ NextWallet(h, place)
    \/ pc[h] = "save" /\ place = req[h].wallet

\* Whoever is waited for waits, if at all, at a later place: waiting never
\* closes a circle, so movements and status updates cannot deadlock.
OrderedWaits ==
    \A h, g \in Handlers :
        WaitsFor(h, g) =>
            \A p, q \in Wallets \cup {KeyStage, OriginalStage} :
                WaitsAt(h, p) /\ WaitsAt(g, q) => p < q

\* A wallet whose status a movement has checked - the destination of a top-up,
\* both ends of a transfer - is still active when the movement commits, whenever
\* a status update was accepted. The settlement wallet that a top-up debits and
\* the ends of a reversal are not checked, and may be suspended or closed.
ChecksHoldAtCommit ==
    [][\A h \in Handlers :
         Post(h) /\ req[h].op # "reversal" =>
            /\ Active(wallets[Movement(h).to])
            /\ req[h].op = "transfer" => Active(wallets[Movement(h).from])]_vars

\* Committed money movement is immutable: rows are only appended, and only
\* the status of one that is being compensated changes.
HistoryImmutable ==
    [][/\ Len(transactions) <= Len(transactions')
       /\ \A i \in DOMAIN transactions :
            \/ transactions'[i] = transactions[i]
            \/ /\ transactions[i].status = "completed"
               /\ transactions'[i] = [transactions[i] EXCEPT !.status = "reversed"]
               /\ \E j \in DOMAIN transactions' \ DOMAIN transactions :
                     transactions'[j].related = i]_vars

\* Every request is answered.
EveryRequestAnswered ==
    \A h \in Handlers : pc[h] # "idle" ~> pc[h] = "idle"
====
