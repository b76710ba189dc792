# A TLA+ model of go-digital-wallet

The wallet service is a small HTTP program (Go, Gin, GORM) that moves money
between wallets stored in PostgreSQL, keeps a copy of each balance in Redis, and
publishes an event for every movement to a Redis stream. Its code is short; what
is hard about it is what happens *between* its statements: several handlers run
at once against one database at READ COMMITTED, row locks and a unique index are
the only synchronisation, clients retry, and Redis, the database or the process
may fail at any point. This directory models that part, checks it with TLC on
small instances, and proves its safety with TLAPS for every instance: every
invariant, every action property and every refinement that a passing run checks is
the conclusion of a theorem. Only liveness rests on TLC alone.

All paths below are relative to `src/`.

## 1. Inventory

| Component | State | Operations | Talks to | What is hard | What must hold |
|---|---|---|---|---|---|
| Transaction service (`internal/service/transaction_service.go`, `helpers.go`) | none of its own: tables `transactions`, `ledger_entries`, `wallets`, `idempotency_keys`, `outbox_events` | TopUp, Transfer, Reverse; Get, List | all repositories in one database transaction; cache after the commit | interleaved movements, lock order, check-then-act, lost answers, int64 | balances equal entries, no overdraft, one reversal per transaction, history only grows |
| Idempotency (`helpers.go`, `idempotency_repository.go`) | rows (key, endpoint) -> request hash, response | lookup before the transaction, insert and save in it | the unique index `idx_key_endpoint` | two requests with one key past the lookup; rollback while a duplicate waits | one movement per key, replays and refusals tell the truth |
| Wallet service (`wallet_service.go`) | table `wallets` | Create, Get, GetBalance, UpdateStatus | cache | UpdateStatus saves a row it read without a lock | the statuses a movement checks still hold when it commits |
| Balance cache (`internal/cache`) | Redis key per wallet with a time to live | Get, Set (Delete is never called) | Redis | order of refreshes, slow readers, outages | only committed balances, stale copies disappear, Redis is not needed |
| Outbox and worker (`internal/event`, `outbox_repository.go`) | table `outbox_events`, the stream | insert with the movement; fetch, publish, mark, record failure | database, Redis | crash between two steps, lost answers, poison rows, two processes | at least once, order, progress |
| User service (`user_service.go`) | table `users` | Create, List, Get, Update, Delete (soft) | unique indexes | Update racing Delete; pages that shift while a client lists | deletions settle, a listing misses nobody |
| Seeding (`repository/db.go`, `cmd/api/main.go`) | the system user and wallet | two inserts with ON CONFLICT DO NOTHING at every start | database | a crash between the two, several processes | who serves has a settlement wallet |
| Handlers, middleware, config, errors, start-up | none | parse, route, format | services | shutdown does not wait for the worker | - |

How they interact: a handler calls one service method; `TopUp`, `Transfer` and
`Reverse` look the idempotency key up, then run one closure in one database
transaction (insert the key, lock, check, write, insert the outbox event), and
after the commit write both balances to Redis. The worker of each process polls
the outbox on its own. Nothing else is shared: there are no channels between
requests and no locks in memory.

`PROJECT.json` lists the hazards of this code by line, with the properties that
would catch each.

## 2. Modules

### `WalletLedger` - money movement

Variables are the tables (`wallets`, `transactions`, `ledger`, `idempotency`)
and, per handler, what it does next (`pc`), its request, the wallet rows it has
in memory (`copy`) and its last answer. A handler is a goroutine that serves one
request after another.

A database transaction is invisible to the others until it commits, so a
handler's uncommitted writes are not in the tables; they follow from its `req`
and `copy`, and `Post` - the commit - makes all of them visible in one step: both
wallet rows (with the wrap-around of int64), the two ledger entries, the
transaction, the original's new status, and the stored response. What other
handlers *do* feel of an open transaction is what they wait for, and that is in
the model: the inserted idempotency record (`HoldsKey`), the original locked FOR
UPDATE (`HoldsOriginal`), each wallet row locked FOR UPDATE (`HoldsWallet`).

| Action | Code |
|---|---|
| `SubmitMovement`, `SubmitPatch` | a request passes the binding rules of its handler |
| `RefuseSelfTransfer` | `Transfer`, first check |
| `RefuseReusedKey`, `ReplayResponse`, `BeginTransaction` | `getIdempotencyReplay`: committed records only |
| `InsertKey`, `RefuseDuplicateKey` | `createIdempotencyRecord`; the insert waits for an uncommitted duplicate |
| `LockOriginal`, `RefuseOriginal` | `GetByIDForUpdate` and the checks of `Reverse` |
| `LockWallet` | `GetByIDsForUpdate`, one row at a time in id order |
| `RefuseMovement`, `Post` | missing wallets, statuses, funds; then the writes and the commit |
| `Respond` | the cache refresh (which cannot fail the request) and the 201 |
| `ReadWallet`, `RefusePatch`, `SaveWallet` | `UpdateStatus` |
| `Fail` | database error, cancelled context or crash anywhere; after `Post` the movement stays |

The three movements share the actions: `Movement(h)` gives the two ends and the
amount, `Permitted` and `Funded` say which checks each of them makes. The ledger
is kept as each wallet's total of debits and of credits, in unbounded integers,
which is what makes an overflow of the balance column visible. The outbox row is
inserted by the same commit and lives in `OutboxRelay`; `WalletEvents` joins the two. `MaxTransactions` is the
only bound: no movement is started that could exceed it. A process crash is
`Fail` of any set of handlers one after another.

Simplifications: the request stands for its hash (SHA-256 collisions are not
modelled); a transaction's number, its position in commit order, stands for its
uuid; metadata, currency (only THB exists) and reference codes are left out, no
branch looks at them.

### `OutboxRelay` - outbox, worker, stream

Events are numbers in `created_at` order. `created_at` is taken at the insert and
the row becomes visible at the commit, so events may be committed in another
order; only two movements that share a wallet (`SharedLock`) cannot overtake each
other, because the insert happens under that wallet's row lock. (This takes the
clocks of the service's processes to agree to within the length of a
transaction.) `PublishPending` is one action per step: fetch a batch,
`RejectPayload` or `Publish`/`PublishFails` (whose answer may be lost after the
XADD), `MarkPublished` or `RecordFailure`, then the next event. `Stop` ends a
batch anywhere: a failed update returns from `PublishPending`, and `main` does
not wait for the worker.

### `BalanceCache` - the row and its copy in Redis

One wallet (keys are per wallet). A balance is represented by the number of
movements committed on the wallet when it was written: the properties ask which
of two balances is newer, never how much. Movements commit and then refresh the
copy in a separate step; `GetBalance` reads the row, looks the copy up, and
primes it on a miss. Redis may go down and come back, keys expire, and any
request may be cut off anywhere.

### `AtomicLedger` and `LedgerRefinement` - what the ledger implements

`AtomicLedger` is the abstract specification: balances, a history of
transactions, the keys that were used, and requests that take effect in one step
(`Serve`), are answered from what their key did before (`Replay`), or are refused
for a reason that is true at that moment (`Refuse`). It has no locks, no copies,
no order of checks, and balances are unlimited integers.

`LedgerRefinement` maps `WalletLedger` to it while no wallet is patched
(`Patchable = {}`; with status updates the lost update of finding 1 breaks it) and
totals stay in range: the balance column is the balance, the idempotency records
are the used keys, a handler is "busy" from the request to the commit and "done"
until it answers. `Post` maps to `Serve`; every step before it is a stutter or a
refusal. That this is a refinement is linearizability of the three operations.

### `WalletEvents` - ledger and outbox composed

`WalletEvents` extends `WalletLedger` and instantiates `OutboxRelay`. The only new
steps are `InsertEvent`, the insert of the outbox row inside the open transaction,
which takes `created_at`, and `Commit`, which is `Post` and the relay's `Commit` in
one. All other steps are the ledger's own or a worker's; a rollback takes the
inserted event away. `OutboxRelay` is instantiated with an empty `SharedLock`, so it
accepts any order of commits; that the order is right after all is `StampedInOrder`,
which is what `OutboxRelay` alone takes as given.

### `Pagination` and `Accounts` - users, their wallets, seeding, listing

`Pagination` holds `NormalizePagination`, the offset (with the wrap-around of Go's
int) and the page as a set of rows ranked newest first.

`Accounts` has the rows of `users`, soft-deleted ones included, the wallet of each
user (none, its own, the system wallet), and processes that start up, seed, serve
one request at a time, and crash. A request that reads and then writes is two
actions; `Abort` ends it between them.

| Action | Code |
|---|---|
| `StartUp`, `SeedUser`, `SeedWallet`, `Crash` | `main` and `SeedSystemAccounts` |
| `CreateUser` | `UserService.Create`: one INSERT under the unique indexes |
| `ReadUser`, `SaveUser` | `UserService.Update` |
| `ReadForDelete`, `MarkDeleted` | `UserService.Delete` |
| `ReadOwner`, `InsertWallet` | `WalletService.Create` |
| `StartWalk`, `ListPage` | a client that calls `GET /users` page after page |

`SaveUser` follows what gorm's `Save` (v1.30, `finisher_api.go`, outside this
repository) does: `UPDATE ... WHERE deleted_at IS NULL`, and if no row matches,
`INSERT ... ON CONFLICT (id) DO UPDATE` of every column. On a row that was deleted
after the read, this brings the user back with `deleted_at` NULL.

Simplifications: the email stands for the phone number too (both are required and
unique); names are left out; a user's id is its place in `created_at` order, and
rows may become visible in another order; `created_at` values are distinct; `total`
of a page, a second query, is left out.

### `MCWalletLedger`, `MCOutboxRelay`, `MCBalanceCache`, `MCWalletEvents`, `MCAccounts`

Constants for TLC, and in the first the properties of the three `violation` runs
of the ledger.

### The proof modules

Each extends the module it is about; section 4 lists the theorems, section 5 the
arguments.

| Module | Proves about |
|---|---|
| `WalletLedgerProofs` | rows, locks and balances of `WalletLedger` |
| `WalletHistoryProofs` | transactions, idempotency records, answers and waiting in `WalletLedger` |
| `LedgerRefinementProofs` | `WalletLedger` as an implementation of `AtomicLedger` |
| `OutboxRelayProofs`, `BalanceCacheProofs` | the module of that name |
| `WalletEventsProofs` | the composition; it uses the ledger's proofs by EXTENDS and the relay's by INSTANCE |
| `AccountsProofs` | `Accounts`, and the pages of `Pagination` |
| `InductionProofs` | what needs induction over data: least counterexamples, sums over finite sets |

## 3. Runs

| Run | Question | Bounds |
|---|---|---|
| `movements` | do locks, checks and status updates keep the balances right? | 2 handlers, system wallet and 2 users' wallets, a request for a wallet that does not exist, 3 movements of amount 1, `MaxMinor` = 2 |
| `history` | reversals and idempotency keys under concurrency; is the ledger linearizable? | 2 handlers, 1 user's wallet, 1 key, 4 movements |
| `liveness` | is every request answered? | 2 handlers, 1 key, patches of the system wallet, 2 movements |
| `outbox_one_worker` | is every event published, and finally? | 3 events, the second undecodable, batch of 2 |
| `outbox_two_workers` | is anything lost or out of order? | 2 workers, 4 events, the third undecodable, batch of 2 |
| `cache_requests` | what may be cached and returned; does it converge? | 3 handlers, 2 commits |
| `accounts` | start-up, crashes, users, wallet creation, listing | 2 processes, the system user and 3 others, two contents of requests (one without external reference), limits 1 and 2 |
| `events` | does the stream tell what the ledger did? | 2 handlers, 1 user's wallet, 3 movements, 3 inserts of events (so that one may be rolled back), no status updates, no keys, 1 worker, batch of 2 |
| `lost_update`, `suspended`, `overflow`, `cache_stale` | statements of the repository that the code does not keep | smallest instance that shows it |

Why the bounds are enough. Every hazard of the ledger is between two handlers:
a third adds no new kind of wait since locks are exclusive and `OrderedWaits` is
about pairs. Three wallets give opposite transfers, a wallet shared by two
movements and one that is not; two are enough for `history`, where the order of
wallet locks plays no part. `MaxMinor` = 2 with three movements of 1 takes totals
past the largest int64, so both sides of `InRange` occur in `movements`. Four
movements allow a top-up, a transfer, and a reversal of each. Three events and
batches of two let an undecodable event share a batch, block its head, and be
left behind by a later batch. Two commits are what two refreshes in the wrong
order need, with a third handler that reads. In `accounts`, two processes give every
pair of requests and a start-up beside a serving process; three users besides the
system's leave gaps in `created_at` order to be filled later, and limit 1 makes
every row a page of its own. In `events`, two events and a late one are what an
overtaking needs; any two movements of it share a wallet, as in the program all
top-ups do.

The run `movements` has no idempotency keys, so its `OrderedWaits` is about waits
for wallets and originals; waits for keys occur in `history` and `liveness`, and the
theorem `WaitingIsOrdered` covers all of them.

`CHECK_DEADLOCK FALSE` in the ledger and outbox runs: when the bound on movements
is reached, or every event is published, clients may simply send nothing more.
The deadlock the program could really have, handlers waiting for each other, is
the subject of `OrderedWaits` and of `EveryRequestAnswered`.

### Properties

`WalletLedger`:
* `FreshCopies` - the row a movement computes with is the committed row until it
  commits. This is the lemma behind everything else: it says that FOR UPDATE plus
  recomputation after the lock is enough although `Save` writes whole rows.
* `LedgerExact` - the balance is the sum of the entries, for wallets that are never
  patched. For patched wallets it is false: finding `lost_update`.
* `NonNegative` - no user's wallet is overdrawn, *including* patched ones: a lost
  update restores a balance that was itself not negative.
* `OrderedWaits` - whoever waits for another handler waits at a place before any
  place the other can wait at: keys, then originals, then wallets by id.
* `ChecksHoldAtCommit` - the statuses a movement has checked still hold when it
  commits: the destination of a top-up and both ends of a transfer are active then.
  It says nothing of what the code does not check: the settlement wallet a top-up
  debits, and both ends of a reversal.
* `ReversedOnce`, `KeyedOnce`, `CreatedIsServed`, `RefusalsAreTrue`,
  `HistoryImmutable` - relations between transactions, idempotency records and the
  answers handlers gave.
* `EveryRequestAnswered` - liveness.

`OutboxRelay`: `AtLeastOnce`, `SkippedOnlyAfterFailure` with two workers;
`PublishedIsFinal` and `EveryEventPublished` with one. `PublishedIsFinal` is
false with two workers, by design of at-least-once delivery: `RecordFailure`
sets the status back without looking at it.

`BalanceCache`: `OnlyCommitted`, `CopyConverges`, `EveryRequestEnds`.

`LedgerRefinement`: `ImplementsAtomicLedger`, the refinement.

`WalletEvents`:
* `EventPerMovement` - committed events and committed transactions correspond one to
  one, whatever is rolled back.
* `StampedInOrder` - of two events that share a wallet the earlier `created_at` belongs
  to the earlier commit. It holds because the event is stamped under the row locks.
* `WalletOrder` - end to end: the stream has a wallet's movements in the order of
  their commits, unless a delivery failed.
* `StreamReplays` - with nothing pending, a consumer that adds up the stream, each
  event once, has the balance column of every wallet.

`Accounts`:
* `SystemWalletReady` - a process that serves has a settlement wallet, whatever
  start-ups were cut off and whatever was done to the system user.
* `DeletionSettles` - once a user is deleted and no request that found it before is
  under way, it is never back and never gets a wallet. Before that it may: `Update`
  brings it back and `WalletService.Create` makes a wallet for it.
* `WalkMissesNobody` - a client that lists all pages sees every user that was there when
  it started, unless one is deleted meanwhile.
* `TypeOK` - also says that a row holds the contents of one request as a whole.

### Fairness

* Ledger: strong fairness of each handler's own next step. Go runs every runnable
  goroutine, and PostgreSQL queues lock waiters, so a step that becomes possible
  again and again is taken. New requests and failures are never owed; requests
  may fail for ever.
* Outbox: the ticker makes `FetchPending` weakly fair. The steps on one event are
  strongly fair: the process may be stopped, and Redis or the database may refuse,
  any number of times, but not at that same point every time. Without it nothing
  can be promised, e.g. when each process is killed after fetching.
* Cache: weak fairness of each handler's own next step, and of expiry, since every
  Set carries a time to live (`BALANCE_CACHE_TTL` positive: `Load` does not check it, and
  with 0 a copy stays for ever, which is the mutant of `CopyConverges`). Nothing is owed by Redis, which may stay down.

### Findings

1. `lost_update`: `UpdateStatus` reads without a lock and saves all columns, so a
   status change that overlaps a movement undoes the movement's effect on the
   balance; the entries remain.
2. `suspended`: `Reverse` does not look at wallet statuses, although "suspended
   blocks money movement" (`internal/model/wallet.go:14`). The run shows a reversal.
   The same sentence does not hold of the settlement wallet either: `PATCH
   /wallets/:id/status` accepts its id, and `TopUp` looks at the status of the
   destination only (`internal/service/transaction_service.go:105`), so a top-up debits
   it while it is suspended or closed. With `Patchable = {0}` in that run's
   configuration TLC refutes the same property with a top-up. Top-ups from a suspended
   settlement wallet do commit in the run `liveness`, which patches it. Nor is a
   closed wallet blocked "permanently" (`internal/model/wallet.go:16`): `UpdateStatus`
   accepts every change of status, back to active included, and so does the model.
3. `overflow`: balances are added without an overflow check and amounts have no
   maximum; two large top-ups make a user's balance negative.
4. `cache_stale`: `GetBalance` prefers a copy that may be older than the row it has
   just read, though it says it returns the current balance.

What `Accounts` shows beside its properties, without a statement of the repository
it contradicts: a deleted user comes back when an `Update` that read it earlier is
saved later (`internal/service/user_service.go:101`); the email of a deleted user
can never be used again, since the unique indexes cover deleted rows; and deleting a
user while a client lists makes the client miss another one
(`internal/repository/user_repository.go:43`).

## 4. What TLC and what TLAPS show

A theorem below holds for every value of the constants that the module's named
assumption allows: any set of handlers, workers or processes, any wallets, amounts,
keys, limits and bounds. The last column gives what a theorem assumes beyond that.

| Theorem | States | Further hypothesis |
|---|---|---|
| **`WalletLedgerProofs`** | | |
| `TypeCorrect` | `Spec => []TypeOK` | |
| `RowsStayFresh` | `Spec => []FreshCopies` | |
| `NeverOverdrawn` | `Spec => []NonNegative` | |
| `BalancesMatchEntries` | `Spec => []LedgerExact` | |
| `StatusChecksHold` | `Spec => ChecksHoldAtCommit` | |
| **`WalletHistoryProofs`** | | |
| `KeysMoveMoneyOnce` | `Spec => []KeyedOnce` | |
| `ReversalsHappenOnce` | `Spec => []ReversedOnce` | |
| `CommittedRowsStay` | `Spec => HistoryImmutable` | |
| `CreatedAnswersAreServed` | `Spec => []CreatedIsServed` | |
| `ConflictsAreReal` | `Spec => []RefusalsAreTrue` | |
| `WaitingIsOrdered` | `Spec => []OrderedWaits` | |
| `NoCircularWait` | `Spec => []NoCircle`: no circle of waiting requests, of any length | |
| **`LedgerRefinementProofs`** | | |
| `MovementsAreAtomic` | `Spec /\ []AllInRange => ImplementsAtomicLedger` | `Patchable = {}` |
| **`OutboxRelayProofs`** | | |
| `RelayTypeCorrect` | `Spec => []TypeOK` | |
| `DeliveryAtLeastOnce` | `Spec => []AtLeastOnce` | |
| `OvertakenOnlyAfterFailure` | `Spec => []SkippedOnlyAfterFailure` | |
| `OneWorkerPublishesForGood` | `Spec => PublishedIsFinal` | at most one worker |
| **`BalanceCacheProofs`** | | |
| `CacheTypeCorrect` | `Spec => []TypeOK` | |
| `CopiesAreCommitted` | `Spec => []OnlyCommitted` | |
| **`WalletEventsProofs`** | | |
| `OneEventPerMovement` | `EventsSpec => []EventPerMovement` | |
| `StampsFollowCommits` | `EventsSpec => []StampedInOrder` | |
| `StreamFollowsCommits` | `EventsSpec => []WalletOrder` | |
| `StreamGivesBalances` | `EventsSpec => []StreamReplays` | |
| `LedgerInComposition` | `EventsSpec => Spec`, so that the ledger's theorems hold in it | |
| `RelayInComposition` | `EventsSpec => Relay!Spec` | |
| **`AccountsProofs`** | | |
| `AccountsTypeCorrect` | `Spec => []TypeOK` | |
| `SystemWalletIsReady` | `Spec => []SystemWalletReady` | |
| `DeletionsAreFinal` | `Spec => DeletionSettles` | |
| `WalksMissNobody` | `Spec => []WalkMissesNobody` | no more users than an int counts |
| `PagesAreShort` | a page has at most `NormalLimit(limit)` and at most `MaxLimit` rows, for every page number | |
| `EveryRowOnOnePage` | every row of a table that does not change is on one page, and on no other whose offset fits an int | no more rows than an int counts |

Why the hypotheses. `MovementsAreAtomic` excludes status updates since with them the
statement is false (finding `lost_update`), and totals outside an int64 since the
abstract balances are unlimited integers (finding `overflow`). In the run `history`
no wallet is patched and the totals of all its states are in range. With two workers
`PublishedIsFinal` is false, as `RecordFailure` resets a row another worker has
marked. An offset that wraps around (`int` is 64 bits) makes page numbers reach the
first rows again; a table with as many rows as an int counts does not exist.

Only model-checked:
* `EveryRequestAnswered`, `EveryEventPublished`, `CopyConverges` and
  `EveryRequestEnds`: liveness under fairness, and the ENABLED it is made of, are
  out of the prover's reach. `NoCircularWait` is the part of
  `EveryRequestAnswered` that is safety: there is always a request whose wait ends.
* The counterexamples of the four findings, which are single behaviours.

## 5. The proofs

Hardly any property is inductive. For each component the proof finds a strengthening,
built in layers that use the ones before, and shows it action by action.

### Rows and balances (`WalletLedgerProofs`)

The invariant is `TypeInv /\ LockInv /\ BalanceInv`.

* `TypeInv` is `TypeOK` with `Control`, which ties a handler's `pc` to the kind of
  its request (a handler in "save" serves a patch of an existing wallet, one in
  "wallets" a movement, a reversal past its first lock names a transaction that
  exists). Without it the fields an action reads from `req` need not exist.
  `WrapType` shows that one wrap-around suffices to come back to int64.
* `LockInv` is `OneHolder` (two handlers never hold one wallet row), `FreshCopies`,
  and `NothingKept` (copies are empty outside a transaction and outside a status
  update). `Post` and `SaveWallet` are the only writers of `wallets`; the first
  writes rows its handler holds, the second one nobody holds, so nobody else's
  copy goes stale.
* `BalanceInv` is `Sound` for every wallet whose totals are in range - its balance
  lies between minus its debits and its credits, is not negative unless it is the
  system wallet's, and is the difference of the totals if it is never patched -
  and `SoundOld`, the first two for the row a status update has in memory, which
  is what lets `NonNegative` survive the lost update. The two bounds are there so
  that the next addition does not wrap. `WrapExact` shows that within
  the range of the column the wrap-around is the identity.

`ChecksHoldAtCommit` is an action property and follows from `FreshCopies` and the
guards of `Post`: the statuses checked in `copy` are the committed ones.

### Histories (`WalletHistoryProofs`)

* `KeyInv`: a key in flight has one holder and no committed record (`KeyHeld`). So
  the handler that commits with a key is alone in writing its record, and
  `KeyedOnce` passes from one commit to the next.
* `ReversalInv`: a transaction being reversed has one handler that does so, is still
  "completed" and is no reversal itself (`OriginalHeld`), and rows that compensate
  nothing are related to nothing. The status is read under the lock and only the
  holder changes it, so the check cannot go stale before the commit.
* `ServedInv` carries what an answer claims from where it arises: from the commit
  to the 201 (`ResponsesServed`), or from the record a replay reads
  (`RecordsServed`). `ServesForEver` says that later steps do not take it back.
* `RefusedInv`: the refusals that speak of keys are given to movements only.
* `LockOrder`: whoever holds a wallet row has only later rows to lock. With it each
  wait leads to a later place. `NoCircularWait` follows from that alone: along a
  circle the places would increase for ever, and the least index at which
  they do not (`LeastNatural`) is a contradiction.

### The refinement (`LedgerRefinementProofs`)

`MappedInv` is all of the above with `Unpatched` (active wallets, no self-transfer
past its check). There is one lemma per kind of step: the steps before the commit
leave the mapped variables unchanged, the refusals map to `Refuse` with a reason that
holds (for missing funds because the copies are fresh), `ReplayResponse` to
`Replay`, `Post` to `Serve` - where both balances are in range after the step, so
that the wrapped sums are the sums - and `Respond` and
`Fail` to `Confirm` and `Fail`. `AllInRange` is used in the state after the
step as well, which is why it is `[]AllInRange` that is assumed.

### The outbox (`OutboxRelayProofs`)

`RelayInv` adds to `AtLeastOnce`: a batch holds committed events, what a worker marks
it has delivered (`Fetched`); an older event of the same wallet is out, has failed, or
is in the batch too (`InTurn`, by `BatchIsOldest`: a batch has every pending event
older than one of its own); and the property for every pair (`Skipped`).
What keeps both when a late event becomes visible is `SharedLock`: by its guard,
`Commit` never follows that of a later event of the same wallet.

### The composition (`WalletEventsProofs`)

`EventsInv` joins `TypeInv`, `LockInv` and `RelayInv` with `StampInv`: a handler that
has inserted its event has passed every check and holds both wallets (`Stamped`), so
no event of these wallets was committed with a later stamp (`LockedSince`), hence
`StampedInOrder` after the commit. The relay's theorems are used through
`INSTANCE OutboxRelayProofs`; since `SharedLock` is empty there, the order is proved
again from the shared wallets (`RelayOrder`), with `StampedInOrder` in the place of
the assumption. That `WalletEvents` implements both of its parts is a theorem each.
`StreamReplays` needs `Totals`: the total of a wallet's entries is the sum of what
its committed events moved.

### Cache, users, pages

`CacheInv` says that nothing in circulation is newer than the row. `SeedInv`
says that whoever is about to insert the settlement wallet finds its user, that
there is no user at all before the system user, and that who deleted it finds the
wallet in place. `DeletionSettles` needs no invariant of its own: no request has the
user in memory, and none can read it any more. A walk (`WalkInv`) owes only users
whose `Rank`, their place in the listing, is beyond the pages already read;
new rows only increase it, and a page takes a whole interval of ranks. `EveryRowOnOnePage`
comes from the same ranks.

### Induction over data

The library's induction rules take an operator as a parameter, which the
provers cannot instantiate. `InductionProofs` therefore argues by a least counterexample
(`LeastNatural`, from the library's well-foundedness of `<`). That gives the
circle of waits, and the sums over finite sets: that the function `MapThenSumSet`
recurses on exists (`SumExists`), does not depend on the set it is taken over
(`SumsAgree`), and grows by one value with one element, in whatever order CHOOSE
takes them (`SumInsert`).

### What the proofs changed in the models

`AccountsAssumption` now says that profiles are records of two strings and a status:
without it nothing kept a profile from being the value that means "no user".

## 6. Not modelled

* Filters and paging of the list of transactions: rows are never deleted, and the
  paging is that of the users; `total`, which a second query counts.
* The page a client gets for a huge page number: `Offset` wraps around as the code
  does, and no statement of the repository says what should happen.
* Wallet creation while movements run: the ledger's wallets exist from the start.
  Creating one inserts a row no movement can hold.
* `UpdateStatus` as a writer of the row in `BalanceCache`. It writes an old balance
  back in `WalletLedger` (finding `lost_update`) and never touches the copy; in
  `BalanceCache` a balance is the number of movements committed, which only grows, and
  `OnlyCommitted` and `CopyConverges` are about movements and reads.
* HTTP parsing, JSON, routing, middleware, configuration: no state; what they let
  through is the set of requests, what they refuse never reaches a service.
* `Get` and `List`: single reads that change nothing.
* The time to live of idempotency records: nothing in the code reads `ExpiresAt`.
* The SQLite database of the tests (`internal/testutil`): it runs over a single
  connection, so no two transactions of a test ever overlap, and none of the
  interleavings modelled here can occur in it.

## 7. Plan

Done: `WalletLedger`, `OutboxRelay`, `BalanceCache`, the abstract `AtomicLedger` with
its refinement, the composition `WalletEvents`, `Pagination` and `Accounts`; and the
theorems of section 4, one for every safety property of a passing run.

Left: whatever a change of the code brings. The order of work is to change the
definition, run TLC, and then repair the step of the proof that names the changed
action.
