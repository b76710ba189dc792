---- MODULE BalanceCache ----
(****************************************************************************)
(* The balance of one wallet in PostgreSQL and its copy in Redis            *)
(* (internal/cache): movements refresh the copy after their commit          *)
(* (touchedWallets), GetBalance reads the row first, prefers the copy, and  *)
(* fills it on a miss. Redis keys are per wallet, so wallets do not mix.    *)
(*                                                                          *)
(* A balance is represented by the number of movements committed on the     *)
(* wallet when it was written: what matters is which of two is newer.       *)
(****************************************************************************)
EXTENDS Integers

CONSTANTS
    Handlers,     \* the goroutines that serve requests
    NoEntry,      \* the key is not in Redis
    MaxCommits    \* bound: movements committed on the wallet

ASSUME CacheAssumption ==
    /\ MaxCommits \in Nat
    /\ NoEntry \notin Nat

VARIABLES
    balance,   \* the committed balance_cached_minor
    cache,     \* the value of wallet:balance:<id>, NoEntry if none
    redis,     \* whether Redis answers
    pc,        \* what each handler does next
    seen,      \* the balance it has in memory
    answer     \* what its GetBalance returns

vars == <<balance, cache, redis, pc, seen, answer>>

Init ==
    /\ balance = 0
    /\ cache = NoEntry
    /\ redis \in {"up", "down"}
    /\ pc = [h \in Handlers |-> "idle"]
    /\ seen = [h \in Handlers |-> 0]
    /\ answer = [h \in Handlers |-> 0]

\* The request is over.
Done(h) ==
    /\ pc' = [pc EXCEPT ![h] = "idle"]
    /\ seen' = [seen EXCEPT ![h] = 0]
    /\ answer' = [answer EXCEPT ![h] = 0]

\* cacheStore.Set: the value is stored when Redis answers.
Stored(value) == IF redis = "up" THEN value ELSE cache

----
\* A movement. Everything before the commit is in WalletLedger.

BeginMovement(h) ==
    /\ pc[h] = "idle"
    /\ pc' = [pc EXCEPT ![h] = "commit"]
    /\ UNCHANGED <<balance, cache, redis, seen, answer>>

\* Mutant: the copy is refreshed inside the transaction, which may still roll
\* back.
Commit_AfterRefresh(h) ==
    /\ pc[h] = "commit"
    /\ balance < MaxCommits
    /\ cache' = Stored(balance + 1)
    /\ balance' \in {balance, balance + 1}
    /\ seen' = [seen EXCEPT ![h] = balance']
    /\ pc' = [pc EXCEPT ![h] = "touch"]
    /\ UNCHANGED <<redis, answer>>

Commit(h) ==
    /\ pc[h] = "commit"
    /\ balance < MaxCommits
    /\ balance' = balance + 1
    /\ seen' = [seen EXCEPT ![h] = balance + 1]
    /\ pc' = [pc EXCEPT ![h] = "touch"]
    /\ UNCHANGED <<cache, redis, answer>>

\* The movement is refused, or its transaction fails.
Refuse(h) ==
    /\ pc[h] = "commit"
    /\ Done(h)
    /\ UNCHANGED <<balance, cache, redis>>

\* Mutant: the refresh insists until Redis takes it.
Touch_UntilStored(h) ==
    /\ pc[h] = "touch"
    /\ redis = "up"
    /\ cache' = seen[h]
    /\ Done(h)
    /\ UNCHANGED <<balance, redis>>

\* touchedWallets: an error is logged and the request succeeds all the same.
Touch(h) ==
    /\ pc[h] = "touch"
    /\ cache' = Stored(seen[h])
    /\ Done(h)
    /\ UNCHANGED <<balance, redis>>

----
\* GetBalance.

\* The row is read, without a lock, before the copy is looked up.
ReadRow(h) ==
    /\ pc[h] = "idle"
    /\ seen' = [seen EXCEPT ![h] = balance]
    /\ pc' = [pc EXCEPT ![h] = "lookup"]
    /\ UNCHANGED <<balance, cache, redis, answer>>

\* Mutant: a missing key (redis.Nil) is taken for a value.
Hit_Nil(h) ==
    /\ pc[h] = "lookup"
    /\ redis = "up"
    /\ answer' = [answer EXCEPT ![h] = cache]
    /\ pc' = [pc EXCEPT ![h] = "answer"]
    /\ UNCHANGED <<balance, cache, redis, seen>>

Hit(h) ==
    /\ pc[h] = "lookup"
    /\ redis = "up" /\ cache # NoEntry
    /\ answer' = [answer EXCEPT ![h] = cache]
    /\ pc' = [pc EXCEPT ![h] = "answer"]
    /\ UNCHANGED <<balance, cache, redis, seen>>

\* There is no copy, or Redis returns an error.
Miss(h) ==
    /\ pc[h] = "lookup"
    /\ redis = "up" => cache = NoEntry
    /\ pc' = [pc EXCEPT ![h] = "prime"]
    /\ UNCHANGED <<balance, cache, redis, seen, answer>>

\* The answer is the row as it was read, whatever the Set returns.
Prime(h) ==
    /\ pc[h] = "prime"
    /\ cache' = Stored(seen[h])
    /\ answer' = [answer EXCEPT ![h] = seen[h]]
    /\ pc' = [pc EXCEPT ![h] = "answer"]
    /\ UNCHANGED <<balance, redis, seen>>

Respond(h) ==
    /\ pc[h] = "answer"
    /\ Done(h)
    /\ UNCHANGED <<balance, cache, redis>>

\* The process dies between two steps of a request.
Crash(h) ==
    /\ pc[h] # "idle"
    /\ Done(h)
    /\ UNCHANGED <<balance, cache, redis>>

----
\* Redis.

\* Mutant: copies have no time to live.
Expire_Never == FALSE /\ UNCHANGED vars

\* The copy's time to live is over, or Redis evicts or loses it.
Expire ==
    /\ cache # NoEntry
    /\ cache' = NoEntry
    /\ UNCHANGED <<balance, redis, pc, seen, answer>>

Outage ==
    /\ redis' = IF redis = "up" THEN "down" ELSE "up"
    /\ UNCHANGED <<balance, cache, pc, seen, answer>>

Step(h) ==
    \/ Commit(h)
    \/ Refuse(h)
    \/ Touch(h)
    \/ Hit(h)
    \/ Miss(h)
    \/ Prime(h)
    \/ Respond(h)

Next ==
    \/ \E h \in Handlers :
         \/ BeginMovement(h)
         \/ ReadRow(h)
         \/ Step(h)
         \/ Crash(h)
    \/ Expire
    \/ Outage

Spec == Init /\ [][Next]_vars

\* Requests run to their end, and a copy that is not written again expires.
\* Nothing is owed by Redis: it may stay down forever.
Fairness == (\A h \in Handlers : WF_vars(Step(h))) /\ WF_vars(Expire)

FairSpec == Spec /\ Fairness

----
\* The row, the copy and the handlers' memory are balances.
TypeOK ==
    /\ balance \in 0..MaxCommits
    /\ cache \in 0..MaxCommits \cup {NoEntry}
    /\ redis \in {"up", "down"}
    /\ pc \in [Handlers -> {"idle", "commit", "touch", "lookup", "prime",
                            "answer"}]
    /\ seen \in [Handlers -> 0..MaxCommits]
    /\ answer \in [Handlers -> 0..MaxCommits]

\* The copy, and every balance returned, is one that was committed: a refresh
\* never publishes a balance that a rollback takes back.
OnlyCommitted ==
    /\ cache # NoEntry => cache <= balance
    /\ \A h \in Handlers : pc[h] = "answer" => answer[h] <= balance

\* Once no movement commits any more, a stale copy is gone within its time to
\* live and is not brought back by requests that were under way: from then on
\* a copy is either the balance or missing.
CopyConverges == <>[](cache \in {NoEntry, balance})

\* Requests end although Redis may be down for good: neither movements nor
\* balance reads depend on it.
EveryRequestEnds == \A h \in Handlers : pc[h] # "idle" ~> pc[h] = "idle"

\* What the comment of GetBalance says, "the current wallet balance": at
\* least the balance of the row it has just read.
ReturnsCurrentBalance ==
    \A h \in Handlers : pc[h] = "answer" => answer[h] >= seen[h]
====
