---- MODULE WalletEvents ----
(****************************************************************************)
(* WalletLedger and OutboxRelay composed: each movement inserts an outbox   *)
(* event in its own transaction, and the workers relay what is committed.   *)
(*                                                                          *)
(* OutboxRelay lets events commit in any order and takes from its constant  *)
(* SharedLock that those of one wallet do not overtake each other. Here     *)
(* SharedLock is empty, and the order is what the row locks make it.        *)
(****************************************************************************)
EXTENDS WalletLedger

CONSTANTS
    Workers,    \* one per process of the service
    MaxEvents,  \* bound: events inserted, rolled back or not
    BatchSize   \* OUTBOX_BATCH_SIZE

ASSUME EventsAssumption == MaxEvents \in Nat /\ BatchSize \in Nat \ {0}

VARIABLES
    clock,     \* created_at of the newest event
    inserted,  \* created_at of the event each handler has inserted, or 0
    movement,  \* the transaction in each committed event's payload, or 0
    status, failed, stream, workerPc, batch  \* the variables of OutboxRelay

Events == 1..MaxEvents

Relay == INSTANCE OutboxRelay WITH
    SharedLock <- {}, Undecodable <- {}, pc <- workerPc

relayVars == <<status, failed, stream, workerPc, batch>>
eventVars == <<clock, inserted, movement>>

----
EventsInit ==
    /\ Init
    /\ Relay!Init
    /\ clock = 0
    /\ inserted = [h \in Handlers |-> 0]
    /\ movement = [e \in Events |-> 0]

\* Mutant: the event is built before the wallets are locked.
MayInsert_BeforeLocks(h) == pc[h] = "wallets"

\* The last write of the closure but one: every check is passed.
MayInsert(h) ==
    pc[h] = "wallets" /\ Unlocked(h) = {} /\ Verdict(h) = "created"

\* Mutant: the insert does not use the transaction's connection.
InsertEvent_OutsideTransaction(h) ==
    /\ MayInsert(h)
    /\ inserted[h] = 0
    /\ clock < MaxEvents
    /\ clock' = clock + 1
    /\ inserted' = [inserted EXCEPT ![h] = clock + 1]
    /\ Relay!Commit(clock + 1)
    /\ UNCHANGED <<vars, movement>>

\* NewOutboxEvent and OutboxRepository.Create, which sets created_at.
InsertEvent(h) ==
    /\ MayInsert(h)
    /\ inserted[h] = 0
    /\ clock < MaxEvents
    /\ clock' = clock + 1
    /\ inserted' = [inserted EXCEPT ![h] = clock + 1]
    /\ UNCHANGED <<vars, relayVars, movement>>

\* The movement, and with it its event.
Commit(h) ==
    /\ inserted[h] # 0
    /\ Post(h)
    /\ Relay!Commit(inserted[h])
    /\ movement' = [movement EXCEPT ![inserted[h]] = Len(transactions')]
    /\ inserted' = [inserted EXCEPT ![h] = 0]
    /\ UNCHANGED clock

\* Any other step of the handler; a rollback takes the event away.
Other(h) ==
    /\ \/ SubmitMovement(h)
       \/ SubmitPatch(h)
       \/ Step(h) /\ ~Post(h)
       \/ Fail(h)
    /\ inserted' = IF pc'[h] = "idle" THEN [inserted EXCEPT ![h] = 0]
                   ELSE inserted
    /\ UNCHANGED <<relayVars, clock, movement>>

\* A step of a worker.
RelayStep ==
    /\ \E w \in Workers : Relay!WorkerStep(w)
    /\ UNCHANGED <<vars, eventVars>>

EventsNext ==
    \/ \E h \in Handlers : InsertEvent(h) \/ Commit(h) \/ Other(h)
    \/ RelayStep

EventsSpec == EventsInit /\ [][EventsNext]_<<vars, eventVars, relayVars>>

----
Committed == {e \in Events : status[e] # "absent"}

\* Every committed movement has one event, and every committed event one
\* movement, whatever fails and is rolled back: a worker never publishes what
\* did not happen, and nothing happens that it is not told of.
EventPerMovement ==
    /\ \A e \in Events : e \in Committed <=> movement[e] # 0
    /\ \A i \in DOMAIN transactions :
         Cardinality({e \in Events : movement[e] = i}) = 1
    /\ \A e \in Committed : movement[e] \in DOMAIN transactions

Touches(e, w) ==
    LET t == transactions[movement[e]] IN w \in {t.source, t.destination}
ShareWallet(e, f) == \E w \in Wallets : Touches(e, w) /\ Touches(f, w)

\* The events of a wallet have the order of its movements: what OutboxRelay
\* assumes of SharedLock follows from the row locks, under which created_at is
\* taken.
StampedInOrder ==
    \A e, f \in Committed :
        e < f /\ ShareWallet(e, f) => movement[e] < movement[f]

\* Consumers learn of a wallet's movements in the order of their commits,
\* unless a delivery failed.
WalletOrder ==
    \A e \in Committed, f \in Relay!Delivered :
        (/\ movement[e] < movement[f]
         /\ ShareWallet(e, f)
         /\ e \notin Relay!Delivered)
            => e \in failed

Moved(e, w) ==
    LET t == transactions[movement[e]]
    IN (IF t.destination = w THEN t.amount ELSE 0)
       - (IF t.source = w THEN t.amount ELSE 0)

F == INSTANCE FiniteSetsExt
Replayed(w) ==
    LET net(e) == Moved(e, w) IN F!MapThenSumSet(net, Relay!Delivered)

\* Once nothing is pending, adding up the stream, each event_id once, gives the
\* balance column of every wallet.
StreamReplays ==
    Relay!Pending = {} =>
        \A w \in Wallets \ Patchable :
            InRange(w) => wallets[w].balance = Replayed(w)
====
