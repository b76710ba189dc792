---- MODULE WalletEventsProofs ----
(****************************************************************************)
(* Proofs about WalletEvents: what the row locks and the relay promise      *)
(* together.                                                                *)
(****************************************************************************)
EXTENDS WalletEvents, WalletHistoryProofs

----
\* The wallets of a committed event, and of the movement a handler is about to
\* post.
Ends(e) ==
    {transactions[movement[e]].source, transactions[movement[e]].destination}
EndsOf(h) == {Movement(h).from, Movement(h).to}

\* A handler that has inserted its event has passed every check and holds both
\* wallets; no stamp is later than the clock.
Stamped ==
    /\ clock \in 0..MaxEvents
    /\ inserted \in [Handlers -> 0..MaxEvents]
    /\ movement \in [Events -> Nat]
    /\ \A h \in Handlers :
         inserted[h] # 0 => inserted[h] <= clock /\ MayInsert(h)
    /\ \A e \in Committed : e <= clock

\* What was stamped after the event of a handler in flight and is committed
\* already is about other wallets.
LockedSince ==
    \A h \in Handlers, f \in Committed :
        inserted[h] # 0 /\ inserted[h] < f => Ends(f) \cap EndsOf(h) = {}

\* OutboxRelay's InTurn and Skipped, for events that share a wallet.
WalletsInTurn ==
    \A w \in Workers : \A e \in Committed, f \in batch[w] :
        e < f /\ ShareWallet(e, f)
            => e \in Relay!Delivered \cup failed \cup batch[w]
WalletsSkipped ==
    \A e \in Committed, f \in Relay!Delivered :
        e < f /\ ShareWallet(e, f) => e \in Relay!Delivered \cup failed

StampInv == Stamped /\ EventPerMovement /\ LockedSince /\ StampedInOrder
RelayOrder == WalletsInTurn /\ WalletsSkipped

----
\* The theorems about the relay.
RP == INSTANCE OutboxRelayProofs WITH
    SharedLock <- {}, Undecodable <- {}, pc <- workerPc

\* What they assume of the events holds here.
LEMMA EventsFinite ==
    /\ Events \subseteq Nat
    /\ IsFiniteSet(Events)
    /\ RP!IsFiniteSet(Events)
    /\ {} \subseteq Events \X Events
    /\ {} \subseteq Events
    /\ BatchSize \in Nat \ {0}
<1>1. Events \subseteq Nat /\ BatchSize \in Nat \ {0}
      BY EventsAssumption DEF Events
<1>2. IsFiniteSet(Events)
      BY EventsAssumption, FS_Interval DEF Events
<1>3. RP!IsFiniteSet(Events) <=> IsFiniteSet(Events)
      BY DEF RP!IsFiniteSet, IsFiniteSet
<1>4. QED  BY <1>1, <1>2, <1>3

LEMMA SameRelayInit == Relay!Init => RP!Init
    BY DEF Relay!Init, RP!Init

LEMMA SameCardinality ==
    ASSUME NEW S
    PROVE  Relay!Cardinality(S) = Cardinality(S) /\ RP!Cardinality(S) = Cardinality(S)
    BY DEF Relay!Cardinality, RP!Cardinality, Cardinality

LEMMA SameRelayCommit ==
    ASSUME NEW e \in Events, Relay!Commit(e)
    PROVE  RP!Commit(e)
    BY DEF Relay!Commit, RP!Commit

LEMMA SameNextBatch == Relay!NextBatch = RP!NextBatch
    BY SameCardinality DEF Relay!NextBatch, RP!NextBatch, Relay!Pending, RP!Pending

LEMMA SameRelayStep ==
    ASSUME NEW w \in Workers, Relay!WorkerStep(w)
    PROVE  RP!WorkerStep(w)
<1>1. Relay!FetchPending(w) => RP!FetchPending(w)
      BY SameNextBatch DEF Relay!FetchPending, RP!FetchPending
<1>2. Relay!RejectPayload(w) => RP!RejectPayload(w)
      BY DEF Relay!RejectPayload, RP!RejectPayload, Relay!Current, RP!Current
<1>3. ASSUME NEW e \in Events
      PROVE  /\ Relay!Publish(w, e) => RP!Publish(w, e)
             /\ Relay!PublishFails(w, e) => RP!PublishFails(w, e)
             /\ Relay!RecordFailure(w, e) => RP!RecordFailure(w, e)
             /\ Relay!MarkPublished(w, e) => RP!MarkPublished(w, e)
      BY DEF Relay!Publish, RP!Publish, Relay!PublishFails, RP!PublishFails,
             Relay!RecordFailure, RP!RecordFailure, Relay!MarkPublished,
             RP!MarkPublished, Relay!Appended, RP!Appended, Relay!Delivered,
             RP!Delivered, Relay!Current, RP!Current, Relay!Continue,
             RP!Continue
<1>4. Relay!Stop(w) => RP!Stop(w)
      BY DEF Relay!Stop, RP!Stop, Relay!Abandon, RP!Abandon
<1>5. QED  BY <1>1, <1>2, <1>3, <1>4 DEF Relay!WorkerStep, RP!WorkerStep

LEMMA RelayInvKept ==
    ASSUME RP!RelayInv, 
           \/ \E e \in Events : Relay!Commit(e)
           \/ \E w \in Workers : Relay!WorkerStep(w)
           \/ UNCHANGED relayVars
    PROVE  RP!RelayInv'
<1>1. RP!Next \/ UNCHANGED RP!vars
      BY SameRelayCommit, SameRelayStep DEF RP!Next, RP!vars, relayVars
<1>2. QED  BY <1>1, EventsFinite, RP!RelayInvNext

----
\* What a step is to each of the two parts.

LEMMA OtherIsNotPost ==
    ASSUME TypeInv, NEW h \in Handlers, Other(h)
    PROVE  Acts(h) /\ ~Post(h) /\ UNCHANGED transactions
<1>1. Acts(h)
      BY DEF Other, Acts
<1>2. ~Post(h)
  <2>1. CASE SubmitMovement(h) \/ SubmitPatch(h)
        BY <2>1 DEF SubmitMovement, SubmitPatch, Post
  <2>2. CASE Fail(h)
    <3>1. pc'[h] = "idle"
          BY <2>2 DEF Fail, Answer, TypeInv, TypeOK
    <3>2. Post(h) => pc'[h] = "respond"
          BY DEF Post, TypeInv, TypeOK
    <3>3. QED  BY <3>1, <3>2
  <2>3. QED  BY <2>1, <2>2 DEF Other
<1>3. QED  BY <1>1, <1>2, OneHandlerMoves DEF Acts

LEMMA EventsSteps ==
    ASSUME Stamped, EventsNext
    PROVE  /\ [Next]_vars
           /\ \/ \E e \in Events : Relay!Commit(e)
              \/ \E w \in Workers : Relay!WorkerStep(w)
              \/ UNCHANGED relayVars
<1>1. ASSUME NEW h \in Handlers, Commit(h)
      PROVE  [Next]_vars /\ \E e \in Events : Relay!Commit(e)
  <2>1. inserted[h] \in Events
        BY <1>1, EventsAssumption DEF Commit, Stamped, Events
  <2>2. QED  BY <1>1, <2>1 DEF Commit, Next, Step
<1>2. ASSUME NEW h \in Handlers, InsertEvent(h) \/ Other(h)
      PROVE  [Next]_vars /\ UNCHANGED relayVars
      BY <1>2 DEF InsertEvent, Other, Next, Step
<1>3. CASE RelayStep
      BY <1>3 DEF RelayStep
<1>4. QED  BY <1>1, <1>2, <1>3 DEF EventsNext

\* A worker neither commits events nor makes them vanish.
LEMMA RelayKeepsCommitted ==
    ASSUME RP!RelayInv, NEW w \in Workers, Relay!WorkerStep(w)
    PROVE  Committed' = Committed
<1>1. RP!TypeOK
      BY DEF RP!RelayInv
<1>2. CASE UNCHANGED status
      BY <1>2 DEF Committed
<1>3. CASE \E e \in Events : RP!Handles(w, e)
  <2>1. PICK e \in Events : RP!Handles(w, e)
        BY <1>3
  <2>2. /\ status[e] # "absent" /\ status'[e] # "absent"
        /\ \A f \in Events \ {e} : status'[f] = status[f]
        BY <2>1, EventsFinite, RP!HandlesFrame
  <2>3. QED  BY <2>2 DEF Committed
<1>4. UNCHANGED status \/ \E e \in Events : RP!Handles(w, e)
      BY SameRelayStep DEF RP!WorkerStep, RP!Handles, RP!FetchPending,
         RP!RejectPayload, RP!Stop
<1>5. QED  BY <1>2, <1>3, <1>4

\* The steps of other handlers change nothing about a handler that has passed
\* its checks; its own next step ends its transaction.
LEMMA MayInsertStays ==
    ASSUME TypeInv, NEW h \in Handlers, Acts(h), NEW g \in Handlers,
           MayInsert(g)
    PROVE  /\ g # h => /\ MayInsert(g)'
                       /\ EndsOf(g)' = EndsOf(g)
           /\ g = h => Post(h) \/ pc'[h] = "idle"
<1>1. /\ pc[g] = "wallets" /\ Unlocked(g) = {} /\ Verdict(g) = "created"
      /\ req[g] \in Movements
      BY DEF MayInsert, TypeInv, Control
<1>2. ASSUME g # h PROVE MayInsert(g)' /\ EndsOf(g)' = EndsOf(g)
  <2>1. pc'[g] = pc[g] /\ req'[g] = req[g] /\ copy'[g] = copy[g]
        BY <1>2, OneHandlerMoves DEF Acts, Alone
  <2>2. /\ Movement(g)'.from = Movement(g).from
        /\ Movement(g)'.to = Movement(g).to
        /\ Movement(g)'.amount = Movement(g).amount
        BY <1>1, <2>1, MovementStays
  <2>3. Unlocked(g)' = Unlocked(g)
        BY <2>1, <2>2 DEF Unlocked
  <2>4. Found(g)' = Found(g) /\ Permitted(g)' = Permitted(g)
        /\ Funded(g)' = Funded(g)
        BY <2>1, <2>2 DEF Found, Permitted, Funded
  <2>5. Verdict(g)' = Verdict(g)
        BY <2>4 DEF Verdict
  <2>6. QED  BY <1>1, <2>1, <2>2, <2>3, <2>5 DEF MayInsert, EndsOf
<1>3. ASSUME g = h PROVE Post(h) \/ pc'[h] = "idle"
  <2>1. Post(h) \/ Fail(h)
    <3>1. ~RefuseMovement(h) /\ \A w \in Wallets : ~LockWallet(h, w)
          BY <1>1, <1>3 DEF RefuseMovement, LockWallet, NextWallet
    <3>2. QED
          BY <1>1, <1>3, <3>1 DEF Acts, Step, SubmitMovement, SubmitPatch,
             RefuseSelfTransfer, RefuseReusedKey, ReplayResponse,
             BeginTransaction, InsertKey, RefuseDuplicateKey, LockOriginal,
             RefuseOriginal, Respond, ReadWallet, RefusePatch, SaveWallet
  <2>2. Fail(h) => pc'[h] = "idle"
        BY DEF Fail, Answer, TypeInv, TypeOK
  <2>3. QED  BY <2>1, <2>2
<1>4. QED  BY <1>2, <1>3

\* Two handlers that have passed their checks move money of different wallets.
LEMMA EndsApart ==
    ASSUME TypeInv, LockInv, NEW g \in Handlers, NEW h \in Handlers, g # h,
           MayInsert(g), MayInsert(h)
    PROVE  EndsOf(g) \cap EndsOf(h) = {}
<1>1. ASSUME NEW f \in Handlers, MayInsert(f), NEW w \in EndsOf(f)
      PROVE  w \in Wallets /\ HoldsWallet(f, w)
  <2>1. /\ w \in Wallets /\ pc[f] = "wallets"
        /\ copy[f][w] \in Rows
        BY <1>1, MovementEnds DEF MayInsert, EndsOf
  <2>2. QED  BY <2>1, RowPresent DEF HoldsWallet
<1>2. QED  BY <1>1 DEF LockInv, OneHolder

----
\* The commit of a movement and of its event.
LEMMA CommitFacts ==
    ASSUME TypeInv, RP!RelayInv, Stamped, EventPerMovement,
           NEW h \in Handlers, Commit(h),
           NEW e0, e0 = inserted[h],
           NEW n, n = Len(transactions) + 1
    PROVE  /\ e0 \in Events /\ e0 \in Nat /\ e0 # 0 /\ e0 <= clock
           /\ e0 \notin Committed /\ Committed' = Committed \cup {e0}
           /\ Acts(h) /\ Post(h) /\ MayInsert(h)
           /\ n \in Nat \ {0}
           /\ DOMAIN transactions = 1..(n - 1)
           /\ DOMAIN transactions' = 1..n
           /\ movement'[e0] = n /\ movement[e0] = 0
           /\ movement' \in [Events -> Nat]
           /\ \A e \in Events \ {e0} : movement'[e] = movement[e]
           /\ Ends(e0)' = EndsOf(h)
           /\ \A e \in Committed : Ends(e)' = Ends(e) /\ movement[e] \in 1..(n - 1)
           /\ inserted' = [inserted EXCEPT ![h] = 0]
           /\ clock' = clock
<1>1. /\ e0 \in Events /\ e0 \in Nat /\ e0 # 0 /\ e0 <= clock
      /\ MayInsert(h)
      BY EventsAssumption DEF Stamped, Events, Commit
<1>2. /\ Post(h) /\ Relay!Commit(e0)
      /\ movement' = [movement EXCEPT ![e0] = Len(transactions')]
      /\ inserted' = [inserted EXCEPT ![h] = 0]
      /\ clock' = clock
      BY DEF Commit
<1>3. Acts(h)
      BY <1>2 DEF Acts, Step
<1>4. /\ status[e0] = "absent"
      /\ status' = [status EXCEPT ![e0] = "pending"]
      /\ status \in [Events -> {"absent", "pending", "published"}]
      BY <1>2 DEF Relay!Commit, RP!RelayInv, RP!TypeOK
<1>5. e0 \notin Committed /\ Committed' = Committed \cup {e0}
      BY <1>1, <1>4 DEF Committed
<1>6. /\ n \in Nat \ {0}
      /\ DOMAIN transactions = 1..(n - 1)
      /\ DOMAIN transactions' = 1..n
      /\ Len(transactions') = n
      /\ transactions'[n] = NewTransaction(h)
      BY <1>2, PostTransactions
<1>7. /\ movement' = [movement EXCEPT ![e0] = n]
      /\ movement \in [Events -> Nat]
      BY <1>2, <1>6 DEF Stamped
<1>8. /\ movement'[e0] = n
      /\ movement' \in [Events -> Nat]
      /\ \A e \in Events \ {e0} : movement'[e] = movement[e]
      BY <1>1, <1>6, <1>7
<1>9. movement[e0] = 0
      BY <1>1, <1>5 DEF EventPerMovement
<1>10. Ends(e0)' = EndsOf(h)
       BY <1>6, <1>8 DEF Ends, EndsOf, NewTransaction
<1>11. ASSUME NEW e \in Committed
       PROVE  Ends(e)' = Ends(e) /\ movement[e] \in 1..(n - 1)
  <2>1. movement[e] \in DOMAIN transactions /\ movement'[e] = movement[e]
        BY <1>5, <1>8 DEF EventPerMovement, Committed
  <2>2. /\ transactions'[movement[e]].source = transactions[movement[e]].source
        /\ transactions'[movement[e]].destination
             = transactions[movement[e]].destination
        BY <1>2, <2>1, PostKeepsRows
  <2>3. QED  BY <1>6, <2>1, <2>2 DEF Ends
<1>12. QED
       BY <1>1, <1>2, <1>3, <1>5, <1>6, <1>8, <1>9, <1>10, <1>11

LEMMA CommitKeepsStamps ==
    ASSUME TypeInv, LockInv, RP!RelayInv, StampInv, NEW h \in Handlers, Commit(h)
    PROVE  StampInv'
<1>1. PICK e0, n : e0 = inserted[h] /\ n = Len(transactions) + 1
      OBVIOUS
<1>2. /\ e0 \in Events /\ e0 \in Nat /\ e0 # 0 /\ e0 <= clock
      /\ e0 \notin Committed /\ Committed' = Committed \cup {e0}
      /\ Acts(h) /\ Post(h) /\ MayInsert(h)
      /\ n \in Nat \ {0}
      /\ DOMAIN transactions = 1..(n - 1)
      /\ DOMAIN transactions' = 1..n
      /\ movement'[e0] = n /\ movement[e0] = 0
      /\ movement' \in [Events -> Nat]
      /\ \A e \in Events \ {e0} : movement'[e] = movement[e]
      /\ Ends(e0)' = EndsOf(h)
      /\ \A e \in Committed : Ends(e)' = Ends(e) /\ movement[e] \in 1..(n - 1)
      /\ inserted' = [inserted EXCEPT ![h] = 0]
      /\ clock' = clock
      BY <1>1, CommitFacts DEF StampInv
<1>3. /\ clock \in 0..MaxEvents
      /\ inserted \in [Handlers -> 0..MaxEvents]
      /\ Committed \subseteq Events /\ Events \subseteq Nat
      /\ MaxEvents \in Nat
      BY EventsAssumption, EventsFinite DEF StampInv, Stamped, Committed
<1>4. ASSUME NEW g \in Handlers, inserted'[g] # 0
      PROVE  /\ g # h /\ inserted'[g] = inserted[g]
             /\ MayInsert(g) /\ MayInsert(g)'
             /\ EndsOf(g)' = EndsOf(g)
             /\ EndsOf(g) \cap EndsOf(h) = {}
  <2>1. g # h /\ inserted'[g] = inserted[g]
        BY <1>2, <1>3, <1>4
  <2>2. MayInsert(g)
        BY <1>4, <2>1 DEF StampInv, Stamped
  <2>3. QED  BY <1>2, <2>1, <2>2, MayInsertStays, EndsApart
<1>5. Stamped'
  <2>1. inserted' \in [Handlers -> 0..MaxEvents]
        BY <1>2, <1>3
  <2>2. \A g \in Handlers :
          inserted'[g] # 0 => inserted'[g] <= clock' /\ MayInsert(g)'
        BY <1>2, <1>4 DEF StampInv, Stamped
  <2>3. \A e \in Committed' : e <= clock'
        BY <1>2 DEF StampInv, Stamped
  <2>4. QED  BY <1>2, <1>3, <2>1, <2>2, <2>3 DEF Stamped
<1>6. LockedSince'
  <2> SUFFICES ASSUME NEW g \in Handlers, NEW f \in Committed',
                      inserted'[g] # 0, inserted'[g] < f
               PROVE  Ends(f)' \cap EndsOf(g)' = {}
      BY DEF LockedSince
  <2>1. CASE f = e0
        BY <1>2, <1>4, <2>1
  <2>2. CASE f \in Committed
        BY <1>2, <1>4, <2>2 DEF StampInv, LockedSince
  <2>3. QED  BY <1>2, <2>1, <2>2
<1>7. EventPerMovement'
  <2>1. \A e \in Events : e \in Committed' <=> movement'[e] # 0
        BY <1>2 DEF StampInv, EventPerMovement
  <2>2. \A e \in Committed' : movement'[e] \in DOMAIN transactions'
    <3>1. \A e \in Committed : movement'[e] \in 1..n
          BY <1>2, <1>3
    <3>2. QED  BY <1>2, <3>1
  <2>3. ASSUME NEW i \in DOMAIN transactions'
        PROVE  Cardinality({e \in Events : movement'[e] = i}) = 1
    <3>1. CASE i = n
      <4>1. \A e \in Events \ {e0} : movement'[e] # n
        <5>1. ASSUME NEW e \in Events \ {e0} PROVE movement'[e] # n
          <6>1. CASE e \in Committed
                BY <1>2, <6>1
          <6>2. CASE e \notin Committed
                BY <1>2, <6>2 DEF StampInv, EventPerMovement
          <6>3. QED  BY <6>1, <6>2
        <5>2. QED  BY <5>1
      <4>2. {e \in Events : movement'[e] = i} = {e0}
            BY <1>2, <3>1, <4>1
      <4>3. QED  BY <4>2, FS_Singleton
    <3>2. CASE i # n
      <4>1. i \in DOMAIN transactions /\ i # 0
            BY <1>2, <3>2
      <4>2. {e \in Events : movement'[e] = i} = {e \in Events : movement[e] = i}
            BY <1>2, <3>2, <4>1
      <4>3. QED  BY <4>1, <4>2 DEF StampInv, EventPerMovement
    <3>3. QED  BY <3>1, <3>2
  <2>4. QED  BY <2>1, <2>2, <2>3 DEF EventPerMovement
<1>8. StampedInOrder'
  <2> SUFFICES ASSUME NEW e \in Committed', NEW f \in Committed',
                      e < f, ShareWallet(e, f)'
               PROVE  movement'[e] < movement'[f]
      BY DEF StampedInOrder
  <2>1. PICK w \in Wallets : w \in Ends(e)' /\ w \in Ends(f)'
        BY DEF ShareWallet, Touches, Ends
  <2>2. CASE e \in Committed /\ f \in Committed
    <3>1. ShareWallet(e, f)
          BY <1>2, <2>1, <2>2 DEF ShareWallet, Touches, Ends
    <3>2. movement[e] < movement[f]
          BY <2>2, <3>1 DEF StampInv, StampedInOrder
    <3>3. QED  BY <1>2, <1>3, <2>2, <3>2
  <2>3. CASE e = e0 /\ f \in Committed
    <3>1. Ends(f) \cap EndsOf(h) = {}
          BY <1>1, <1>2, <2>3 DEF StampInv, LockedSince
    <3>2. QED  BY <1>2, <2>1, <2>3, <3>1
  <2>4. CASE e \in Committed /\ f = e0
    <3>1. movement'[e] = movement[e] /\ movement[e] \in 1..(n - 1)
          BY <1>2, <1>3, <2>4
    <3>2. QED  BY <1>2, <2>4, <3>1
  <2>5. CASE e = e0 /\ f = e0
        BY <1>2, <2>5
  <2>6. QED  BY <1>2, <2>2, <2>3, <2>4, <2>5
<1>9. QED  BY <1>5, <1>6, <1>7, <1>8 DEF StampInv

\* Steps after which the history, the events and their payloads are the same.
LEMMA StampInvFrame ==
    ASSUME StampInv, Committed' = Committed,
           UNCHANGED <<transactions, movement>>, Stamped',
           \A g \in Handlers, f \in Committed :
               inserted'[g] # 0 /\ inserted'[g] < f =>
                   inserted[g] = inserted'[g] /\ EndsOf(g)' = EndsOf(g)
    PROVE  StampInv'
<1>1. LockedSince'
  <2>1. \A f \in Committed : Ends(f)' = Ends(f)
        BY DEF Ends
  <2>2. QED  BY <2>1 DEF LockedSince, StampInv
<1>2. EventPerMovement'
      BY DEF StampInv, EventPerMovement
<1>3. StampedInOrder'
      BY DEF StampInv, StampedInOrder, ShareWallet, Touches
<1>4. QED  BY <1>1, <1>2, <1>3 DEF StampInv

LEMMA MayInsertFrame ==
    ASSUME UNCHANGED <<transactions, pc, req, copy>>, NEW g \in Handlers
    PROVE  (MayInsert(g)' <=> MayInsert(g)) /\ EndsOf(g)' = EndsOf(g)
<1>1. transactions' = transactions /\ pc' = pc /\ req' = req /\ copy' = copy
      OBVIOUS
<1>2. Movement(g)' = Movement(g)
      BY <1>1 DEF Movement
<1>3. Unlocked(g)' = Unlocked(g) /\ EndsOf(g)' = EndsOf(g)
      BY <1>1, <1>2 DEF Unlocked, EndsOf
<1>4. Found(g)' <=> Found(g)
      BY <1>2 DEF Found
<1>5. Permitted(g)' <=> Permitted(g)
      BY <1>1, <1>2 DEF Permitted, Active
<1>6. Funded(g)' <=> Funded(g)
      BY <1>1, <1>2 DEF Funded
<1>7. Verdict(g)' = Verdict(g)
      BY <1>4, <1>5, <1>6 DEF Verdict
<1>8. QED  BY <1>1, <1>3, <1>7 DEF MayInsert

LEMMA InsertKeepsStamps ==
    ASSUME TypeInv, StampInv, NEW h \in Handlers, InsertEvent(h)
    PROVE  StampInv'
<1>1. /\ clock' = clock + 1
      /\ inserted' = [inserted EXCEPT ![h] = clock + 1]
      /\ UNCHANGED <<wallets, transactions, ledger, idempotency, pc, req, copy,
                     reply, movement, status>>
      /\ MayInsert(h) /\ clock < MaxEvents
      BY DEF InsertEvent, vars, relayVars
<1>2. /\ clock \in 0..MaxEvents /\ MaxEvents \in Nat
      /\ inserted \in [Handlers -> 0..MaxEvents]
      BY EventsAssumption DEF StampInv, Stamped
<1>3. /\ clock' \in 0..MaxEvents
      /\ inserted' \in [Handlers -> 0..MaxEvents]
      BY <1>1, <1>2
<1>4. Committed' = Committed /\ Committed \subseteq Nat
      BY <1>1, EventsFinite DEF Committed
<1>5. \A g \in Handlers :
        /\ MayInsert(g)' <=> MayInsert(g)
        /\ EndsOf(g)' = EndsOf(g)
      BY <1>1, MayInsertFrame
<1>6. Stamped'
  <2>1. ASSUME NEW g \in Handlers, inserted'[g] # 0
        PROVE  inserted'[g] <= clock' /\ MayInsert(g)'
    <3>1. CASE g = h
          BY <1>1, <1>2, <1>5, <3>1
    <3>2. CASE g # h
      <4>1. inserted'[g] = inserted[g]
            BY <1>1, <1>2, <3>2
      <4>2. inserted[g] <= clock /\ MayInsert(g) /\ inserted[g] \in Nat
            BY <1>2, <2>1, <4>1 DEF StampInv, Stamped
      <4>3. QED  BY <1>1, <1>2, <1>5, <4>1, <4>2
    <3>3. QED  BY <3>1, <3>2
  <2>2. \A e \in Committed' : e <= clock'
        BY <1>1, <1>2, <1>4 DEF StampInv, Stamped
  <2>3. QED  BY <1>1, <1>3, <2>1, <2>2 DEF StampInv, Stamped
<1>7. ASSUME NEW g \in Handlers, NEW f \in Committed,
             inserted'[g] # 0, inserted'[g] < f
      PROVE  inserted[g] = inserted'[g] /\ EndsOf(g)' = EndsOf(g)
  <2>1. f <= clock /\ f \in Nat
        BY <1>4 DEF StampInv, Stamped
  <2>2. g # h
        BY <1>1, <1>2, <1>7, <2>1
  <2>3. QED  BY <1>1, <1>2, <1>5, <2>2
<1>8. QED  BY <1>1, <1>4, <1>6, <1>7, StampInvFrame

LEMMA OtherKeepsStamps ==
    ASSUME TypeInv, StampInv, NEW h \in Handlers, Other(h)
    PROVE  StampInv'
<1>1. /\ Acts(h) /\ ~Post(h) /\ UNCHANGED <<transactions, movement, clock, status>>
      /\ inserted' = IF pc'[h] = "idle" THEN [inserted EXCEPT ![h] = 0]
                     ELSE inserted
      BY OtherIsNotPost DEF Other, relayVars
<1>2. inserted \in [Handlers -> 0..MaxEvents] /\ MaxEvents \in Nat
      BY EventsAssumption DEF StampInv, Stamped
<1>3. Committed' = Committed
      BY <1>1 DEF Committed
<1>4. ASSUME NEW g \in Handlers, inserted'[g] # 0
      PROVE  /\ inserted'[g] = inserted[g] /\ inserted[g] <= clock
             /\ MayInsert(g)' /\ EndsOf(g)' = EndsOf(g)
  <2>1. inserted'[g] = inserted[g] /\ (g = h => pc'[h] # "idle")
        BY <1>1, <1>2, <1>4
  <2>2. inserted[g] <= clock /\ MayInsert(g)
        BY <1>4, <2>1 DEF StampInv, Stamped
  <2>3. g # h
        BY <1>1, <2>1, <2>2, MayInsertStays
  <2>4. QED  BY <1>1, <2>1, <2>2, <2>3, MayInsertStays
<1>5. inserted' \in [Handlers -> 0..MaxEvents]
      BY <1>1, <1>2
<1>6. Stamped'
      BY <1>1, <1>3, <1>4, <1>5 DEF StampInv, Stamped
<1>7. QED  BY <1>1, <1>3, <1>4, <1>6, StampInvFrame

LEMMA RelayKeepsStamps ==
    ASSUME TypeInv, StampInv, RP!RelayInv, RelayStep
    PROVE  StampInv'
<1>1. Committed' = Committed /\ UNCHANGED <<vars, eventVars>>
      BY RelayKeepsCommitted DEF RelayStep
<1>2. UNCHANGED <<wallets, transactions, pc, req, copy, clock, inserted, movement>>
      BY <1>1 DEF vars, eventVars
<1>3. \A g \in Handlers :
        /\ MayInsert(g)' <=> MayInsert(g)
        /\ EndsOf(g)' = EndsOf(g)
      BY <1>2, MayInsertFrame
<1>4. Stamped'
      BY <1>1, <1>2, <1>3 DEF StampInv, Stamped
<1>5. QED  BY <1>1, <1>2, <1>3, <1>4, StampInvFrame

----
\* Everything about the composition but the order of the stream.
EventsInv == TypeInv /\ LockInv /\ RP!RelayInv /\ StampInv

LEMMA EventsInvInit == EventsInit => EventsInv
<1> SUFFICES ASSUME EventsInit PROVE EventsInv
    OBVIOUS
<1>1. TypeInv /\ LockInv
      BY TypeInvInit, LockInvInit DEF EventsInit
<1>2. RP!RelayInv
      BY SameRelayInit, EventsFinite, RP!RelayInvInit DEF EventsInit
<1>3. /\ transactions = <<>> /\ clock = 0
      /\ inserted = [h \in Handlers |-> 0]
      /\ movement = [e \in Events |-> 0]
      /\ status = [e \in Events |-> "absent"]
      BY DEF EventsInit, Init, Relay!Init
<1>4. Committed = {}
      BY <1>3 DEF Committed
<1>5. StampInv
      BY <1>3, <1>4, EventsAssumption
         DEF StampInv, Stamped, EventPerMovement, LockedSince, StampedInOrder
<1>6. QED  BY <1>1, <1>2, <1>5 DEF EventsInv

LEMMA EventsInvNext ==
    EventsInv /\ [EventsNext]_<<vars, eventVars, relayVars>> => EventsInv'
<1> SUFFICES ASSUME EventsInv, [EventsNext]_<<vars, eventVars, relayVars>>
             PROVE  EventsInv'
    OBVIOUS
<1> USE DEF EventsInv
<1>1. CASE EventsNext
  <2>1. /\ [Next]_vars
        /\ \/ \E e \in Events : Relay!Commit(e)
           \/ \E w \in Workers : Relay!WorkerStep(w)
           \/ UNCHANGED relayVars
        BY <1>1, EventsSteps DEF StampInv
  <2>2. TypeInv' /\ LockInv'
        BY <2>1, TypeInvNext, LockInvNext
  <2>3. RP!RelayInv'
        BY <2>1, RelayInvKept
  <2>4. StampInv'
        BY <1>1, InsertKeepsStamps, CommitKeepsStamps, OtherKeepsStamps,
           RelayKeepsStamps DEF EventsNext
  <2>5. QED  BY <2>2, <2>3, <2>4
<1>2. CASE UNCHANGED <<vars, eventVars, relayVars>>
  <2>1. UNCHANGED vars /\ UNCHANGED relayVars
        BY <1>2
  <2>2. TypeInv' /\ LockInv' /\ RP!RelayInv'
        BY <2>1, TypeInvNext, LockInvNext, RelayInvKept
  <2>3. UNCHANGED <<wallets, transactions, pc, req, copy, clock, inserted,
                    movement, status>>
        BY <1>2 DEF vars, eventVars, relayVars
  <2>4. Committed' = Committed
        BY <2>3 DEF Committed
  <2>5. \A g \in Handlers :
          /\ MayInsert(g)' <=> MayInsert(g)
          /\ EndsOf(g)' = EndsOf(g)
        BY <2>3, MayInsertFrame
  <2>6. Stamped'
        BY <2>3, <2>4, <2>5 DEF StampInv, Stamped
  <2>7. QED  BY <2>2, <2>3, <2>4, <2>5, <2>6, StampInvFrame
<1>3. QED  BY <1>1, <1>2

LEMMA EventsInvariant == EventsSpec => []EventsInv
    BY EventsInvInit, EventsInvNext, PTL DEF EventsSpec

\* Every committed movement has exactly one event and every committed event its
\* movement, whatever is rolled back and however the workers fail.
THEOREM OneEventPerMovement == EventsSpec => []EventPerMovement
<1>1. EventsInv => EventPerMovement
      BY DEF EventsInv, StampInv
<1>2. QED  BY <1>1, EventsInvariant, PTL

\* The created_at order of the events of a wallet is the order in which its
\* movements commit: the row locks are held from the stamp to the commit.
THEOREM StampsFollowCommits == EventsSpec => []StampedInOrder
<1>1. EventsInv => StampedInOrder
      BY DEF EventsInv, StampInv
<1>2. QED  BY <1>1, EventsInvariant, PTL

----
\* The order of the stream. A batch has every older pending event, and takes
\* its events in turn, so that of two events that share a wallet the older one
\* is out, has failed, or is handled first.

LEMMA SameDelivered ==
    Relay!Delivered = RP!Delivered /\ Relay!Delivered' = RP!Delivered'
    BY DEF Relay!Delivered, RP!Delivered

LEMMA HandlesKeepsOrder ==
    ASSUME RP!RelayInv, RelayOrder, NEW v \in Workers, NEW d \in Events,
           RP!Handles(v, d), Committed' = Committed,
           UNCHANGED <<transactions, movement>>
    PROVE  RelayOrder'
<1>1. /\ RP!TypeOK
      /\ RP!Current(v, d) /\ d \in batch[v]
      /\ \A w \in Workers \ {v} : batch'[w] = batch[w]
      /\ failed \subseteq failed'
      /\ RP!Delivered' \in {RP!Delivered, RP!Delivered \cup {d}}
      BY EventsFinite, RP!HandlesFrame DEF RP!RelayInv
<1>2. \/ batch'[v] = batch[v]
      \/ batch'[v] = batch[v] \ {d} /\ d \in failed' \cup RP!Delivered'
      BY EventsFinite, RP!HandlesFrame
<1>3. \A e, f : ShareWallet(e, f)' <=> ShareWallet(e, f)
      BY DEF ShareWallet, Touches
<1>4. WalletsInTurn'
  <2> SUFFICES ASSUME NEW w \in Workers, NEW e \in Committed,
                      NEW f \in batch'[w], e < f, ShareWallet(e, f)
               PROVE  e \in RP!Delivered' \cup failed' \cup batch'[w]
      BY <1>3, SameDelivered DEF WalletsInTurn
  <2>1. f \in batch[w]
        BY <1>1, <1>2
  <2>2. e \in RP!Delivered \cup failed \cup batch[w]
        BY <2>1, SameDelivered DEF RelayOrder, WalletsInTurn
  <2>3. QED  BY <1>1, <1>2, <2>2
<1>5. WalletsSkipped'
  <2> SUFFICES ASSUME NEW e \in Committed, NEW f \in RP!Delivered',
                      e < f, ShareWallet(e, f)
               PROVE  e \in RP!Delivered' \cup failed'
      BY <1>3, SameDelivered DEF WalletsSkipped
  <2>1. CASE f \in RP!Delivered
    <3>1. e \in RP!Delivered \cup failed
          BY <2>1, SameDelivered DEF RelayOrder, WalletsSkipped
    <3>2. QED  BY <1>1, <3>1
  <2>2. CASE f = d
    <3>1. e \in RP!Delivered \cup failed \cup batch[v]
          BY <1>1, <2>2, SameDelivered DEF RelayOrder, WalletsInTurn
    <3>2. e \notin batch[v]
      <4>1. e \in batch[v] => d <= e
            BY <1>1 DEF RP!Current
      <4>2. e \in Nat /\ d \in Nat
            BY EventsFinite DEF Committed
      <4>3. QED  BY <2>2, <4>1, <4>2
    <3>3. QED  BY <1>1, <3>1, <3>2
  <2>3. QED  BY <1>1, <2>1, <2>2
<1>6. QED  BY <1>4, <1>5 DEF RelayOrder

LEMMA FetchKeepsOrder ==
    ASSUME RP!RelayInv, RelayOrder, NEW v \in Workers, RP!FetchPending(v),
           Committed' = Committed, UNCHANGED <<transactions, movement>>
    PROVE  RelayOrder'
<1>1. /\ RP!TypeOK /\ RP!AtLeastOnce
      /\ batch' = [batch EXCEPT ![v] = RP!NextBatch]
      /\ status' = status /\ failed' = failed /\ stream' = stream
      BY DEF RP!RelayInv, RP!FetchPending
<1>2. RP!Delivered' = RP!Delivered
      BY <1>1 DEF RP!Delivered
<1>3. /\ batch'[v] = RP!NextBatch
      /\ \A w \in Workers \ {v} : batch'[w] = batch[w]
      BY <1>1 DEF RP!TypeOK
<1>4. \A e, f : ShareWallet(e, f)' <=> ShareWallet(e, f)
      BY DEF ShareWallet, Touches
<1>5. WalletsInTurn'
  <2> SUFFICES ASSUME NEW w \in Workers, NEW e \in Committed,
                      NEW f \in batch'[w], e < f, ShareWallet(e, f)
               PROVE  e \in RP!Delivered \cup failed \cup batch'[w]
      BY <1>1, <1>2, <1>4, SameDelivered DEF WalletsInTurn
  <2>1. CASE w # v
        BY <1>3, <2>1, SameDelivered DEF RelayOrder, WalletsInTurn
  <2>2. CASE w = v /\ status[e] = "pending"
    <3>1. e \in RP!Pending /\ f \in RP!NextBatch
          BY <1>3, <2>2 DEF RP!Pending, Committed
    <3>2. e \in RP!NextBatch
          BY <3>1, EventsFinite, RP!BatchIsOldest
    <3>3. QED  BY <1>3, <2>2, <3>2
  <2>3. CASE status[e] = "published"
        BY <1>1, <2>3 DEF RP!AtLeastOnce, Committed
  <2>4. status[e] \in {"pending", "published"}
        BY <1>1 DEF Committed, RP!TypeOK
  <2>5. QED  BY <2>1, <2>2, <2>3, <2>4
<1>6. WalletsSkipped'
      BY <1>1, <1>2, <1>4, SameDelivered DEF RelayOrder, WalletsSkipped
<1>7. QED  BY <1>5, <1>6 DEF RelayOrder

\* Nothing that the order is about changes, or a batch is dropped.
LEMMA OrderFrame ==
    ASSUME RelayOrder, UNCHANGED <<transactions, movement, status, failed, stream>>,
           \A w \in Workers : batch'[w] = batch[w] \/ batch'[w] = {}
    PROVE  RelayOrder'
<1>1. Committed' = Committed /\ Relay!Delivered' = Relay!Delivered
      BY DEF Committed, Relay!Delivered
<1>2. \A e, f : ShareWallet(e, f)' <=> ShareWallet(e, f)
      BY DEF ShareWallet, Touches
<1>3. WalletsInTurn'
      BY <1>1, <1>2 DEF RelayOrder, WalletsInTurn
<1>4. WalletsSkipped'
      BY <1>1, <1>2 DEF RelayOrder, WalletsSkipped
<1>5. QED  BY <1>3, <1>4 DEF RelayOrder

LEMMA RelayKeepsOrder ==
    ASSUME RP!RelayInv, RelayOrder, RelayStep
    PROVE  RelayOrder'
<1>1. PICK v \in Workers : Relay!WorkerStep(v)
      BY DEF RelayStep
<1>2. Committed' = Committed /\ UNCHANGED <<transactions, movement>>
      BY <1>1, RelayKeepsCommitted DEF RelayStep, vars, eventVars
<1>3. ASSUME RP!RejectPayload(v) \/ RP!Stop(v)
      PROVE  RelayOrder'
  <2>1. /\ UNCHANGED <<status, failed, stream>>
        /\ \A w \in Workers : batch'[w] = batch[w] \/ batch'[w] = {}
        BY <1>3 DEF RP!RejectPayload, RP!Stop, RP!Abandon, RP!RelayInv,
                    RP!TypeOK
  <2>2. QED  BY <1>2, <2>1, OrderFrame
<1>4. \/ RP!FetchPending(v) \/ RP!RejectPayload(v) \/ RP!Stop(v)
      \/ \E d \in Events : RP!Handles(v, d)
      BY <1>1, SameRelayStep DEF RP!WorkerStep, RP!Handles
<1>5. QED  BY <1>2, <1>3, <1>4, FetchKeepsOrder, HandlesKeepsOrder

LEMMA CommitKeepsOrder ==
    ASSUME TypeInv, RP!RelayInv, StampInv, RelayOrder, NEW h \in Handlers,
           Commit(h)
    PROVE  RelayOrder'
<1>1. PICK e0, n : e0 = inserted[h] /\ n = Len(transactions) + 1
      OBVIOUS
<1>2. /\ e0 \in Events /\ e0 # 0
      /\ Committed' = Committed \cup {e0}
      /\ Ends(e0)' = EndsOf(h)
      /\ \A e \in Committed : Ends(e)' = Ends(e)
      BY <1>1, CommitFacts DEF StampInv
<1>3. UNCHANGED <<failed, stream, batch>>
      BY DEF Commit, Relay!Commit
<1>4. Relay!Delivered' = Relay!Delivered
      BY <1>3 DEF Relay!Delivered
<1>5. /\ Relay!Delivered \subseteq Committed
      /\ \A w \in Workers : batch[w] \subseteq Committed
      BY SameDelivered DEF RP!RelayInv, RP!AtLeastOnce, RP!Fetched, RP!TypeOK,
                           RP!Delivered, Committed
<1>6. ASSUME NEW e \in Committed', NEW f \in Committed, e < f,
             ShareWallet(e, f)'
      PROVE  e \in Committed /\ ShareWallet(e, f)
  <2>1. PICK w \in Wallets : w \in Ends(e)' /\ w \in Ends(f)'
        BY <1>6 DEF ShareWallet, Touches, Ends
  <2>2. e # e0
    <3>1. e0 < f => Ends(f) \cap EndsOf(h) = {}
          BY <1>1, <1>2 DEF StampInv, LockedSince
    <3>2. QED  BY <1>2, <1>6, <2>1, <3>1
  <2>3. QED  BY <1>2, <2>1, <2>2 DEF ShareWallet, Touches, Ends
<1>7. WalletsInTurn'
      BY <1>3, <1>4, <1>5, <1>6 DEF RelayOrder, WalletsInTurn
<1>8. WalletsSkipped'
      BY <1>3, <1>4, <1>5, <1>6 DEF RelayOrder, WalletsSkipped
<1>9. QED  BY <1>7, <1>8 DEF RelayOrder

LEMMA RelayOrderInit == EventsInit => RelayOrder
<1> SUFFICES ASSUME EventsInit PROVE RelayOrder
    OBVIOUS
<1>1. Relay!Delivered = {} /\ Committed = {}
      BY DEF EventsInit, Relay!Init, Relay!Delivered, Committed
<1>2. QED  BY <1>1 DEF RelayOrder, WalletsInTurn, WalletsSkipped

LEMMA RelayOrderNext ==
    /\ EventsInv /\ RelayOrder
    /\ [EventsNext]_<<vars, eventVars, relayVars>>
    => RelayOrder'
<1> SUFFICES ASSUME EventsInv, RelayOrder,
                    [EventsNext]_<<vars, eventVars, relayVars>>
             PROVE  RelayOrder'
    OBVIOUS
<1>1. ASSUME NEW h \in Handlers, InsertEvent(h) PROVE RelayOrder'
      BY <1>1, OrderFrame DEF InsertEvent, vars, relayVars
<1>2. ASSUME NEW h \in Handlers, Other(h) PROVE RelayOrder'
  <2>1. UNCHANGED <<transactions, movement, relayVars>>
        BY <1>2, OtherIsNotPost DEF Other, EventsInv
  <2>2. QED  BY <2>1, OrderFrame DEF relayVars
<1>3. ASSUME NEW h \in Handlers, Commit(h) PROVE RelayOrder'
      BY <1>3, CommitKeepsOrder DEF EventsInv
<1>4. CASE RelayStep
      BY <1>4, RelayKeepsOrder DEF EventsInv
<1>5. CASE UNCHANGED <<vars, eventVars, relayVars>>
      BY <1>5, OrderFrame DEF vars, eventVars, relayVars
<1>6. QED  BY <1>1, <1>2, <1>3, <1>4, <1>5 DEF EventsNext

\* Consumers learn of a wallet's movements in the order of their commits: what
\* the row locks make of created_at and what the batches make of the stream
\* give the order together, and only a failed delivery breaks it.
THEOREM StreamFollowsCommits == EventsSpec => []WalletOrder
<1>1. EventsInv /\ RelayOrder => WalletOrder
  <2> SUFFICES ASSUME EventsInv, RelayOrder, NEW e \in Committed,
                      NEW f \in Relay!Delivered, movement[e] < movement[f],
                      ShareWallet(e, f), e \notin Relay!Delivered
               PROVE  e \in failed
      BY DEF WalletOrder
  <2>1. /\ e \in Events /\ f \in Committed /\ f \in Events
        BY SameDelivered DEF Committed, EventsInv, RP!RelayInv, RP!AtLeastOnce,
                             RP!TypeOK, RP!Delivered
  <2>2. /\ e \in Nat /\ f \in Nat
        /\ movement[e] \in Nat /\ movement[f] \in Nat
        BY <2>1, EventsFinite DEF EventsInv, StampInv, Stamped
  <2>3. ShareWallet(f, e)
        BY DEF ShareWallet
  <2>4. ~(f < e)
    <3>1. f < e => movement[f] < movement[e]
          BY <2>1, <2>3 DEF EventsInv, StampInv, StampedInOrder
    <3>2. QED  BY <2>2, <3>1
  <2>5. e # f
        BY <2>2
  <2>6. e < f
        BY <2>2, <2>4, <2>5
  <2>7. QED  BY <2>6 DEF RelayOrder, WalletsSkipped
<1>2. EventsSpec => []RelayOrder
      BY RelayOrderInit, RelayOrderNext, EventsInvariant, PTL DEF EventsSpec
<1>3. QED  BY <1>1, <1>2, EventsInvariant, PTL

----
\* The ledger goes on as if it were alone: the composition takes no step that
\* WalletLedger does not allow, so that all that is proved of it holds here.
THEOREM LedgerInComposition == EventsSpec => Spec
<1>1. EventsInit => Init
      BY DEF EventsInit
<1>2. EventsInv /\ [EventsNext]_<<vars, eventVars, relayVars>> => [Next]_vars
      BY EventsSteps DEF EventsInv, StampInv
<1>3. QED  BY <1>1, <1>2, EventsInvariant, PTL DEF EventsSpec, Spec

\* So does the relay: every order in which movements commit and workers step is
\* one that OutboxRelay allows.
THEOREM RelayInComposition == EventsSpec => Relay!Spec
<1>1. EventsInit => Relay!Init
      BY DEF EventsInit
<1>2. /\ EventsInv
      /\ [EventsNext]_<<vars, eventVars, relayVars>>
      => [Relay!Next]_(Relay!vars)
      BY EventsSteps DEF EventsInv, StampInv, Relay!Next, Relay!vars, relayVars
<1>3. QED  BY <1>1, <1>2, EventsInvariant, PTL DEF EventsSpec, Relay!Spec

----
\* The sum of the stream.

MovedBy(w) == [e \in Events |-> Moved(e, w)]

\* The entries of a wallet are what its committed events moved.
Totals ==
    \A w \in Wallets : \A g :
        IsSum(g, MovedBy(w), Committed) =>
            ledger[w].credit - ledger[w].debit = g[Committed]

\* What MapThenSumSet computes is such a sum.
LEMMA ReplayedIsSum ==
    ASSUME NEW w, Relay!Delivered \subseteq Events,
           \A e \in Relay!Delivered : Moved(e, w) \in Int
    PROVE  \E g : /\ IsSum(g, MovedBy(w), Relay!Delivered)
                 /\ Replayed(w) = g[Relay!Delivered]
<1> DEFINE D == Relay!Delivered
           adds(g) == g = [s \in SUBSET D |->
                             IF s = {} THEN 0
                             ELSE Moved(CHOOSE x \in s : TRUE, w)
                                    + g[s \ {CHOOSE x \in s : TRUE}]]
           G == CHOOSE g : adds(g)
<1>1. Replayed(w) = G[D]
      BY DEF Replayed, F!MapThenSumSet, F!MapThenFoldSet
<1>2. ASSUME NEW s \in SUBSET D, s # {}
      PROVE  MovedBy(w)[First(s)] = Moved(First(s), w)
      BY <1>2, FirstIsElement DEF MovedBy
<1>3. ASSUME NEW g
      PROVE  adds(g) <=> IsSum(g, MovedBy(w), D)
      BY <1>2 DEF IsSum, First
<1>4. IsFiniteSet(D)
      BY EventsFinite, FS_Subset
<1>5. \A e \in D : MovedBy(w)[e] \in Int
      BY DEF MovedBy
<1>6. \E g : IsSum(g, MovedBy(w), D)
      BY <1>4, <1>5, SumExists DEF IsIntSum
<1> HIDE DEF adds
<1>7. adds(G)
      BY <1>3, <1>6
<1>8. QED  BY <1>1, <1>3, <1>7

LEMMA AmountsAreNatural == \A a \in Amounts : a \in Nat
<1>1. Amounts \subseteq 1..MaxMinor /\ MaxMinor \in Nat
      BY ConstantsAssumption
<1>2. QED  BY <1>1

LEMMA MovedType ==
    ASSUME TypeInv, EventPerMovement, NEW e \in Committed, NEW w
    PROVE  Moved(e, w) \in Int
<1>1. transactions[movement[e]] \in Transactions
      BY DEF EventPerMovement, TypeInv, TypeOK
<1>2. transactions[movement[e]].amount \in Nat
      BY <1>1, AmountsAreNatural DEF Transactions
<1>3. QED  BY <1>2 DEF Moved

LEMMA CommittedFinite == IsFiniteSet(Committed) /\ Committed \subseteq Events
<1>1. Committed \subseteq Events
      BY DEF Committed
<1>2. QED  BY <1>1, EventsFinite, FS_Subset

LEMMA TotalsInit == EventsInit => Totals
<1> SUFFICES ASSUME EventsInit, NEW w \in Wallets, NEW g,
                    IsSum(g, MovedBy(w), Committed)
             PROVE  ledger[w].credit - ledger[w].debit = g[Committed]
    BY DEF Totals
<1>1. Committed = {}
      BY DEF EventsInit, Relay!Init, Committed
<1>2. g[Committed] = 0
      BY <1>1, SumAt
<1>3. ledger[w].credit = 0 /\ ledger[w].debit = 0
      BY DEF EventsInit, Init
<1>4. QED  BY <1>2, <1>3

LEMMA TotalsFrame ==
    ASSUME Totals, Committed' = Committed,
           UNCHANGED <<transactions, movement, ledger>>
    PROVE  Totals'
<1>1. \A w \in Wallets : MovedBy(w)' = MovedBy(w)
      BY DEF MovedBy, Moved
<1>2. QED  BY <1>1 DEF Totals

LEMMA CommitKeepsTotals ==
    ASSUME EventsInv, Totals, NEW h \in Handlers, Commit(h)
    PROVE  Totals'
<1> USE DEF EventsInv
<1>1. PICK e0, n, C : /\ e0 = inserted[h] /\ n = Len(transactions) + 1
                      /\ C = Committed
      OBVIOUS
<1>2. /\ e0 \in Events /\ e0 \notin C /\ Committed' = C \cup {e0}
      /\ Post(h) /\ MayInsert(h)
      /\ movement'[e0] = n
      /\ \A e \in Events \ {e0} : movement'[e] = movement[e]
      BY <1>1, CommitFacts DEF StampInv
<1>3. IsFiniteSet(C) /\ C \subseteq Events
      BY <1>1, CommittedFinite
<1>4. TypeInv' /\ EventPerMovement'
  <2>1. Stamped /\ EventsNext
        BY DEF EventsNext, StampInv
  <2>2. QED  BY <2>1, EventsInvNext DEF StampInv
<1> SUFFICES ASSUME NEW w \in Wallets, NEW h1,
                    IsSum(h1, MovedBy(w)', Committed')
             PROVE  ledger'[w].credit - ledger'[w].debit = h1[Committed']
    BY DEF Totals
<1>5. PICK u, v : u = MovedBy(w) /\ v = MovedBy(w)'
      OBVIOUS
<1>6. \A e \in C : u[e] = Moved(e, w) /\ u[e] \in Int
      BY <1>1, <1>3, <1>5, MovedType DEF MovedBy, StampInv
<1>7. \A e \in C \cup {e0} : v[e] = Moved(e, w)'
      BY <1>2, <1>3, <1>5 DEF MovedBy
<1>8. \A e \in C : v[e] = u[e]
  <2> SUFFICES ASSUME NEW e \in C PROVE Moved(e, w)' = Moved(e, w)
      BY <1>6, <1>7
  <2>1. movement'[e] = movement[e] /\ movement[e] \in DOMAIN transactions
        BY <1>1, <1>2, <1>3 DEF StampInv, EventPerMovement
  <2>2. /\ transactions'[movement[e]].source = transactions[movement[e]].source
        /\ transactions'[movement[e]].destination
             = transactions[movement[e]].destination
        /\ transactions'[movement[e]].amount = transactions[movement[e]].amount
        BY <1>2, <2>1, PostKeepsRows
  <2>3. QED  BY <2>1, <2>2 DEF Moved
<1>9. PICK from, to, amount :
        /\ from = Movement(h).from /\ to = Movement(h).to
        /\ amount = Movement(h).amount
      OBVIOUS
<1>10. /\ from \in Wallets /\ to \in Wallets /\ from # to /\ amount \in Nat
       BY <1>2, <1>9, MovementEnds, AmountsAreNatural DEF MayInsert
<1>11. v[e0] = (IF to = w THEN amount ELSE 0) - (IF from = w THEN amount ELSE 0)
  <2>1. transactions'[n] = NewTransaction(h)
        BY <1>1, <1>2, PostTransactions
  <2>2. QED  BY <1>2, <1>7, <1>9, <2>1 DEF Moved, NewTransaction
<1>12. \A e \in C \cup {e0} : v[e] \in Int
       BY <1>6, <1>8, <1>10, <1>11
<1>13. PICK g : IsIntSum(g, u, C)
       BY <1>3, <1>6, SumExists
<1>14. ledger[w].credit - ledger[w].debit = g[C]
       BY <1>1, <1>5, <1>13 DEF Totals, IsIntSum
<1>15. h1[C \cup {e0}] = g[C] + v[e0]
  <2>1. IsSum(h1, v, C \cup {e0})
        BY <1>2, <1>5
  <2>2. QED  BY <1>2, <1>8, <1>12, <1>13, <2>1, SumInsert
<1>16. /\ ledger'[w].credit = ledger[w].credit + IF to = w THEN amount ELSE 0
       /\ ledger'[w].debit = ledger[w].debit + IF from = w THEN amount ELSE 0
       /\ ledger[w].credit \in Nat /\ ledger[w].debit \in Nat
  <2>1. ledger \in [Wallets -> [debit: Nat, credit: Nat]]
        BY DEF TypeInv, TypeOK
  <2>2. ledger' = [ledger EXCEPT ![from].debit = @ + amount,
                                 ![to].credit = @ + amount]
        BY <1>2, <1>9 DEF Post, PostedEntries
  <2>3. QED  BY <1>10, <2>1, <2>2
<1>17. ledger'[w].credit - ledger'[w].debit = g[C] + v[e0]
  <2> DEFINE credit == ledger[w].credit
             debit == ledger[w].debit
             gained == IF to = w THEN amount ELSE 0
             lost == IF from = w THEN amount ELSE 0
  <2>1. gained \in Nat /\ lost \in Nat
        BY <1>10
  <2>2. /\ ledger'[w].credit = credit + gained
        /\ ledger'[w].debit = debit + lost
        /\ credit \in Nat /\ debit \in Nat
        BY <1>16
  <2>3. credit - debit = g[C] /\ v[e0] = gained - lost
        BY <1>11, <1>14
  <2> HIDE DEF credit, debit, gained, lost
  <2>4. QED  BY ONLY <2>1, <2>2, <2>3
<1>18. QED  BY <1>2, <1>15, <1>17

LEMMA TotalsNext ==
    EventsInv /\ Totals /\ [EventsNext]_<<vars, eventVars, relayVars>> => Totals'
<1> SUFFICES ASSUME EventsInv, Totals,
                    [EventsNext]_<<vars, eventVars, relayVars>>
             PROVE  Totals'
    OBVIOUS
<1>1. ASSUME NEW h \in Handlers, InsertEvent(h) PROVE Totals'
  <2>1. UNCHANGED <<transactions, movement, ledger, status>>
        BY <1>1 DEF InsertEvent, vars, relayVars
  <2>2. QED  BY <2>1, TotalsFrame DEF Committed
<1>2. ASSUME NEW h \in Handlers, Other(h) PROVE Totals'
  <2>1. UNCHANGED <<transactions, movement, ledger, status>>
        BY <1>2, OtherIsNotPost, OneHandlerMoves
           DEF Other, EventsInv, Acts, relayVars
  <2>2. QED  BY <2>1, TotalsFrame DEF Committed
<1>3. ASSUME NEW h \in Handlers, Commit(h) PROVE Totals'
      BY <1>3, CommitKeepsTotals
<1>4. CASE RelayStep
  <2>1. Committed' = Committed
        BY <1>4, RelayKeepsCommitted DEF RelayStep, EventsInv
  <2>2. UNCHANGED <<transactions, movement, ledger>>
        BY <1>4 DEF RelayStep, vars, eventVars
  <2>3. QED  BY <2>1, <2>2, TotalsFrame
<1>5. CASE UNCHANGED <<vars, eventVars, relayVars>>
  <2>1. UNCHANGED <<transactions, movement, ledger, status>>
        BY <1>5 DEF vars, eventVars, relayVars
  <2>2. QED  BY <2>1, TotalsFrame DEF Committed
<1>6. QED  BY <1>1, <1>2, <1>3, <1>4, <1>5 DEF EventsNext

\* A consumer that adds up the stream, each event once, has every unpatched
\* wallet's balance as soon as nothing is pending, whatever the order of the
\* deliveries, the failures and the restarts.
THEOREM StreamGivesBalances == EventsSpec => []StreamReplays
<1>1. EventsInv /\ Totals /\ LedgerExact => StreamReplays
  <2> SUFFICES ASSUME EventsInv, Totals, LedgerExact, Relay!Pending = {},
                      NEW w \in Wallets \ Patchable, InRange(w)
               PROVE  wallets[w].balance = Replayed(w)
      BY DEF StreamReplays
  <2>1. Relay!Delivered = Committed
    <3>1. /\ \A e \in Events : status[e] = "published" => e \in RP!Delivered
          /\ \A e \in RP!Delivered : status[e] # "absent"
          /\ RP!Delivered \subseteq Events
          /\ \A e \in Events : status[e] \in {"absent", "pending", "published"}
          BY DEF EventsInv, RP!RelayInv, RP!AtLeastOnce, RP!TypeOK, RP!Delivered
    <3>2. \A e \in Events : status[e] # "pending"
          BY DEF Relay!Pending
    <3>3. QED  BY <3>1, <3>2, SameDelivered DEF Committed
  <2>2. PICK g : /\ IsSum(g, MovedBy(w), Committed)
                 /\ Replayed(w) = g[Committed]
        BY <2>1, CommittedFinite, MovedType, ReplayedIsSum
           DEF EventsInv, StampInv
  <2>3. Replayed(w) = ledger[w].credit - ledger[w].debit
        BY <2>2 DEF Totals
  <2>4. QED  BY <2>3 DEF LedgerExact
<1>2. EventsSpec => []Totals
      BY TotalsInit, TotalsNext, EventsInvariant, PTL DEF EventsSpec
<1>3. EventsSpec => []LedgerExact
      BY LedgerInComposition, BalancesMatchEntries, PTL
<1>4. QED  BY <1>1, <1>2, <1>3, EventsInvariant, PTL
====
