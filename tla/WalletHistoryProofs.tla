---- MODULE WalletHistoryProofs ----
(****************************************************************************)
(* Proofs about the history WalletLedger writes: transactions, idempotency  *)
(* records, answers, and who waits for whom.                                *)
(****************************************************************************)
EXTENDS WalletLedgerProofs, InductionProofs

\* A key in flight has one holder and no committed record yet.
KeyHeld ==
    \A h \in Handlers, k \in Keys, op \in MovementTypes :
        HoldsKey(h, k, op) =>
            /\ idempotency[<<k, op>>] = NoRecord
            /\ \A g \in Handlers : HoldsKey(g, k, op) => g = h

KeyInv == KeyHeld /\ KeyedOnce

\* A transaction that is being reversed has one handler that does so, and no
\* reversal yet; transactions that compensate nothing are related to nothing.
OriginalHeld ==
    \A h \in Handlers, i \in TxIds :
        HoldsOriginal(h, i) =>
            /\ transactions[i].status = "completed"
            /\ transactions[i].type # "reversal"
            /\ \A g \in Handlers : HoldsOriginal(g, i) => g = h

ReversalInv ==
    /\ OriginalHeld
    /\ ReversedOnce
    /\ \A i \in DOMAIN transactions :
         transactions[i].type # "reversal" => transactions[i].related = 0

\* There is no answer while a request is under way.
Unanswered == \A h \in Handlers : pc[h] # "idle" => reply[h].code = "none"

\* The transaction that is about to be answered is the one asked for.
ResponsesServed ==
    \A h \in Handlers :
        pc[h] = "respond" =>
            /\ reply[h].tx \in DOMAIN transactions
            /\ Serves(transactions[reply[h].tx], req[h])

\* So is the one a record stores for its request.
RecordsServed ==
    \A k \in Keys, op \in MovementTypes :
        idempotency[<<k, op>>] # NoRecord =>
            /\ idempotency[<<k, op>>].tx \in DOMAIN transactions
            /\ Serves(transactions[idempotency[<<k, op>>].tx],
                      idempotency[<<k, op>>].request)

ServedInv == Unanswered /\ ResponsesServed /\ RecordsServed /\ CreatedIsServed

\* Only requests that move money are refused for their key.
RefusedInv ==
    /\ RefusalsAreTrue
    /\ \A h \in Handlers :
         reply[h].code \in {"conflict", "idempotency_conflict"} =>
             req[h] \in Movements

\* Whoever holds a wallet row has only later rows to wait for.
LockOrder ==
    \A h \in Handlers, w \in Wallets :
        HoldsWallet(h, w) => \A v \in Unlocked(h) : w < v

----
\* What a step does, in general.

\* Only the handler h moves.
Alone(h) ==
    \A g \in Handlers \ {h} :
        /\ pc'[g] = pc[g]
        /\ req'[g] = req[g]
        /\ copy'[g] = copy[g]
        /\ reply'[g] = reply[g]

LEMMA OneHandlerMoves ==
    ASSUME TypeInv, NEW h \in Handlers,
           SubmitMovement(h) \/ SubmitPatch(h) \/ Step(h) \/ Fail(h)
    PROVE  /\ Alone(h)
           /\ Post(h) \/ UNCHANGED <<transactions, ledger, idempotency>>
<1>1. CASE SubmitMovement(h) \/ SubmitPatch(h)
      BY <1>1 DEF SubmitMovement, SubmitPatch, tables, Alone, TypeInv, TypeOK
<1>2. CASE \/ RefuseSelfTransfer(h) \/ RefuseReusedKey(h)
           \/ ReplayResponse(h) \/ RefuseDuplicateKey(h)
           \/ RefuseOriginal(h) \/ RefuseMovement(h) \/ Respond(h)
           \/ RefusePatch(h) \/ SaveWallet(h) \/ Fail(h)
  <2>1. /\ UNCHANGED <<transactions, ledger, idempotency>>
        /\ \E code, tx : Answer(h, code, tx)
        BY <1>2 DEF RefuseSelfTransfer, RefuseReusedKey, ReplayResponse,
                    RefuseDuplicateKey, RefuseOriginal, RefuseMovement,
                    Respond, RefusePatch, SaveWallet, Fail, tables
  <2>2. QED  BY <2>1 DEF Answer, Alone, TypeInv, TypeOK
<1>3. CASE BeginTransaction(h) \/ InsertKey(h) \/ LockOriginal(h)
      BY <1>3 DEF BeginTransaction, InsertKey, LockOriginal, Goto, tables,
                  Alone, TypeInv, TypeOK
<1>4. CASE \E w \in Wallets : LockWallet(h, w)
      BY <1>4 DEF LockWallet, tables, Alone, TypeInv, TypeOK
<1>5. CASE ReadWallet(h)
      BY <1>5 DEF ReadWallet, Goto, tables, Alone, TypeInv, TypeOK
<1>6. CASE Post(h)
      BY <1>6 DEF Post, Alone, TypeInv, TypeOK
<1>7. QED  BY <1>1, <1>2, <1>3, <1>4, <1>5, <1>6 DEF Step

\* The steps of a handler inside its database transaction, told apart by how
\* they got there.
LEMMA EntersTransaction ==
    ASSUME TypeInv, NEW h \in Handlers,
           SubmitMovement(h) \/ SubmitPatch(h) \/ Step(h) \/ Fail(h)
    PROVE  /\ pc'[h] # "idle" /\ pc[h] # "idle" => req'[h] = req[h]
           /\ pc'[h] = "original" => InsertKey(h)
           /\ pc'[h] = "wallets" =>
                \/ InsertKey(h) /\ req[h].op # "reversal"
                \/ LockOriginal(h)
                \/ \E w \in Wallets : LockWallet(h, w)
           /\ pc'[h] = "respond" => Post(h)
<1>1. CASE SubmitMovement(h) \/ SubmitPatch(h)
      BY <1>1 DEF SubmitMovement, SubmitPatch, TypeInv, TypeOK
<1>2. CASE \/ RefuseSelfTransfer(h) \/ RefuseReusedKey(h)
           \/ ReplayResponse(h) \/ RefuseDuplicateKey(h)
           \/ RefuseOriginal(h) \/ RefuseMovement(h) \/ Respond(h)
           \/ RefusePatch(h) \/ SaveWallet(h) \/ Fail(h)
  <2>1. \E code, tx : Answer(h, code, tx)
        BY <1>2 DEF RefuseSelfTransfer, RefuseReusedKey, ReplayResponse,
                    RefuseDuplicateKey, RefuseOriginal, RefuseMovement,
                    Respond, RefusePatch, SaveWallet, Fail
  <2>2. pc'[h] = "idle"
        BY <2>1 DEF Answer, TypeInv, TypeOK
  <2>3. QED  BY <2>2
<1>3. CASE BeginTransaction(h)
      BY <1>3 DEF BeginTransaction, Goto, TypeInv, TypeOK
<1>4. CASE InsertKey(h)
      BY <1>4 DEF InsertKey, Goto, TypeInv, TypeOK
<1>5. CASE LockOriginal(h)
      BY <1>5 DEF LockOriginal, Goto, TypeInv, TypeOK
<1>6. CASE \E w \in Wallets : LockWallet(h, w)
      BY <1>6 DEF LockWallet, TypeInv, TypeOK
<1>7. CASE ReadWallet(h)
      BY <1>7 DEF ReadWallet, Goto, TypeInv, TypeOK
<1>8. CASE Post(h)
      BY <1>8 DEF Post, TypeInv, TypeOK
<1>9. QED  BY <1>1, <1>2, <1>3, <1>4, <1>5, <1>6, <1>7, <1>8 DEF Step

\* What the commit of a movement does to the table of transactions: a row is
\* appended, and at most the status of the reversed one changes.
LEMMA PostTransactions ==
    ASSUME TypeInv, NEW h \in Handlers, Post(h)
    PROVE  /\ transactions \in Seq(Transactions)
           /\ transactions' \in Seq(Transactions)
           /\ Len(transactions') = Len(transactions) + 1
           /\ transactions'[Len(transactions) + 1] = NewTransaction(h)
           /\ \A i \in DOMAIN transactions :
                transactions'[i] =
                  IF req[h].op = "reversal" /\ i = req[h].target
                  THEN [transactions[i] EXCEPT !.status = "reversed"]
                  ELSE transactions[i]
<1>1. transactions \in Seq(Transactions) /\ TypeInv'
      BY PostType DEF TypeInv, TypeOK
<1>2. transactions' \in Seq(Transactions)
      BY <1>1 DEF TypeInv, TypeOK
<1>3. MarkedOriginal(h) \in Seq(Transactions)
      /\ Len(MarkedOriginal(h)) = Len(transactions)
      /\ \A i \in DOMAIN transactions :
           MarkedOriginal(h)[i] =
             IF req[h].op = "reversal" /\ i = req[h].target
             THEN [transactions[i] EXCEPT !.status = "reversed"]
             ELSE transactions[i]
  <2>1. CASE req[h].op = "reversal"
    <3> DEFINE t == req[h].target
               marked == [transactions EXCEPT ![t].status = "reversed"]
    <3>1. t \in 1..Len(transactions)
          BY <1>1, <2>1 DEF Post, TypeInv, TypeOK, Control
    <3>2. [transactions[t] EXCEPT !.status = "reversed"] \in Transactions
      <4>1. transactions[t] \in Transactions
            BY <1>1, <3>1
      <4>2. QED  BY <4>1 DEF Transactions
    <3>3. marked \in [1..Len(transactions) -> Transactions]
          BY <1>1, <3>1, <3>2
    <3>4. marked \in Seq(Transactions) /\ Len(marked) = Len(transactions)
          BY <1>1, <3>3, LenProperties, SeqDef
    <3>5. \A i \in DOMAIN transactions :
            marked[i] = IF i = t
                        THEN [transactions[i] EXCEPT !.status = "reversed"]
                        ELSE transactions[i]
          BY <1>1, <3>1
    <3>6. QED  BY <2>1, <3>4, <3>5 DEF MarkedOriginal
  <2>2. CASE req[h].op # "reversal"
        BY <1>1, <2>2 DEF MarkedOriginal
  <2>3. QED  BY <2>1, <2>2
<1>4. transactions' = Append(MarkedOriginal(h), NewTransaction(h))
      BY DEF Post
<1>5. QED  BY <1>1, <1>2, <1>3, <1>4, AppendProperties

\* No row changes but in its status, and the numbers of the rows stay.
LEMMA PostKeepsRows ==
    ASSUME TypeInv, NEW h \in Handlers, Post(h), NEW i \in DOMAIN transactions
    PROVE  /\ i \in DOMAIN transactions'
           /\ i \in Nat \ {0} /\ i <= Len(transactions)
           /\ transactions[i] \in Transactions
           /\ transactions'[i].type = transactions[i].type
           /\ transactions'[i].source = transactions[i].source
           /\ transactions'[i].destination = transactions[i].destination
           /\ transactions'[i].amount = transactions[i].amount
           /\ transactions'[i].key = transactions[i].key
           /\ transactions'[i].related = transactions[i].related
           /\ transactions'[i].status \in {transactions[i].status, "reversed"}
<1>1. transactions[i] \in Transactions
      BY PostTransactions
<1>2. i \in Nat \ {0} /\ i <= Len(transactions) /\ i \in DOMAIN transactions'
      BY PostTransactions
<1>3. transactions'[i] \in {transactions[i],
                            [transactions[i] EXCEPT !.status = "reversed"]}
      BY PostTransactions
<1>4. QED  BY <1>1, <1>2, <1>3 DEF Transactions

\* One name for the disjuncts of Next: what a handler or its client does.
Acts(h) == SubmitMovement(h) \/ SubmitPatch(h) \/ Step(h) \/ Fail(h)

----
\* Keys move money once.

\* A handler comes to hold a key by inserting its record, and only so.
LEMMA HeldKeys ==
    ASSUME TypeInv, NEW h \in Handlers, Acts(h), NEW g \in Handlers,
           NEW k \in Keys, NEW op \in MovementTypes, HoldsKey(g, k, op)'
    PROVE  /\ \/ HoldsKey(g, k, op)
              \/ /\ g = h
                 /\ InsertKey(h)
                 /\ req[h].key = k
                 /\ req[h].op = op
           /\ Post(h) => g # h
           /\ k # NoKey
<1>1. InTransaction(g)' /\ req'[g].op = op /\ req'[g].key = k /\ k # NoKey
      BY DEF HoldsKey
<1>2. CASE g # h
  <2>1. pc'[g] = pc[g] /\ req'[g] = req[g]
        BY <1>2, OneHandlerMoves DEF Acts, Alone
  <2>2. QED  BY <1>1, <1>2, <2>1 DEF HoldsKey, InTransaction
<1>3. CASE g = h
  <2>1. pc'[h] \in {"original", "wallets"}
        BY <1>1, <1>3 DEF InTransaction
  <2>2. InsertKey(h) \/ LockOriginal(h) \/ \E w \in Wallets : LockWallet(h, w)
        BY <2>1, EntersTransaction DEF Acts
  <2>3. req' = req /\ ~Post(h)
    <3>1. CASE InsertKey(h)
          BY <3>1 DEF InsertKey, Goto, Post
    <3>2. CASE LockOriginal(h)
          BY <3>2 DEF LockOriginal, Goto, Post
    <3>3. CASE \E w \in Wallets : LockWallet(h, w)
      <4>1. PICK w \in Wallets : LockWallet(h, w)
            BY <3>3
      <4>2. pc' = pc /\ req' = req /\ pc[h] = "wallets"
            BY <4>1 DEF LockWallet
      <4>3. ~Post(h)
            BY <4>2 DEF Post, TypeInv, TypeOK
      <4>4. QED  BY <4>2, <4>3
    <3>4. QED  BY <2>2, <3>1, <3>2, <3>3
  <2>4. InsertKey(h) \/ InTransaction(h)
        BY <2>2 DEF LockOriginal, LockWallet, InTransaction
  <2>5. QED  BY <1>1, <1>3, <2>3, <2>4 DEF HoldsKey
<1>4. QED  BY <1>2, <1>3

\* The commit stores the response under its own key and touches no other.
LEMMA PostRecords ==
    ASSUME TypeInv, NEW h \in Handlers, Post(h),
           NEW k \in Keys, NEW op \in MovementTypes
    PROVE  idempotency'[<<k, op>>] =
             IF k = req[h].key /\ op = req[h].op
             THEN [request |-> req[h], tx |-> Len(transactions) + 1]
             ELSE idempotency[<<k, op>>]
<1>1. <<k, op>> \in Keys \X MovementTypes
      OBVIOUS
<1>2. idempotency' = SavedResponse(h, Len(transactions) + 1)
      BY DEF Post
<1>3. idempotency \in [Keys \X MovementTypes -> Records \cup {NoRecord}]
      BY DEF TypeInv, TypeOK
<1>4. QED  BY <1>1, <1>2, <1>3, ConstantsAssumption DEF SavedResponse

\* The first disjunct of [Next]_vars is a handler that acts.
LEMMA NextActs == Next => \E h \in Handlers : Acts(h)
    BY DEF Next, Acts

LEMMA KeyInvInit == Init => KeyInv
    BY DEF Init, KeyInv, KeyHeld, KeyedOnce, HoldsKey, InTransaction

LEMMA KeyInvNext == TypeInv /\ KeyInv /\ [Next]_vars => KeyInv'
<1> SUFFICES ASSUME TypeInv, KeyInv, [Next]_vars PROVE KeyInv'
    OBVIOUS
<1>1. ASSUME NEW h \in Handlers, Acts(h) PROVE KeyHeld'
  <2> SUFFICES ASSUME NEW g \in Handlers, NEW k \in Keys,
                      NEW op \in MovementTypes, HoldsKey(g, k, op)'
               PROVE  /\ idempotency'[<<k, op>>] = NoRecord
                      /\ \A f \in Handlers : HoldsKey(f, k, op)' => f = g
      BY DEF KeyHeld
  <2>1. ASSUME NEW f \in Handlers, HoldsKey(f, k, op)'
        PROVE  /\ HoldsKey(f, k, op) \/ (f = h /\ InsertKey(h))
               /\ f = h /\ InsertKey(h) =>
                    \A e \in Handlers \ {h} : ~HoldsKey(e, k, op)
    <3>1. HoldsKey(f, k, op) \/ (f = h /\ InsertKey(h) /\ req[h].key = k
                                       /\ req[h].op = op)
          BY <1>1, <2>1, HeldKeys
    <3>2. InsertKey(h) => ~InTransaction(h)
          BY DEF InsertKey, InTransaction
    <3>3. QED  BY <3>1, <3>2 DEF InsertKey, KeyBusy, HoldsKey
  <2>2. \A f \in Handlers : HoldsKey(f, k, op)' => f = g
        BY <2>1 DEF KeyInv, KeyHeld
  <2>3. idempotency[<<k, op>>] = NoRecord
    <3>1. CASE HoldsKey(g, k, op)
          BY <3>1 DEF KeyInv, KeyHeld
    <3>2. CASE InsertKey(h) /\ req[h].key = k /\ req[h].op = op
          BY <3>2, ConstantsAssumption DEF InsertKey, StoredRecord
    <3>3. QED  BY <1>1, <3>1, <3>2, HeldKeys
  <2>4. CASE Post(h)
    <3>1. HoldsKey(g, k, op) /\ g # h
      <4>1. ~InsertKey(h)
            BY <2>4 DEF Post, InsertKey
      <4>2. QED  BY <1>1, <2>4, <4>1, HeldKeys
    <3>2. ASSUME k = req[h].key, op = req[h].op PROVE FALSE
      <4>1. HoldsKey(h, k, op)
            BY <2>4, <3>1, <3>2 DEF HoldsKey, InTransaction, Post
      <4>2. QED  BY <3>1, <4>1 DEF KeyInv, KeyHeld
    <3>3. QED  BY <2>2, <2>3, <2>4, <3>2, PostRecords
  <2>5. CASE ~Post(h)
        BY <1>1, <2>2, <2>3, <2>5, OneHandlerMoves DEF Acts
  <2>6. QED  BY <2>4, <2>5
<1>2. ASSUME NEW h \in Handlers, Post(h) PROVE KeyedOnce'
  <2> DEFINE id == Len(transactions) + 1
  <2>1. /\ req[h] \in Movements
        /\ req[h].key \in MaybeKey
        /\ req[h].op \in MovementTypes
        BY <1>2, RequestKinds DEF Post, TypeInv, Control
  <2>2. req[h].key # NoKey => idempotency[<<req[h].key, req[h].op>>] = NoRecord
        BY <1>2, <2>1 DEF KeyInv, KeyHeld, HoldsKey, InTransaction, Post,
                          MaybeKey
  <2>3. ASSUME NEW i \in DOMAIN transactions', transactions'[i].key # NoKey
        PROVE  idempotency'[<<transactions'[i].key, transactions'[i].type>>].tx
                 = i
    <3>1. CASE i \in DOMAIN transactions
      <4>1. /\ transactions'[i].key = transactions[i].key
            /\ transactions'[i].type = transactions[i].type
            /\ transactions[i] \in Transactions
            /\ i # 0
            BY <1>2, <3>1, PostKeepsRows
      <4>2. /\ transactions[i].key \in Keys
            /\ transactions[i].type \in MovementTypes
            BY <2>3, <4>1 DEF Transactions, MaybeKey
      <4>3. idempotency[<<transactions[i].key, transactions[i].type>>].tx = i
            BY <2>3, <3>1, <4>1 DEF KeyInv, KeyedOnce
      <4>4. ~(transactions[i].key = req[h].key /\ transactions[i].type = req[h].op)
            BY <2>2, <2>3, <4>1, <4>3 DEF NoRecord
      <4>5. PICK k \in Keys, op \in MovementTypes :
              k = transactions[i].key /\ op = transactions[i].type
            BY <4>2
      <4>6. idempotency'[<<k, op>>] = idempotency[<<k, op>>]
            BY <1>2, <4>4, <4>5, PostRecords
      <4>7. QED  BY <4>1, <4>3, <4>5, <4>6
    <3>2. CASE i \notin DOMAIN transactions
      <4>1. i = id /\ transactions'[i] = NewTransaction(h)
            BY <1>2, <2>3, <3>2, PostTransactions
      <4>2. /\ transactions'[i].key = req[h].key
            /\ transactions'[i].type = req[h].op
            BY <4>1 DEF NewTransaction
      <4>3. req[h].key \in Keys
            BY <2>1, <2>3, <4>2 DEF MaybeKey
      <4>4. idempotency'[<<req[h].key, req[h].op>>] =
              [request |-> req[h], tx |-> id]
            BY <1>2, <2>1, <4>3, PostRecords
      <4>5. QED  BY <4>1, <4>2, <4>4
    <3>3. QED  BY <3>1, <3>2
  <2>4. ASSUME NEW k \in Keys, NEW op \in MovementTypes,
               idempotency'[<<k, op>>] # NoRecord
        PROVE  /\ idempotency'[<<k, op>>].tx \in DOMAIN transactions'
               /\ idempotency'[<<k, op>>].request.op = op
               /\ idempotency'[<<k, op>>].request.key = k
               /\ transactions'[idempotency'[<<k, op>>].tx].type = op
               /\ transactions'[idempotency'[<<k, op>>].tx].key = k
    <3>1. CASE k = req[h].key /\ op = req[h].op
      <4>1. idempotency'[<<k, op>>] = [request |-> req[h], tx |-> id]
            BY <1>2, <3>1, PostRecords
      <4>2. id \in DOMAIN transactions' /\ transactions'[id] = NewTransaction(h)
            BY <1>2, PostTransactions
      <4>3. QED  BY <3>1, <4>1, <4>2 DEF NewTransaction
    <3>2. CASE ~(k = req[h].key /\ op = req[h].op)
      <4>1. idempotency'[<<k, op>>] = idempotency[<<k, op>>]
            BY <1>2, <3>2, PostRecords
      <4>2. /\ idempotency[<<k, op>>].tx \in DOMAIN transactions
            /\ idempotency[<<k, op>>].request.op = op
            /\ idempotency[<<k, op>>].request.key = k
            /\ transactions[idempotency[<<k, op>>].tx].type = op
            /\ transactions[idempotency[<<k, op>>].tx].key = k
            BY <2>4, <4>1 DEF KeyInv, KeyedOnce
      <4>3. QED  BY <1>2, <4>1, <4>2, PostKeepsRows
    <3>3. QED  BY <3>1, <3>2
  <2>5. QED  BY <2>3, <2>4 DEF KeyedOnce
<1>3. ASSUME NEW h \in Handlers, Acts(h), ~Post(h) PROVE KeyedOnce'
  <2>1. UNCHANGED <<transactions, idempotency>>
        BY <1>3, OneHandlerMoves DEF Acts
  <2>2. QED  BY <2>1 DEF KeyInv, KeyedOnce
<1>4. CASE UNCHANGED vars
      BY <1>4 DEF vars, KeyInv, KeyHeld, KeyedOnce, HoldsKey, InTransaction
<1>5. QED  BY <1>1, <1>2, <1>3, <1>4, NextActs DEF KeyInv

\* An idempotency key moves money at most once per endpoint, whatever
\* duplicates run concurrently: every keyed transaction is the one its
\* committed record names, and every record names such a transaction.
THEOREM KeysMoveMoneyOnce == Spec => []KeyedOnce
<1>1. KeyInv => KeyedOnce
      BY DEF KeyInv
<1>2. QED  BY <1>1, TypeInvInit, TypeInvNext, KeyInvInit, KeyInvNext, PTL
             DEF Spec

----
\* Transactions are reversed once.

\* A handler comes to hold the transaction to reverse by locking it.
LEMMA HeldOriginals ==
    ASSUME TypeInv, NEW h \in Handlers, Acts(h), NEW g \in Handlers,
           NEW i \in TxIds, HoldsOriginal(g, i)'
    PROVE  /\ \/ HoldsOriginal(g, i)
              \/ /\ g = h
                 /\ LockOriginal(h)
                 /\ req[h].target = i
           /\ Post(h) => g # h
<1>1. pc'[g] = "wallets" /\ req'[g].op = "reversal" /\ req'[g].target = i
      BY DEF HoldsOriginal
<1>2. CASE g # h
  <2>1. pc'[g] = pc[g] /\ req'[g] = req[g]
        BY <1>2, OneHandlerMoves DEF Acts, Alone
  <2>2. QED  BY <1>1, <1>2, <2>1 DEF HoldsOriginal
<1>3. CASE g = h
  <2>1. \/ InsertKey(h) /\ req[h].op # "reversal"
        \/ LockOriginal(h)
        \/ \E w \in Wallets : LockWallet(h, w)
        BY <1>1, <1>3, EntersTransaction DEF Acts
  <2>2. CASE InsertKey(h) /\ req[h].op # "reversal"
        BY <1>1, <1>3, <2>2 DEF InsertKey, Goto
  <2>3. CASE LockOriginal(h)
        BY <1>1, <1>3, <2>3 DEF LockOriginal, Goto, Post
  <2>4. CASE \E w \in Wallets : LockWallet(h, w)
    <3>1. PICK w \in Wallets : LockWallet(h, w)
          BY <2>4
    <3>2. pc' = pc /\ req' = req /\ pc[h] = "wallets"
          BY <3>1 DEF LockWallet
    <3>3. ~Post(h)
          BY <3>2 DEF Post, TypeInv, TypeOK
    <3>4. QED  BY <1>1, <1>3, <3>2, <3>3 DEF HoldsOriginal
  <2>5. QED  BY <2>1, <2>2, <2>3, <2>4
<1>4. QED  BY <1>2, <1>3

\* The handler that posts a reversal holds its original.
LEMMA PostHoldsOriginal ==
    ASSUME TypeInv, NEW h \in Handlers, Post(h), req[h].op = "reversal"
    PROVE  /\ req[h].target \in TxIds
           /\ req[h].target \in DOMAIN transactions
           /\ HoldsOriginal(h, req[h].target)
<1>1. pc[h] = "wallets" /\ req[h] \in Reversals
      BY RequestKinds DEF Post, TypeInv, Control
<1>2. QED  BY <1>1 DEF HoldsOriginal, Reversals, TypeInv, Control

\* The rows a reversal relates to come before it, and other rows relate to
\* nothing.
LEMMA RelatedComesFirst ==
    ASSUME TypeInv, ReversalInv, NEW j \in DOMAIN transactions
    PROVE  /\ transactions[j].related \in Nat
           /\ transactions[j].related < j
           /\ j \in Nat
           /\ transactions[j].type = "reversal" =>
                transactions[j].related \in DOMAIN transactions
<1>1. transactions \in Seq(Transactions)
      BY DEF TypeInv, TypeOK
<1>2. /\ transactions[j] \in Transactions
      /\ j \in Nat \ {0}
      /\ j <= Len(transactions)
      /\ Len(transactions) \in Nat
      /\ DOMAIN transactions = 1..Len(transactions)
      BY <1>1
<1>3. transactions[j].related \in Nat
      BY <1>2 DEF Transactions
<1>4. CASE transactions[j].type = "reversal"
  <2>1. transactions[j].related \in 1..(j - 1)
        BY <1>4 DEF ReversalInv, ReversedOnce
  <2>2. QED  BY ONLY <1>2, <1>3, <2>1
<1>5. CASE transactions[j].type # "reversal"
  <2>1. transactions[j].related = 0
        BY <1>5 DEF ReversalInv
  <2>2. QED  BY <1>2, <1>5, <2>1
<1>6. QED  BY <1>4, <1>5

LEMMA ReversalInvInit == Init => ReversalInv
    BY DEF Init, ReversalInv, OriginalHeld, ReversedOnce, HoldsOriginal

\* Locking the original keeps its other reversals out until the end.
LEMMA OriginalHeldNext ==
    ASSUME TypeInv, OriginalHeld, NEW h \in Handlers, Acts(h)
    PROVE  OriginalHeld'
<1> SUFFICES ASSUME NEW g \in Handlers, NEW i \in TxIds, HoldsOriginal(g, i)'
             PROVE  /\ transactions'[i].status = "completed"
                    /\ transactions'[i].type # "reversal"
                    /\ \A f \in Handlers : HoldsOriginal(f, i)' => f = g
    BY DEF OriginalHeld
<1>1. ASSUME NEW f \in Handlers, HoldsOriginal(f, i)'
      PROVE  /\ HoldsOriginal(f, i) \/ (f = h /\ LockOriginal(h))
             /\ f = h /\ LockOriginal(h) =>
                  \A e \in Handlers \ {h} : ~HoldsOriginal(e, i)
  <2>1. HoldsOriginal(f, i) \/ (f = h /\ LockOriginal(h) /\ req[h].target = i)
        BY <1>1, HeldOriginals
  <2>2. LockOriginal(h) => pc[h] = "original"
        BY DEF LockOriginal
  <2>3. QED  BY <2>1, <2>2 DEF LockOriginal, OriginalBusy, HoldsOriginal
<1>2. \A f \in Handlers : HoldsOriginal(f, i)' => f = g
      BY <1>1 DEF OriginalHeld
<1>3. /\ i \in DOMAIN transactions
      /\ transactions[i].status = "completed"
      /\ transactions[i].type # "reversal"
  <2>1. CASE HoldsOriginal(g, i)
        BY <2>1 DEF OriginalHeld, HoldsOriginal, TypeInv, Control
  <2>2. CASE LockOriginal(h) /\ req[h].target = i
    <3>1. OriginalVerdict(i) = "created"
          BY <2>2 DEF LockOriginal
    <3>2. /\ i \in DOMAIN transactions
          /\ transactions[i].status # "reversed"
          /\ transactions[i].type # "reversal"
          BY <3>1 DEF OriginalVerdict
    <3>3. transactions[i] \in Transactions
          BY <3>2 DEF TypeInv, TypeOK
    <3>4. QED  BY <3>2, <3>3 DEF Transactions
  <2>3. QED  BY <2>1, <2>2, HeldOriginals
<1>4. CASE Post(h)
  <2>1. HoldsOriginal(g, i) /\ g # h
    <3>1. ~LockOriginal(h)
          BY <1>4 DEF Post, LockOriginal
    <3>2. QED  BY <1>4, <3>1, HeldOriginals
  <2>2. ~(req[h].op = "reversal" /\ i = req[h].target)
        BY <1>4, <2>1, PostHoldsOriginal DEF OriginalHeld
  <2>3. transactions'[i] = transactions[i]
        BY <1>3, <1>4, <2>2, PostTransactions
  <2>4. QED  BY <1>2, <1>3, <2>3
<1>5. CASE ~Post(h)
      BY <1>2, <1>3, <1>5, OneHandlerMoves DEF Acts
<1>6. QED  BY <1>4, <1>5

\* The commit adds the one reversal of the transaction it marks.
LEMMA ReversedOncePost ==
    ASSUME TypeInv, ReversalInv, NEW h \in Handlers, Post(h)
    PROVE  /\ ReversedOnce'
           /\ \A i \in DOMAIN transactions' :
                transactions'[i].type # "reversal" =>
                    transactions'[i].related = 0
<1> DEFINE n == Len(transactions) + 1
           i0 == req[h].target
           reverses == req[h].op = "reversal"
<1>1. /\ n \in Nat
      /\ DOMAIN transactions = 1..(n - 1)
      /\ DOMAIN transactions' = 1..n
      /\ transactions'[n] = NewTransaction(h)
      BY PostTransactions
<1>2. ASSUME NEW i \in DOMAIN transactions
      PROVE  /\ i \in Nat /\ i # 0 /\ i < n
             /\ i \in DOMAIN transactions'
             /\ transactions'[i].type = transactions[i].type
             /\ transactions'[i].source = transactions[i].source
             /\ transactions'[i].destination = transactions[i].destination
             /\ transactions'[i].amount = transactions[i].amount
             /\ transactions'[i].related = transactions[i].related
             /\ transactions[i].related \in Nat
             /\ transactions[i].related < i
             /\ transactions[i].type = "reversal" =>
                  transactions[i].related \in DOMAIN transactions
      BY <1>1, PostKeepsRows, RelatedComesFirst
<1>3. ASSUME NEW i \in DOMAIN transactions
      PROVE  transactions'[i].status = "reversed" <=>
               transactions[i].status = "reversed" \/ (reverses /\ i = i0)
  <2>1. transactions[i] \in Transactions
        BY DEF TypeInv, TypeOK
  <2>2. QED  BY <2>1, PostTransactions DEF Transactions
<1>4. /\ transactions'[n].type = req[h].op
      /\ transactions'[n].status = "completed"
      /\ transactions'[n].related = IF reverses THEN i0 ELSE 0
      BY <1>1 DEF NewTransaction
<1>5. reverses =>
        /\ i0 \in DOMAIN transactions
        /\ transactions[i0].status = "completed"
        /\ transactions[i0].type # "reversal"
        /\ transactions'[n].source = transactions[i0].destination
        /\ transactions'[n].destination = transactions[i0].source
        /\ transactions'[n].amount = transactions[i0].amount
  <2> SUFFICES ASSUME reverses
               PROVE  /\ i0 \in DOMAIN transactions
                      /\ transactions[i0].status = "completed"
                      /\ transactions[i0].type # "reversal"
                      /\ transactions'[n].source = transactions[i0].destination
                      /\ transactions'[n].destination = transactions[i0].source
                      /\ transactions'[n].amount = transactions[i0].amount
      OBVIOUS
  <2>1. i0 \in TxIds /\ i0 \in DOMAIN transactions /\ HoldsOriginal(h, i0)
        BY PostHoldsOriginal
  <2>2. /\ transactions[i0].status = "completed"
        /\ transactions[i0].type # "reversal"
        BY <2>1 DEF ReversalInv, OriginalHeld
  <2>3. Movement(h) = [from |-> transactions[i0].destination,
                       to |-> transactions[i0].source,
                       amount |-> transactions[i0].amount]
        BY DEF Movement
  <2>4. QED  BY <1>1, <2>1, <2>2, <2>3 DEF NewTransaction
<1>6. ASSUME NEW j \in DOMAIN transactions' PROVE j = n \/ j \in DOMAIN transactions
      BY <1>1
<1>7. n \in DOMAIN transactions' /\ n \notin DOMAIN transactions
      BY <1>1
<1> HIDE DEF n, i0, reverses
<1>8. ASSUME NEW i \in DOMAIN transactions'
      PROVE  transactions'[i].status = "reversed" <=>
               \E j \in DOMAIN transactions' : transactions'[j].related = i
  <2>1. CASE i \in DOMAIN transactions
    <3>1. transactions[i].status = "reversed" <=>
            \E j \in DOMAIN transactions : transactions[j].related = i
          BY <2>1 DEF ReversalInv, ReversedOnce
    <3>2. i # 0
          BY <1>2, <2>1
    <3>3. QED  BY <1>2, <1>3, <1>4, <1>6, <1>7, <2>1, <3>1, <3>2
  <2>2. CASE i = n
    <3>1. \A j \in DOMAIN transactions : transactions'[j].related # n
          BY <1>1, <1>2
    <3>2. transactions'[n].related # n
          BY <1>1, <1>2, <1>4, <1>5
    <3>3. QED  BY <1>4, <1>6, <2>2, <3>1, <3>2
  <2>3. QED  BY <1>6, <2>1, <2>2
<1>9. ASSUME NEW j \in DOMAIN transactions', transactions'[j].type = "reversal"
      PROVE  LET r == transactions'[j]
             IN /\ r.related \in 1..(j - 1)
                /\ transactions'[r.related].type # "reversal"
                /\ r.source = transactions'[r.related].destination
                /\ r.destination = transactions'[r.related].source
                /\ r.amount = transactions'[r.related].amount
  <2>1. CASE j \in DOMAIN transactions
    <3>1. LET r == transactions[j]
          IN /\ r.related \in 1..(j - 1)
             /\ transactions[r.related].type # "reversal"
             /\ r.source = transactions[r.related].destination
             /\ r.destination = transactions[r.related].source
             /\ r.amount = transactions[r.related].amount
          BY <1>2, <1>9, <2>1 DEF ReversalInv, ReversedOnce
    <3>2. transactions[j].related \in DOMAIN transactions
          BY <1>2, <1>9, <2>1
    <3>3. QED  BY <1>2, <2>1, <3>1, <3>2
  <2>2. CASE j = n
    <3>1. reverses
          BY <1>4, <1>9, <2>2 DEF reverses
    <3>2. i0 \in 1..(n - 1)
          BY <1>1, <1>5, <3>1
    <3>3. QED  BY <1>2, <1>4, <1>5, <2>2, <3>1, <3>2
  <2>3. QED  BY <1>6, <2>1, <2>2
<1>10. ASSUME NEW j \in DOMAIN transactions', NEW k \in DOMAIN transactions',
              transactions'[j].type = "reversal",
              transactions'[k].related = transactions'[j].related
       PROVE  j = k
  <2>1. CASE j \in DOMAIN transactions /\ k \in DOMAIN transactions
        BY <1>2, <1>10, <2>1 DEF ReversalInv, ReversedOnce
  <2>2. CASE j = n /\ k \in DOMAIN transactions
    <3>1. reverses /\ transactions[k].related = i0
          BY <1>2, <1>4, <1>10, <2>2 DEF reverses
    <3>2. transactions[i0].status = "reversed"
          BY <1>5, <2>2, <3>1 DEF ReversalInv, ReversedOnce
    <3>3. QED  BY <1>5, <3>1, <3>2
  <2>3. CASE k = n /\ j \in DOMAIN transactions
    <3>1. transactions[j].related \in DOMAIN transactions
          BY <1>2, <1>10, <2>3
    <3>2. reverses /\ transactions[j].related = i0
          BY <1>2, <1>4, <1>10, <2>3, <3>1
    <3>3. transactions[i0].status = "reversed"
          BY <1>5, <2>3, <3>2 DEF ReversalInv, ReversedOnce
    <3>4. QED  BY <1>5, <3>2, <3>3
  <2>4. QED  BY <1>6, <2>1, <2>2, <2>3
<1>11. ReversedOnce'
       BY <1>8, <1>9, <1>10 DEF ReversedOnce
<1>12. ASSUME NEW i \in DOMAIN transactions', transactions'[i].type # "reversal"
       PROVE  transactions'[i].related = 0
  <2>1. CASE i = n
        BY <1>4, <1>12, <2>1 DEF reverses
  <2>2. CASE i \in DOMAIN transactions
        BY <1>2, <1>12, <2>2 DEF ReversalInv
  <2>3. QED  BY <1>6, <2>1, <2>2
<1>13. QED  BY <1>11, <1>12

LEMMA ReversalInvNext == TypeInv /\ ReversalInv /\ [Next]_vars => ReversalInv'
<1> SUFFICES ASSUME TypeInv, ReversalInv, [Next]_vars PROVE ReversalInv'
    OBVIOUS
<1>1. ASSUME NEW h \in Handlers, Acts(h) PROVE OriginalHeld'
      BY <1>1, OriginalHeldNext DEF ReversalInv
<1>2. ASSUME NEW h \in Handlers, Post(h), OriginalHeld' PROVE ReversalInv'
      BY <1>2, ReversedOncePost DEF ReversalInv
<1>3. ASSUME NEW h \in Handlers, Acts(h), ~Post(h), OriginalHeld'
      PROVE  ReversalInv'
  <2>1. UNCHANGED transactions
        BY <1>3, OneHandlerMoves DEF Acts
  <2>2. QED  BY <1>3, <2>1 DEF ReversalInv, ReversedOnce
<1>4. CASE UNCHANGED vars
      BY <1>4 DEF vars, ReversalInv, ReversedOnce, OriginalHeld, HoldsOriginal
<1>5. QED  BY <1>1, <1>2, <1>3, <1>4, NextActs

LEMMA HistoryInvariant == Spec => [](TypeInv /\ KeyInv /\ ReversalInv)
    BY TypeInvInit, TypeInvNext, KeyInvInit, KeyInvNext, ReversalInvInit,
       ReversalInvNext, PTL DEF Spec

\* A transaction is marked reversed exactly when one later transaction
\* compensates it between the same wallets and for the same amount, however
\* many reversals of it are attempted at once.
THEOREM ReversalsHappenOnce == Spec => []ReversedOnce
<1>1. ReversalInv => ReversedOnce
      BY DEF ReversalInv
<1>2. QED  BY <1>1, HistoryInvariant, PTL

\* Committed money movement is never rewritten: a step appends rows and
\* changes at most the status of the one row the new row compensates.
THEOREM CommittedRowsStay == Spec => HistoryImmutable
<1> DEFINE Appends ==
             /\ Len(transactions) <= Len(transactions')
             /\ \A i \in DOMAIN transactions :
                  \/ transactions'[i] = transactions[i]
                  \/ /\ transactions[i].status = "completed"
                     /\ transactions'[i] =
                          [transactions[i] EXCEPT !.status = "reversed"]
                     /\ \E j \in DOMAIN transactions' \ DOMAIN transactions :
                           transactions'[j].related = i
<1>1. ASSUME TypeInv, UNCHANGED transactions PROVE Appends
      BY <1>1 DEF TypeInv, TypeOK
<1>2. ASSUME TypeInv, ReversalInv, NEW h \in Handlers, Post(h) PROVE Appends
  <2> DEFINE n == Len(transactions) + 1
  <2>1. /\ Len(transactions) <= Len(transactions')
        /\ n \in DOMAIN transactions' \ DOMAIN transactions
        /\ transactions'[n] = NewTransaction(h)
        BY <1>2, PostTransactions
  <2>2. ASSUME NEW i \in DOMAIN transactions, transactions'[i] # transactions[i]
        PROVE  /\ transactions[i].status = "completed"
               /\ transactions'[i] = [transactions[i] EXCEPT !.status = "reversed"]
               /\ transactions'[n].related = i
    <3>1. /\ req[h].op = "reversal"
          /\ i = req[h].target
          /\ transactions'[i] = [transactions[i] EXCEPT !.status = "reversed"]
          BY <1>2, <2>2, PostTransactions
    <3>2. i \in TxIds /\ HoldsOriginal(h, i)
          BY <1>2, <3>1, PostHoldsOriginal
    <3>3. transactions[i].status = "completed"
          BY <1>2, <3>2 DEF ReversalInv, OriginalHeld
    <3>4. QED  BY <2>1, <3>1, <3>3 DEF NewTransaction
  <2>3. QED  BY <2>1, <2>2
<1>3. TypeInv /\ ReversalInv /\ [Next]_vars => Appends
  <2> SUFFICES ASSUME TypeInv, ReversalInv, [Next]_vars PROVE Appends
      OBVIOUS
  <2>1. ASSUME NEW h \in Handlers, Acts(h) PROVE Appends
    <3>1. Post(h) \/ UNCHANGED transactions
          BY <2>1, OneHandlerMoves DEF Acts
    <3>2. QED  BY <1>1, <1>2, <3>1
  <2>2. CASE UNCHANGED vars
        BY <1>1, <2>2 DEF vars
  <2>3. QED  BY <2>1, <2>2, NextActs
<1>4. TypeInv /\ ReversalInv /\ [Next]_vars => [Appends]_vars
      BY <1>3
<1>5. Spec => [][Appends]_vars
      BY <1>4, HistoryInvariant, PTL DEF Spec
<1>6. QED  BY <1>5 DEF HistoryImmutable

----
\* Answers are true.

\* The steps that answer, and with what, as far as CreatedIsServed and
\* RefusalsAreTrue look at it.
LEMMA AnswerOf ==
    ASSUME TypeInv, Unanswered, NEW h \in Handlers, Acts(h),
           reply'[h].code # "none"
    PROVE  /\ pc'[h] = "idle"
           /\ req'[h] = req[h]
           /\ \/ reply'[h].code \notin {"created", "conflict", "already_reversed",
                                        "idempotency_conflict"}
              \/ /\ RefuseReusedKey(h)
                 /\ reply'[h].code = "idempotency_conflict"
              \/ RefuseDuplicateKey(h) /\ reply'[h].code = "conflict"
              \/ /\ RefuseOriginal(h)
                 /\ reply'[h].code = OriginalVerdict(req[h].target)
              \/ /\ ReplayResponse(h)
                 /\ reply'[h].code = "created"
                 /\ reply'[h].tx = StoredRecord(req[h]).tx
              \/ /\ Respond(h)
                 /\ reply'[h].code = "created"
                 /\ reply'[h].tx = reply[h].tx
<1>1. CASE SubmitMovement(h) \/ SubmitPatch(h)
      BY <1>1 DEF SubmitMovement, SubmitPatch, TypeInv, TypeOK
<1>2. CASE \/ BeginTransaction(h) \/ InsertKey(h) \/ LockOriginal(h)
           \/ ReadWallet(h)
  <2>1. reply' = reply /\ pc[h] # "idle"
        BY <1>2 DEF BeginTransaction, InsertKey, LockOriginal, ReadWallet, Goto
  <2>2. QED  BY <2>1 DEF Unanswered
<1>3. CASE \E w \in Wallets : LockWallet(h, w)
  <2>1. reply' = reply /\ pc[h] # "idle"
        BY <1>3 DEF LockWallet
  <2>2. QED  BY <2>1 DEF Unanswered
<1>4. CASE Post(h)
  <2>1. reply'[h].code = reply[h].code /\ pc[h] # "idle"
        BY <1>4 DEF Post, TypeInv, TypeOK
  <2>2. QED  BY <2>1 DEF Unanswered
<1>5. CASE RefuseSelfTransfer(h)
      BY <1>5 DEF Answer, TypeInv, TypeOK, RefuseSelfTransfer
<1>6. CASE RefuseReusedKey(h)
      BY <1>6 DEF Answer, TypeInv, TypeOK, RefuseReusedKey
<1>7. CASE ReplayResponse(h)
      BY <1>7 DEF Answer, TypeInv, TypeOK, ReplayResponse
<1>8. CASE RefuseDuplicateKey(h)
      BY <1>8 DEF Answer, TypeInv, TypeOK, RefuseDuplicateKey
<1>9. CASE RefuseOriginal(h)
       BY <1>9 DEF Answer, TypeInv, TypeOK, RefuseOriginal
<1>10. CASE RefuseMovement(h)
  <2>1. Verdict(h) \notin {"created", "conflict", "already_reversed",
                           "idempotency_conflict"}
        BY <1>10 DEF RefuseMovement, Verdict
  <2>2. QED  BY <1>10, <2>1 DEF Answer, TypeInv, TypeOK, RefuseMovement
<1>11. CASE Respond(h)
       BY <1>11 DEF Answer, TypeInv, TypeOK, Respond
<1>12. CASE RefusePatch(h) \/ SaveWallet(h) \/ Fail(h)
       BY <1>12 DEF Answer, TypeInv, TypeOK, RefusePatch, SaveWallet, Fail
<1>13. QED
       BY <1>1, <1>2, <1>3, <1>4, <1>5, <1>6, <1>7, <1>8, <1>9, <1>10,
          <1>11, <1>12 DEF Acts, Step

\* A transaction that serves a request goes on doing so.
LEMMA ServesForEver ==
    ASSUME TypeInv, NEW h \in Handlers, Acts(h), NEW i \in DOMAIN transactions,
           NEW r, Serves(transactions[i], r)
    PROVE  i \in DOMAIN transactions' /\ Serves(transactions'[i], r)
<1>1. CASE Post(h)
  <2>1. /\ i \in DOMAIN transactions'
        /\ transactions'[i].type = transactions[i].type
        /\ transactions'[i].source = transactions[i].source
        /\ transactions'[i].destination = transactions[i].destination
        /\ transactions'[i].amount = transactions[i].amount
        /\ transactions'[i].key = transactions[i].key
        /\ transactions'[i].related = transactions[i].related
        BY <1>1, PostKeepsRows
  <2>2. QED  BY <2>1 DEF Serves
<1>2. CASE ~Post(h)
      BY <1>2, OneHandlerMoves DEF Acts
<1>3. QED  BY <1>1, <1>2

\* The row a movement appends is the transaction its request asks for.
LEMMA PostServes ==
    ASSUME TypeInv, NEW h \in Handlers, Post(h)
    PROVE  /\ Len(transactions) + 1 \in DOMAIN transactions'
           /\ Serves(transactions'[Len(transactions) + 1], req[h])
<1>1. /\ Len(transactions) + 1 \in DOMAIN transactions'
      /\ transactions'[Len(transactions) + 1] = NewTransaction(h)
      BY PostTransactions
<1>2. Serves(NewTransaction(h), req[h])
      BY DEF Serves, NewTransaction, Movement
<1>3. QED  BY <1>1, <1>2

\* A committed record is never replaced: the insert of its key fails.
LEMMA RecordsForEver ==
    ASSUME TypeInv, KeyInv, NEW h \in Handlers, Acts(h),
           NEW r \in Movements, StoredRecord(r) # NoRecord
    PROVE  /\ StoredRecord(r)' = StoredRecord(r)
           /\ <<r.key, r.op>> \in Keys \X MovementTypes
           /\ StoredRecord(r) = idempotency[<<r.key, r.op>>]
<1>1. /\ r.key \in Keys /\ r.key # NoKey
      /\ r.op \in MovementTypes
      /\ StoredRecord(r) = idempotency[<<r.key, r.op>>]
      BY RequestKinds DEF StoredRecord, MaybeKey
<1>2. PICK k \in Keys, op \in MovementTypes : k = r.key /\ op = r.op
      BY <1>1
<1>3. idempotency'[<<k, op>>] = idempotency[<<k, op>>]
  <2>1. CASE Post(h)
    <3>1. ASSUME k = req[h].key, op = req[h].op PROVE FALSE
      <4>1. HoldsKey(h, k, op)
            BY <1>1, <1>2, <2>1, <3>1 DEF Post, HoldsKey, InTransaction
      <4>2. QED  BY <1>1, <1>2, <4>1 DEF KeyInv, KeyHeld
    <3>2. QED  BY <2>1, <3>1, PostRecords
  <2>2. CASE ~Post(h)
        BY <2>2, OneHandlerMoves DEF Acts
  <2>3. QED  BY <2>1, <2>2
<1>4. QED  BY <1>1, <1>2, <1>3 DEF StoredRecord

LEMMA ServedInvInit == Init => ServedInv /\ RefusedInv
    BY DEF Init, ServedInv, Unanswered, ResponsesServed, RecordsServed,
           CreatedIsServed, RefusedInv, RefusalsAreTrue

LEMMA UnansweredNext ==
    ASSUME TypeInv, Unanswered, NEW h \in Handlers, Acts(h)
    PROVE  Unanswered'
<1> SUFFICES ASSUME NEW g \in Handlers, pc'[g] # "idle"
             PROVE  reply'[g].code = "none"
    BY DEF Unanswered
<1>1. CASE g # h
      BY <1>1, OneHandlerMoves DEF Acts, Alone, Unanswered
<1>2. CASE g = h
      BY <1>2, AnswerOf
<1>3. QED  BY <1>1, <1>2

LEMMA ServedInvNext ==
    ASSUME TypeInv, ServedInv, NEW h \in Handlers, Acts(h)
    PROVE  ServedInv'
<1> USE DEF ServedInv
<1>1. ResponsesServed'
  <2> SUFFICES ASSUME NEW g \in Handlers, pc'[g] = "respond"
               PROVE  /\ reply'[g].tx \in DOMAIN transactions'
                      /\ Serves(transactions'[reply'[g].tx], req'[g])
      BY DEF ResponsesServed
  <2>1. CASE g # h
    <3>1. pc'[g] = pc[g] /\ reply'[g] = reply[g] /\ req'[g] = req[g]
          BY <2>1, OneHandlerMoves DEF Acts, Alone
    <3>2. QED  BY <3>1, ServesForEver DEF ResponsesServed
  <2>2. CASE g = h
    <3>1. Post(h)
          BY <2>2, EntersTransaction DEF Acts
    <3>2. reply'[h].tx = Len(transactions) + 1 /\ req'[h] = req[h]
          BY <3>1 DEF Post, TypeInv, TypeOK
    <3>3. QED  BY <2>2, <3>1, <3>2, PostServes
  <2>3. QED  BY <2>1, <2>2
<1>2. RecordsServed'
  <2> SUFFICES ASSUME NEW k \in Keys, NEW op \in MovementTypes,
                      idempotency'[<<k, op>>] # NoRecord
               PROVE  /\ idempotency'[<<k, op>>].tx \in DOMAIN transactions'
                      /\ Serves(transactions'[idempotency'[<<k, op>>].tx],
                                idempotency'[<<k, op>>].request)
      BY DEF RecordsServed
  <2>1. CASE Post(h) /\ k = req[h].key /\ op = req[h].op
    <3>1. idempotency'[<<k, op>>] =
            [request |-> req[h], tx |-> Len(transactions) + 1]
          BY <2>1, PostRecords
    <3>2. QED  BY <2>1, <3>1, PostServes
  <2>2. CASE ~(Post(h) /\ k = req[h].key /\ op = req[h].op)
    <3>1. idempotency'[<<k, op>>] = idempotency[<<k, op>>]
          BY <2>2, PostRecords, OneHandlerMoves DEF Acts
    <3>2. QED  BY <3>1, ServesForEver DEF RecordsServed
  <2>3. QED  BY <2>1, <2>2
<1>3. CreatedIsServed'
  <2> SUFFICES ASSUME NEW g \in Handlers, reply'[g].code = "created"
               PROVE  /\ reply'[g].tx \in DOMAIN transactions'
                      /\ Serves(transactions'[reply'[g].tx], req'[g])
      BY DEF CreatedIsServed
  <2>1. CASE g # h
    <3>1. reply'[g] = reply[g] /\ req'[g] = req[g]
          BY <2>1, OneHandlerMoves DEF Acts, Alone
    <3>2. QED  BY <3>1, ServesForEver DEF CreatedIsServed
  <2>2. CASE g = h
    <3>1. req'[h] = req[h]
          BY <2>2, AnswerOf
    <3>2. CASE ReplayResponse(h) /\ reply'[h].tx = StoredRecord(req[h]).tx
      <4>1. req[h] \in Movements /\ StoredRecord(req[h]).request = req[h]
            BY <3>2 DEF ReplayResponse, TypeInv, Control
      <4>2. StoredRecord(req[h]) # NoRecord
            BY <4>1, RequestKinds DEF NoRecord, NoRequest, MovementTypes
      <4>3. PICK k \in Keys, op \in MovementTypes :
              StoredRecord(req[h]) = idempotency[<<k, op>>]
            BY <4>1, <4>2, RequestKinds DEF StoredRecord, MaybeKey
      <4>4. /\ idempotency[<<k, op>>].tx \in DOMAIN transactions
            /\ Serves(transactions[idempotency[<<k, op>>].tx], req[h])
            BY <4>1, <4>2, <4>3 DEF RecordsServed
      <4>5. QED  BY <2>2, <3>1, <3>2, <4>3, <4>4, ServesForEver
    <3>3. CASE Respond(h) /\ reply'[h].tx = reply[h].tx
          BY <2>2, <3>1, <3>3, ServesForEver DEF Respond, ResponsesServed
    <3>4. reply'[h].code = "created" /\ reply'[h].code # "none"
          BY <2>2
    <3>5. ~(RefuseOriginal(h) /\ reply'[h].code = OriginalVerdict(req[h].target))
          BY <3>4 DEF RefuseOriginal
    <3>6. \/ ReplayResponse(h) /\ reply'[h].tx = StoredRecord(req[h]).tx
          \/ Respond(h) /\ reply'[h].tx = reply[h].tx
          BY <3>4, <3>5, AnswerOf
    <3>7. QED  BY <3>2, <3>3, <3>6
  <2>3. QED  BY <2>1, <2>2
<1>4. QED  BY <1>1, <1>2, <1>3, UnansweredNext

LEMMA RefusedInvNext ==
    ASSUME TypeInv, KeyInv, Unanswered, RefusedInv, NEW h \in Handlers, Acts(h)
    PROVE  RefusedInv'
<1> DEFINE TrueOfKey(r) == r \in Movements /\ StoredRecord(r) # NoRecord
           Reversed(i) == i \in DOMAIN transactions
                            /\ transactions[i].status = "reversed"
<1>1. ASSUME NEW g \in Handlers,
             reply'[g].code \in {"conflict", "idempotency_conflict"}
      PROVE  /\ TrueOfKey(req[g])
             /\ req'[g] = req[g]
             /\ reply'[g].code = "idempotency_conflict" =>
                  StoredRecord(req[g]).request # req[g]
  <2>1. CASE g # h
        BY <1>1, <2>1, OneHandlerMoves
           DEF Acts, Alone, RefusedInv, RefusalsAreTrue
  <2>2. CASE g = h
    <3>1. reply'[h].code \in {"conflict", "idempotency_conflict"}
          BY <1>1, <2>2
    <3>2. reply'[h].code # OriginalVerdict(req[h].target)
          BY <3>1 DEF OriginalVerdict
    <3>3. /\ req'[h] = req[h]
          /\ \/ RefuseReusedKey(h)
             \/ RefuseDuplicateKey(h) /\ reply'[h].code = "conflict"
          BY <3>1, <3>2, AnswerOf
    <3>4. QED  BY <2>2, <3>3
                  DEF RefuseReusedKey, RefuseDuplicateKey, TypeInv, Control
  <2>3. QED  BY <2>1, <2>2
<1>2. ASSUME NEW g \in Handlers, reply'[g].code = "already_reversed"
      PROVE  Reversed(req[g].target) /\ req'[g] = req[g]
  <2>1. CASE g # h
        BY <1>2, <2>1, OneHandlerMoves
           DEF Acts, Alone, RefusedInv, RefusalsAreTrue
  <2>2. CASE g = h
    <3>1. reply'[h].code = "already_reversed"
          BY <1>2, <2>2
    <3>2. /\ req'[h] = req[h]
          /\ OriginalVerdict(req[h].target) = "already_reversed"
          BY <3>1, AnswerOf
    <3>3. QED  BY <2>2, <3>2 DEF OriginalVerdict
  <2>3. QED  BY <2>1, <2>2
<1>3. ASSUME NEW i \in DOMAIN transactions, transactions[i].status = "reversed"
      PROVE  /\ i \in DOMAIN transactions'
             /\ transactions'[i].status = "reversed"
  <2>1. CASE Post(h)
        BY <1>3, <2>1, PostKeepsRows
  <2>2. CASE ~Post(h)
        BY <1>3, <2>2, OneHandlerMoves DEF Acts
  <2>3. QED  BY <2>1, <2>2
<1>4. \A g \in Handlers :
         reply'[g].code \in {"conflict", "idempotency_conflict"} =>
           /\ req'[g] \in Movements
           /\ StoredRecord(req[g])' # NoRecord
           /\ reply'[g].code = "idempotency_conflict" =>
                StoredRecord(req[g])'.request # req'[g]
  <2> SUFFICES ASSUME NEW g \in Handlers,
                      reply'[g].code \in {"conflict", "idempotency_conflict"}
               PROVE  /\ req'[g] \in Movements
                      /\ StoredRecord(req[g])' # NoRecord
                      /\ reply'[g].code = "idempotency_conflict" =>
                           StoredRecord(req[g])'.request # req'[g]
      OBVIOUS
  <2>1. PICK r \in Movements : r = req[g] /\ StoredRecord(r) # NoRecord
        BY <1>1
  <2>2. StoredRecord(r)' = StoredRecord(r)
        BY <2>1, RecordsForEver
  <2>3. StoredRecord(req[g])' = StoredRecord(r)
        BY <1>1, <2>1, <2>2 DEF StoredRecord
  <2>4. QED  BY <1>1, <2>1, <2>3
<1>5. \A g \in Handlers :
         reply'[g].code = "already_reversed" =>
           /\ req'[g].target \in DOMAIN transactions'
           /\ transactions'[req'[g].target].status = "reversed"
      BY <1>2, <1>3
<1>6. QED  BY <1>4, <1>5 DEF RefusedInv, RefusalsAreTrue

LEMMA AnswerInvariant ==
    Spec => [](TypeInv /\ KeyInv /\ ServedInv /\ RefusedInv)
<1>1. TypeInv /\ KeyInv /\ ServedInv /\ RefusedInv /\ [Next]_vars
        => ServedInv' /\ RefusedInv'
  <2> SUFFICES ASSUME TypeInv, KeyInv, ServedInv, RefusedInv, [Next]_vars
               PROVE  ServedInv' /\ RefusedInv'
      OBVIOUS
  <2>1. ASSUME NEW h \in Handlers, Acts(h) PROVE ServedInv' /\ RefusedInv'
        BY <2>1, ServedInvNext, RefusedInvNext DEF ServedInv
  <2>2. CASE UNCHANGED vars
        BY <2>2 DEF vars, ServedInv, Unanswered, ResponsesServed,
                    RecordsServed, CreatedIsServed, RefusedInv,
                    RefusalsAreTrue, StoredRecord
  <2>3. QED  BY <2>1, <2>2, NextActs
<1>2. QED  BY <1>1, TypeInvInit, TypeInvNext, KeyInvInit, KeyInvNext,
              ServedInvInit, PTL DEF Spec

\* A 201, fresh or replayed, always carries a committed transaction that did
\* what this very request asked for.
THEOREM CreatedAnswersAreServed == Spec => []CreatedIsServed
<1>1. ServedInv => CreatedIsServed
      BY DEF ServedInv
<1>2. QED  BY <1>1, AnswerInvariant, PTL

\* A request refused for its key is one whose key did move money, and one
\* refused as already reversed names a reversed transaction, from the refusal
\* on and for ever.
THEOREM ConflictsAreReal == Spec => []RefusalsAreTrue
<1>1. RefusedInv => RefusalsAreTrue
      BY DEF RefusedInv
<1>2. QED  BY <1>1, AnswerInvariant, PTL

----
\* Nobody waits in a circle.

\* The ends of the movement a handler computes with do not change.
LEMMA MovementStays ==
    ASSUME TypeInv, NEW h \in Handlers, Acts(h), NEW g \in Handlers,
           pc[g] = "wallets", req'[g] = req[g]
    PROVE  /\ Movement(g)'.from = Movement(g).from
           /\ Movement(g)'.to = Movement(g).to
           /\ Movement(g)'.amount = Movement(g).amount
<1>1. req[g] \in Movements /\ req[g].op \in MovementTypes
      BY RequestKinds DEF TypeInv, Control
<1>2. CASE req[g].op # "reversal"
      BY <1>1, <1>2 DEF Movement, MovementTypes
<1>3. CASE req[g].op = "reversal"
  <2> DEFINE i == req[g].target
  <2>1. i \in DOMAIN transactions
        BY <1>3 DEF TypeInv, Control
  <2>2. /\ transactions'[i].source = transactions[i].source
        /\ transactions'[i].destination = transactions[i].destination
        /\ transactions'[i].amount = transactions[i].amount
        BY <2>1, PostKeepsRows, OneHandlerMoves DEF Acts
  <2>3. QED  BY <1>3, <2>2 DEF Movement
<1>4. QED  BY <1>2, <1>3

LEMMA LockOrderInit == Init => LockOrder
    BY DEF Init, LockOrder, HoldsWallet

LEMMA LockOrderNext ==
    TypeInv /\ LockInv /\ LockOrder /\ [Next]_vars => LockOrder'
<1> SUFFICES ASSUME TypeInv, LockInv, LockOrder, [Next]_vars PROVE LockOrder'
    OBVIOUS
<1>1. ASSUME NEW h \in Handlers, Acts(h) PROVE LockOrder'
  <2> SUFFICES ASSUME NEW g \in Handlers, NEW w \in Wallets,
                      HoldsWallet(g, w)', NEW v \in Unlocked(g)'
               PROVE  w < v
      BY DEF LockOrder
  <2>1. /\ pc'[g] = "wallets"
        /\ copy'[g][w] # NoRow
        /\ v \in Wallets
        /\ v \in {Movement(g)'.from, Movement(g)'.to}
        /\ copy'[g][v] = NoRow
        BY DEF HoldsWallet, Unlocked
  <2>2. CASE g # h
    <3>1. pc'[g] = pc[g] /\ req'[g] = req[g] /\ copy'[g] = copy[g]
          BY <1>1, <2>2, OneHandlerMoves DEF Acts, Alone
    <3>2. /\ Movement(g)'.from = Movement(g).from
          /\ Movement(g)'.to = Movement(g).to
          BY <1>1, <2>1, <3>1, MovementStays
    <3>3. HoldsWallet(g, w) /\ v \in Unlocked(g)
          BY <2>1, <3>1, <3>2 DEF HoldsWallet, Unlocked
    <3>4. QED  BY <3>3 DEF LockOrder
  <2>3. CASE g = h /\ ~\E u \in Wallets : LockWallet(h, u)
    <3>1. InsertKey(h) \/ LockOriginal(h)
          BY <1>1, <2>1, <2>3, EntersTransaction DEF Acts
    <3>2. copy' = copy /\ pc[h] \notin {"wallets", "save"}
          BY <3>1 DEF InsertKey, LockOriginal
    <3>3. copy[h][w] = NoRow
          BY <3>2 DEF LockInv, NothingKept, NoCopies
    <3>4. QED  BY <2>1, <2>3, <3>2, <3>3
  <2>4. CASE g = h /\ \E u \in Wallets : LockWallet(h, u)
    <3>1. PICK u \in Wallets : LockWallet(h, u)
          BY <2>4
    <3>2. /\ pc[h] = "wallets"
          /\ req' = req
          /\ copy' = [copy EXCEPT ![h][u] = wallets[u]]
          /\ wallets[u] # NoRow
          /\ u \in Unlocked(h)
          /\ \A x \in Unlocked(h) : u <= x
          BY <3>1, RowPresent DEF LockWallet, NextWallet, TypeInv, TypeOK
    <3>3. /\ copy'[h][u] # NoRow
          /\ \A x \in Wallets \ {u} : copy'[h][x] = copy[h][x]
          BY <3>2 DEF TypeInv, TypeOK
    <3>4. /\ Movement(h)'.from = Movement(h).from
          /\ Movement(h)'.to = Movement(h).to
          BY <1>1, <3>2, MovementStays
    <3>5. v \in Unlocked(h) /\ v # u
          BY <2>1, <2>4, <3>3, <3>4 DEF Unlocked
    <3>6. w \in Nat /\ u \in Nat /\ v \in Nat
          BY <2>1, ConstantsAssumption
    <3>7. CASE w = u
          BY <3>2, <3>5, <3>6, <3>7
    <3>8. CASE w # u
      <4>1. HoldsWallet(h, w)
            BY <2>1, <2>4, <3>2, <3>3, <3>8 DEF HoldsWallet
      <4>2. QED  BY <3>5, <4>1 DEF LockOrder
    <3>9. QED  BY <3>7, <3>8
  <2>5. QED  BY <2>2, <2>3, <2>4
<1>2. CASE UNCHANGED vars
      BY <1>2 DEF vars, LockOrder, HoldsWallet, Unlocked, Movement
<1>3. QED  BY <1>1, <1>2, NextActs

\* Whoever is waited for waits, if at all, at a later place of the order keys,
\* transactions to reverse, wallets by their ids: no circle of movements and
\* status updates waits for ever, whatever they move and however many run.
THEOREM WaitingIsOrdered == Spec => []OrderedWaits
<1>1. TypeInv /\ LockOrder => OrderedWaits
  <2> SUFFICES ASSUME TypeInv, LockOrder,
                      NEW h \in Handlers, NEW g \in Handlers, WaitsFor(h, g),
                      NEW p \in Wallets \cup {KeyStage, OriginalStage},
                      NEW q \in Wallets \cup {KeyStage, OriginalStage},
                      WaitsAt(h, p), WaitsAt(g, q)
               PROVE  p < q
      BY DEF OrderedWaits
  <2> USE DEF KeyStage, OriginalStage
  <2>1. ASSUME pc[g] = "wallets"
        PROVE  q \in Wallets /\ q \in Unlocked(g) /\ q \in Nat
        BY <2>1, ConstantsAssumption DEF WaitsAt, NextWallet, Unlocked
  <2>2. CASE pc[h] = "key"
    <3>1. p = -2 /\ pc[g] \in {"original", "wallets"}
          BY <2>2 DEF WaitsAt, WaitsFor, HoldsKey, InTransaction
    <3>2. CASE pc[g] = "original"
          BY <3>1, <3>2 DEF WaitsAt
    <3>3. CASE pc[g] = "wallets"
          BY <2>1, <3>1, <3>3
    <3>4. QED  BY <3>1, <3>2, <3>3
  <2>3. CASE pc[h] = "original"
    <3>1. p = -1 /\ pc[g] = "wallets"
          BY <2>3 DEF WaitsAt, WaitsFor, HoldsOriginal
    <3>2. QED  BY <2>1, <3>1
  <2>4. CASE pc[h] = "wallets"
    <3>1. PICK w \in Wallets : NextWallet(h, w) /\ HoldsWallet(g, w)
          BY <2>4 DEF WaitsFor
    <3>2. NextWallet(h, p)
          BY <2>4 DEF WaitsAt
    <3>3. /\ p \in Wallets /\ p \in Nat /\ w \in Nat
          /\ w <= p /\ p <= w
          BY <3>1, <3>2, ConstantsAssumption DEF NextWallet, Unlocked
    <3>4. w < q
          BY <2>1, <3>1 DEF HoldsWallet, LockOrder
    <3>5. QED  BY <3>3, <3>4
  <2>5. CASE pc[h] = "save"
    <3>1. p = req[h].wallet /\ p \in Wallets /\ HoldsWallet(g, p)
          BY <2>5 DEF WaitsAt, WaitsFor, TypeInv, Control
    <3>2. QED  BY <2>1, <3>1 DEF HoldsWallet, LockOrder
  <2>6. QED  BY <2>2, <2>3, <2>4, <2>5 DEF WaitsFor
<1>2. QED  BY <1>1, TypeInvInit, TypeInvNext, LockInvInit, LockInvNext,
              LockOrderInit, LockOrderNext, PTL DEF Spec

\* Each of c[0], ..., c[n - 1] waits for the next one.
Chain(c, n) == \A i \in 0..(n - 1) : WaitsFor(c[i], c[i + 1])
NoCircle ==
    \A n \in Nat \ {0} : \A c \in [0..n -> Handlers] : Chain(c, n) => c[n] # c[0]

LEMMA WaitingPlace ==
    ASSUME TypeInv, NEW h \in Handlers, NEW g \in Handlers, WaitsFor(h, g)
    PROVE  \E p \in Wallets \cup {KeyStage, OriginalStage} : WaitsAt(h, p)
<1>1. CASE pc[h] \in {"key", "original"}
      BY <1>1 DEF WaitsAt
<1>2. CASE pc[h] = "wallets"
      BY <1>2 DEF WaitsFor, WaitsAt
<1>3. CASE pc[h] = "save"
      BY <1>3 DEF WaitsAt, TypeInv, Control
<1>4. QED  BY <1>1, <1>2, <1>3 DEF WaitsFor

\* Requests never wait for each other in a circle, of whatever length: the
\* service has no deadlock among its row locks and its unique index.
THEOREM NoCircularWait == Spec => []NoCircle
<1>1. TypeInv /\ OrderedWaits => NoCircle
  <2> SUFFICES ASSUME TypeInv, OrderedWaits, NEW n \in Nat \ {0},
                      NEW c \in [0..n -> Handlers], Chain(c, n), c[n] = c[0]
               PROVE  FALSE
      BY DEF NoCircle
  <2> DEFINE Places == Wallets \cup {KeyStage, OriginalStage}
             place == [i \in 0..(n - 1) |-> CHOOSE p \in Places : WaitsAt(c[i], p)]
  <2>1. ASSUME NEW p \in Places PROVE p \in Int
        BY ConstantsAssumption DEF KeyStage, OriginalStage
  <2>2. ASSUME NEW i \in 0..(n - 1)
        PROVE  /\ c[i] \in Handlers /\ c[i + 1] \in Handlers
               /\ WaitsFor(c[i], c[i + 1])
               /\ place[i] \in Places /\ WaitsAt(c[i], place[i])
               /\ place[i] \in Int
    <3>1. i \in 0..n /\ i + 1 \in 0..n
          OBVIOUS
    <3>2. WaitsFor(c[i], c[i + 1]) /\ c[i] \in Handlers /\ c[i + 1] \in Handlers
          BY <3>1 DEF Chain
    <3>3. \E p \in Places : WaitsAt(c[i], p)
          BY <3>2, WaitingPlace
    <3>4. place[i] \in Places /\ WaitsAt(c[i], place[i])
          BY <3>3
    <3>5. QED  BY <2>1, <3>2, <3>4
  <2> HIDE DEF place, Places
  <2>3. ASSUME NEW i \in 0..(n - 1), NEW j \in 0..(n - 1), c[i + 1] = c[j]
        PROVE  place[i] < place[j]
        BY <2>2, <2>3 DEF OrderedWaits, Places
  <2>4. place[n - 1] < place[0]
    <3>1. n - 1 \in 0..(n - 1) /\ 0 \in 0..(n - 1) /\ (n - 1) + 1 = n
          OBVIOUS
    <3>2. QED  BY <2>3, <3>1
  <2>5. \A i \in 0..(n - 1) : place[0] <= place[i]
    <3> DEFINE low == {i \in 0..(n - 1) : ~(place[0] <= place[i])}
    <3> SUFFICES ASSUME low # {} PROVE FALSE
        OBVIOUS
    <3>1. low \subseteq Nat
          OBVIOUS
    <3>2. PICK i \in low : \A k \in low : i <= k
          BY <3>1, LeastNatural
    <3>3. 0 \in 0..(n - 1) /\ place[0] \in Int
      <4>1. 0 \in 0..(n - 1)
            OBVIOUS
      <4>2. QED  BY <2>2, <4>1
    <3>4. i \in 0..(n - 1) /\ i # 0 /\ ~(place[0] <= place[i])
          BY <3>3
    <3>5. PICK k \in 0..(n - 1) : k + 1 = i
      <4>1. i - 1 \in 0..(n - 1) /\ (i - 1) + 1 = i
            BY <3>4
      <4>2. QED  BY <4>1
    <3>6. place[k] < place[i]
          BY <2>3, <3>4, <3>5
    <3>7. place[0] <= place[k]
      <4>1. k \notin low
        <5> SUFFICES ASSUME k \in low PROVE FALSE
            OBVIOUS
        <5>1. i <= k
              BY <3>2
        <5>2. k \in Int
              OBVIOUS
        <5>3. QED  BY ONLY <3>5, <5>1, <5>2
      <4>2. QED  BY <4>1
    <3>8. place[k] \in Int /\ place[i] \in Int
          BY <2>2, <3>4
    <3>9. QED  BY ONLY <3>3, <3>4, <3>6, <3>7, <3>8
  <2>6. n - 1 \in 0..(n - 1) /\ 0 \in 0..(n - 1)
        OBVIOUS
  <2>7. place[0] \in Int /\ place[n - 1] \in Int /\ place[0] <= place[n - 1]
        BY <2>2, <2>5, <2>6
  <2>8. QED  BY ONLY <2>4, <2>7
<1>2. QED  BY <1>1, WaitingIsOrdered, TypeInvInit, TypeInvNext, PTL DEF Spec
====
