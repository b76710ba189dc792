---- MODULE WalletLedgerProofs ----
(****************************************************************************)
(* Proofs about WalletLedger, for every set of handlers, wallets, keys and  *)
(* amounts and for every bound.                                             *)
(****************************************************************************)
EXTENDS WalletLedger, SequenceTheorems, TLAPS

\* What the program counter says about the request and the rows in memory.
Control ==
    \A h \in Handlers :
        /\ pc[h] \in {"replay", "key", "original", "wallets", "respond"} =>
             req[h] \in Movements
        /\ pc[h] = "original" => req[h] \in Reversals
        /\ pc[h] = "wallets" /\ req[h].op = "reversal" =>
             req[h].target \in DOMAIN transactions
        /\ pc[h] \in {"read", "save"} => req[h] \in Patches
        /\ pc[h] = "save" =>
             /\ req[h].wallet \in Wallets
             /\ copy[h][req[h].wallet] \in Rows

TypeInv == TypeOK /\ Control

----
\* The kinds of request are told apart by op.
LEMMA RequestKinds ==
    ASSUME NEW r \in Movements
    PROVE  /\ r.op \in MovementTypes
           /\ r.key \in MaybeKey
           /\ r.op = "topup" => r \in TopUps
           /\ r.op = "transfer" => r \in Transfers
           /\ r.op = "reversal" => r \in Reversals
    BY DEF Movements, TopUps, Transfers, Reversals, MovementTypes

\* Addition stays in the int64 range.
LEMMA WrapType ==
    ASSUME NEW b \in Balances, NEW a \in Amounts
    PROVE  Wrap(b + a) \in Balances /\ Wrap(b - a) \in Balances
    BY ConstantsAssumption DEF Wrap, Balances

LEMMA RowType ==
    ASSUME NEW row \in Rows, NEW a \in Amounts
    PROVE  /\ row.status \in Statuses
           /\ row.balance \in Balances
           /\ [row EXCEPT !.balance = Wrap(row.balance + a)] \in Rows
           /\ [row EXCEPT !.balance = Wrap(row.balance - a)] \in Rows
    BY WrapType DEF Rows

\* A row that is there is not the absent one.
LEMMA RowPresent ==
    ASSUME NEW row \in Rows \cup {NoRow}
    PROVE  row # NoRow <=> row \in Rows
    BY DEF Rows, NoRow, Statuses

\* The two ends of a movement whose rows were found are rows it holds.
LEMMA MovementEnds ==
    ASSUME TypeInv, NEW h \in Handlers, pc[h] = "wallets",
           Unlocked(h) = {}, Verdict(h) = "created"
    PROVE  /\ Movement(h).from \in Wallets
           /\ Movement(h).to \in Wallets
           /\ Movement(h).from # Movement(h).to
           /\ Movement(h).amount \in Amounts
           /\ copy[h][Movement(h).from] \in Rows
           /\ copy[h][Movement(h).to] \in Rows
           /\ Permitted(h)
           /\ Funded(h)
<1>1. req[h] \in Movements
      BY DEF TypeInv, Control
<1>2. Found(h) /\ Permitted(h) /\ Funded(h)
      BY DEF Verdict
<1>3. /\ Movement(h).from \in Wallets
      /\ Movement(h).to \in Wallets
      /\ Movement(h).from # Movement(h).to
      BY <1>2 DEF Found
<1>4. Movement(h).amount \in Amounts
  <2>1. CASE req[h].op = "topup"
        BY <1>1, <2>1, RequestKinds DEF Movement, TopUps
  <2>2. CASE req[h].op = "transfer"
        BY <1>1, <2>2, RequestKinds DEF Movement, Transfers
  <2>3. CASE req[h].op = "reversal"
    <3>1. transactions[req[h].target] \in Transactions
          BY <2>3 DEF TypeInv, TypeOK, Control
    <3>2. QED  BY <2>3, <3>1 DEF Movement, Transactions
  <2>4. QED  BY <1>1, <2>1, <2>2, <2>3, RequestKinds DEF MovementTypes
<1>5. \A w \in {Movement(h).from, Movement(h).to} : copy[h][w] # NoRow
      BY <1>3 DEF Unlocked
<1>6. QED  BY <1>2, <1>3, <1>4, <1>5, RowPresent DEF TypeInv, TypeOK

----
\* Type correctness.

\* What an answer leaves behind is well typed and needs nothing of Control.
LEMMA AnswerType ==
    ASSUME TypeInv, NEW h \in Handlers, NEW code \in Codes, NEW tx \in Nat,
           Answer(h, code, tx), UNCHANGED tables
    PROVE  TypeInv'
<1>1. TypeOK'
      BY DEF TypeInv, TypeOK, Answer, tables, NoCopies
<1>2. Control'
      BY DEF TypeInv, TypeOK, Control, Answer, tables, NoCopies
<1>3. QED  BY <1>1, <1>2 DEF TypeInv

LEMMA StoredRecordType ==
    ASSUME TypeInv, NEW r \in Movements
    PROVE  /\ StoredRecord(r) \in Records \cup {NoRecord}
           /\ StoredRecord(r).request = r => StoredRecord(r).tx \in Nat \ {0}
<1>1. StoredRecord(r) \in Records \cup {NoRecord}
  <2>1. CASE r.key = NoKey
        BY <2>1 DEF StoredRecord
  <2>2. CASE r.key # NoKey
    <3>1. <<r.key, r.op>> \in Keys \X MovementTypes
          BY <2>2, RequestKinds DEF MaybeKey
    <3>2. QED  BY <2>2, <3>1 DEF StoredRecord, TypeInv, TypeOK
  <2>3. QED  BY <2>1, <2>2
<1>2. NoRequest # r
      BY RequestKinds DEF NoRequest, MovementTypes
<1>3. QED  BY <1>1, <1>2 DEF Records, NoRecord

LEMMA TypeInvInit == Init => TypeInv
<1> SUFFICES ASSUME Init PROVE TypeInv
    OBVIOUS
<1> USE DEF Init
<1>1. wallets \in [Wallets -> Rows]
      BY ConstantsAssumption DEF Rows, Statuses, Balances
<1>2. /\ transactions \in Seq(Transactions)
      /\ ledger \in [Wallets -> [debit: Nat, credit: Nat]]
      /\ idempotency \in [Keys \X MovementTypes -> Records \cup {NoRecord}]
      OBVIOUS
<1>3. /\ pc \in [Handlers -> {"idle", "replay", "key", "original", "wallets",
                              "respond", "read", "save"}]
      /\ req \in [Handlers -> Movements \cup Patches \cup {NoRequest}]
      /\ copy \in [Handlers -> [Wallets -> Rows \cup {NoRow}]]
      /\ reply \in [Handlers -> [code: Codes, tx: Nat]]
      BY DEF NoCopies, Codes
<1>4. Control
      BY DEF Control
<1>5. QED  BY <1>1, <1>2, <1>3, <1>4 DEF TypeInv, TypeOK

\* The commit of a movement.
LEMMA PostType ==
    ASSUME TypeInv, NEW h \in Handlers, Post(h)
    PROVE  TypeInv'
<1> DEFINE m == Movement(h)
           id == Len(transactions) + 1
<1>1. /\ pc[h] = "wallets"
      /\ Unlocked(h) = {}
      /\ Verdict(h) = "created"
      /\ req[h] \in Movements
      BY DEF Post, TypeInv, Control
<1>2. /\ m.from \in Wallets
      /\ m.to \in Wallets
      /\ m.from # m.to
      /\ m.amount \in Amounts
      /\ copy[h][m.from] \in Rows
      /\ copy[h][m.to] \in Rows
      BY <1>1, MovementEnds
<1>3. wallets' \in [Wallets -> Rows]
  <2>1. /\ [copy[h][m.from] EXCEPT !.balance = Wrap(@ - m.amount)] \in Rows
        /\ [copy[h][m.to] EXCEPT !.balance = Wrap(@ + m.amount)] \in Rows
        BY <1>2, RowType
  <2>2. wallets' = SavedRows(h)
        BY DEF Post
  <2>3. QED  BY <1>2, <2>1, <2>2 DEF SavedRows, TypeInv, TypeOK
<1>4. ledger' \in [Wallets -> [debit: Nat, credit: Nat]]
  <2>1. /\ ledger[m.from] \in [debit: Nat, credit: Nat]
        /\ ledger[m.to] \in [debit: Nat, credit: Nat]
        /\ m.amount \in Nat
    <3>1. m.amount \in 1..MaxMinor
          BY ONLY <1>2, ConstantsAssumption
    <3>2. m.amount \in Nat
          BY ONLY <3>1, ConstantsAssumption
    <3>3. ledger \in [Wallets -> [debit: Nat, credit: Nat]]
          BY DEF TypeInv, TypeOK
    <3>4. QED  BY ONLY <1>2, <3>2, <3>3
  <2>2. /\ [ledger[m.from] EXCEPT !.debit = @ + m.amount] \in
             [debit: Nat, credit: Nat]
        /\ [ledger[m.to] EXCEPT !.credit = @ + m.amount] \in
             [debit: Nat, credit: Nat]
        BY ONLY <2>1
  <2>3. ledger' = [ledger EXCEPT ![m.from].debit = @ + m.amount,
                                 ![m.to].credit = @ + m.amount]
        BY DEF Post, PostedEntries
  <2>4. QED  BY <1>2, <2>2, <2>3 DEF TypeInv, TypeOK
<1>5. NewTransaction(h) \in Transactions
  <2>1. /\ req[h].op \in MovementTypes
        /\ req[h].key \in MaybeKey
        BY <1>1, RequestKinds
  <2>2. (IF req[h].op = "reversal" THEN req[h].target ELSE 0) \in Nat
        BY <1>1, RequestKinds, ConstantsAssumption DEF Reversals, TxIds
  <2>3. QED  BY <1>2, <2>1, <2>2 DEF NewTransaction, Transactions
<1>6. /\ MarkedOriginal(h) \in Seq(Transactions)
      /\ Len(MarkedOriginal(h)) = Len(transactions)
  <2>1. CASE req[h].op = "reversal"
    <3> DEFINE i == req[h].target
               marked == [transactions EXCEPT ![i].status = "reversed"]
    <3>1. i \in 1..Len(transactions) /\ transactions \in Seq(Transactions)
          BY <1>1, <2>1 DEF TypeInv, TypeOK, Control
    <3>2. transactions[i] \in Transactions
          BY <3>1
    <3>3. [transactions[i] EXCEPT !.status = "reversed"] \in Transactions
          BY <3>2 DEF Transactions
    <3>4. marked \in [1..Len(transactions) -> Transactions]
          BY <3>1, <3>3
    <3>5. marked \in Seq(Transactions) /\ Len(marked) = Len(transactions)
          BY <3>1, <3>4, LenProperties, SeqDef
    <3>6. QED  BY <2>1, <3>5 DEF MarkedOriginal
  <2>2. CASE req[h].op # "reversal"
        BY <2>2 DEF MarkedOriginal, TypeInv, TypeOK
  <2>3. QED  BY <2>1, <2>2
<1>7. /\ transactions' \in Seq(Transactions)
      /\ Len(transactions') = id
      BY <1>5, <1>6 DEF Post
<1>8. idempotency' \in [Keys \X MovementTypes -> Records \cup {NoRecord}]
  <2>1. CASE req[h].key = NoKey
        BY <2>1 DEF Post, SavedResponse, TypeInv, TypeOK
  <2>2. CASE req[h].key # NoKey
    <3>1. id \in Nat \ {0}
          BY DEF TypeInv, TypeOK
    <3>2. [request |-> req[h], tx |-> id] \in Records
          BY <1>1, <3>1 DEF Records
    <3>3. idempotency' = [idempotency EXCEPT ![<<req[h].key, req[h].op>>] =
                             [request |-> req[h], tx |-> id]]
          BY <2>2 DEF Post, SavedResponse
    <3>4. QED  BY <3>2, <3>3 DEF TypeInv, TypeOK
  <2>3. QED  BY <2>1, <2>2
<1>9. /\ pc' \in [Handlers -> {"idle", "replay", "key", "original", "wallets",
                               "respond", "read", "save"}]
      /\ req' \in [Handlers -> Movements \cup Patches \cup {NoRequest}]
      /\ copy' \in [Handlers -> [Wallets -> Rows \cup {NoRow}]]
      /\ reply' \in [Handlers -> [code: Codes, tx: Nat]]
  <2>1. /\ pc' = [pc EXCEPT ![h] = "respond"]
        /\ req' = req
        /\ copy' = [copy EXCEPT ![h] = NoCopies]
        BY DEF Post
  <2>2. reply' = [reply EXCEPT ![h].tx = id] /\ id \in Nat
        BY DEF Post, TypeInv, TypeOK
  <2>3. reply' \in [Handlers -> [code: Codes, tx: Nat]]
        BY <2>2 DEF TypeInv, TypeOK
  <2>4. QED  BY <2>1, <2>3 DEF NoCopies, TypeInv, TypeOK
<1>10. Control'
  <2>1. DOMAIN transactions \subseteq DOMAIN transactions'
        BY <1>7 DEF TypeInv, TypeOK
  <2>2. /\ pc' = [pc EXCEPT ![h] = "respond"]
        /\ req' = req
        /\ copy' = [copy EXCEPT ![h] = NoCopies]
        BY DEF Post
  <2>3. QED  BY <1>1, <2>1, <2>2 DEF Control, TypeInv, TypeOK
<1>11. QED  BY <1>3, <1>4, <1>7, <1>8, <1>9, <1>10 DEF TypeInv, TypeOK

LEMMA TypeInvNext == TypeInv /\ [Next]_vars => TypeInv'
<1> SUFFICES ASSUME TypeInv, [Next]_vars PROVE TypeInv'
    OBVIOUS
<1>1. ASSUME NEW h \in Handlers, SubmitMovement(h) PROVE TypeInv'
      BY <1>1 DEF SubmitMovement, TypeInv, TypeOK, Control, Codes, tables
<1>2. ASSUME NEW h \in Handlers, SubmitPatch(h) PROVE TypeInv'
      BY <1>2 DEF SubmitPatch, TypeInv, TypeOK, Control, Codes, tables
<1>3. ASSUME NEW h \in Handlers, RefuseSelfTransfer(h) PROVE TypeInv'
      BY <1>3, AnswerType DEF RefuseSelfTransfer, Codes
<1>4. ASSUME NEW h \in Handlers, RefuseReusedKey(h) PROVE TypeInv'
      BY <1>4, AnswerType DEF RefuseReusedKey, Codes
<1>5. ASSUME NEW h \in Handlers, ReplayResponse(h) PROVE TypeInv'
  <2>1. req[h] \in Movements
        BY <1>5 DEF ReplayResponse, TypeInv, Control
  <2>2. StoredRecord(req[h]).tx \in Nat
        BY <1>5, <2>1, StoredRecordType DEF ReplayResponse
  <2>3. QED  BY <1>5, <2>2, AnswerType DEF ReplayResponse, Codes
<1>6. ASSUME NEW h \in Handlers, BeginTransaction(h) PROVE TypeInv'
      BY <1>6 DEF BeginTransaction, Goto, TypeInv, TypeOK, Control, tables
<1>7. ASSUME NEW h \in Handlers, InsertKey(h) PROVE TypeInv'
  <2>1. req[h] \in Movements
        BY <1>7 DEF InsertKey, TypeInv, Control
  <2>2. req[h].op = "reversal" => req[h] \in Reversals
        BY <2>1, RequestKinds
  <2>3. QED  BY <1>7, <2>1, <2>2
                DEF InsertKey, Goto, TypeInv, TypeOK, Control, tables
<1>8. ASSUME NEW h \in Handlers, RefuseDuplicateKey(h) PROVE TypeInv'
      BY <1>8, AnswerType DEF RefuseDuplicateKey, Codes
<1>9. ASSUME NEW h \in Handlers, LockOriginal(h) PROVE TypeInv'
  <2>1. req[h].target \in DOMAIN transactions
        BY <1>9 DEF LockOriginal, OriginalVerdict
  <2>2. QED  BY <1>9, <2>1
                DEF LockOriginal, Goto, TypeInv, TypeOK, Control, tables
<1>10. ASSUME NEW h \in Handlers, RefuseOriginal(h) PROVE TypeInv'
  <2>1. OriginalVerdict(req[h].target) \in Codes
        BY DEF OriginalVerdict, Codes
  <2>2. QED  BY <1>10, <2>1, AnswerType DEF RefuseOriginal
<1>11. ASSUME NEW h \in Handlers, NEW w \in Wallets, LockWallet(h, w)
       PROVE  TypeInv'
  <2>1. copy' = [copy EXCEPT ![h][w] = wallets[w]] /\ wallets[w] \in Rows
        BY <1>11 DEF LockWallet, TypeInv, TypeOK
  <2>2. TypeOK'
        BY <1>11, <2>1 DEF LockWallet, TypeInv, TypeOK, tables
  <2>3. Control'
        BY <1>11, <2>1 DEF LockWallet, TypeInv, TypeOK, Control, tables
  <2>4. QED  BY <2>2, <2>3 DEF TypeInv
<1>12. ASSUME NEW h \in Handlers, RefuseMovement(h) PROVE TypeInv'
  <2>1. Verdict(h) \in Codes
        BY DEF Verdict, Codes
  <2>2. QED  BY <1>12, <2>1, AnswerType DEF RefuseMovement
<1>13. ASSUME NEW h \in Handlers, Post(h) PROVE TypeInv'
      BY <1>13, PostType
<1>14. ASSUME NEW h \in Handlers, Respond(h) PROVE TypeInv'
  <2>1. reply[h].tx \in Nat
        BY DEF TypeInv, TypeOK
  <2>2. QED  BY <1>14, <2>1, AnswerType DEF Respond, Codes
<1>15. ASSUME NEW h \in Handlers, ReadWallet(h) PROVE TypeInv'
  <2> DEFINE w == req[h].wallet
  <2>1. w \in Wallets /\ wallets[w] \in Rows /\ req[h] \in Patches
        BY <1>15 DEF ReadWallet, TypeInv, TypeOK, Control
  <2>2. copy' = [copy EXCEPT ![h][w] = wallets[w]]
        BY <1>15 DEF ReadWallet
  <2>3. TypeOK'
        BY <1>15, <2>1, <2>2 DEF ReadWallet, Goto, TypeInv, TypeOK, tables
  <2>4. Control'
        BY <1>15, <2>1, <2>2
           DEF ReadWallet, Goto, TypeInv, TypeOK, Control, tables
  <2>5. QED  BY <2>3, <2>4 DEF TypeInv
<1>16. ASSUME NEW h \in Handlers, RefusePatch(h) PROVE TypeInv'
      BY <1>16, AnswerType DEF RefusePatch, Codes
<1>17. ASSUME NEW h \in Handlers, SaveWallet(h) PROVE TypeInv'
  <2> DEFINE w == req[h].wallet
             row == [copy[h][w] EXCEPT !.status = req[h].status]
  <2>1. w \in Wallets /\ copy[h][w] \in Rows /\ req[h] \in Patches
        BY <1>17 DEF SaveWallet, TypeInv, Control
  <2>2. row \in Rows
        BY <2>1 DEF Rows, Patches
  <2>3. wallets' = [wallets EXCEPT ![w] = row]
        BY <1>17 DEF SaveWallet
  <2>4. wallets' \in [Wallets -> Rows]
        BY <2>1, <2>2, <2>3 DEF TypeInv, TypeOK
  <2>5. TypeOK'
        BY <1>17, <2>4
           DEF SaveWallet, Answer, NoCopies, Codes, TypeInv, TypeOK
  <2>6. Control'
        BY <1>17 DEF SaveWallet, Answer, NoCopies, TypeInv, TypeOK, Control
  <2>7. QED  BY <2>5, <2>6 DEF TypeInv
<1>18. ASSUME NEW h \in Handlers, Fail(h) PROVE TypeInv'
      BY <1>18, AnswerType DEF Fail, Codes
<1>19. CASE UNCHANGED vars
      BY <1>19 DEF vars, TypeInv, TypeOK, Control
<1>20. QED
      BY <1>1, <1>2, <1>3, <1>4, <1>5, <1>6, <1>7, <1>8, <1>9, <1>10, <1>11,
         <1>12, <1>13, <1>14, <1>15, <1>16, <1>17, <1>18, <1>19
         DEF Next, Step

\* Every variable holds a value of its table or of its handler's memory, in
\* every reachable state.
THEOREM TypeCorrect == Spec => []TypeOK
<1>1. TypeInv => TypeOK
      BY DEF TypeInv
<1>2. QED  BY <1>1, TypeInvInit, TypeInvNext, PTL DEF Spec

----
\* Row locks: one holder per row, and what the holder read is still there.

OneHolder ==
    \A g, h \in Handlers, w \in Wallets :
        HoldsWallet(g, w) /\ HoldsWallet(h, w) => g = h

\* A handler that is not computing with rows has none in memory.
NothingKept ==
    \A h \in Handlers : pc[h] \notin {"wallets", "save"} => copy[h] = NoCopies

LockInv == OneHolder /\ FreshCopies /\ NothingKept

\* A step of one handler that ends with no wallet locked by it, and that
\* leaves alone the rows the others hold.
LEMMA LockInvRelease ==
    ASSUME LockInv, NEW h \in Handlers,
           \A g \in Handlers \ {h} : pc'[g] = pc[g] /\ copy'[g] = copy[g],
           \A w \in Wallets : ~HoldsWallet(h, w)',
           pc'[h] \in {"wallets", "save"} \/ copy'[h] = NoCopies,
           \A g \in Handlers \ {h}, w \in Wallets :
               HoldsWallet(g, w) => wallets'[w] = wallets[w]
    PROVE  LockInv'
<1>1. \A g \in Handlers, w \in Wallets :
        HoldsWallet(g, w)' => g # h /\ HoldsWallet(g, w)
      BY DEF HoldsWallet
<1>2. OneHolder'
      BY <1>1 DEF LockInv, OneHolder
<1>3. FreshCopies'
  <2> SUFFICES ASSUME NEW g \in Handlers, NEW w \in Wallets, HoldsWallet(g, w)'
               PROVE  copy'[g][w] = wallets'[w]
      BY DEF FreshCopies
  <2>1. g # h /\ HoldsWallet(g, w)
        BY <1>1
  <2>2. QED  BY <2>1 DEF LockInv, FreshCopies
<1>4. NothingKept'
      BY DEF LockInv, NothingKept, NoCopies
<1>5. QED  BY <1>2, <1>3, <1>4 DEF LockInv

\* The same for a step that answers, or goes on, without touching the tables.
LEMMA LockInvAnswer ==
    ASSUME TypeInv, LockInv, NEW h \in Handlers, NEW code, NEW tx,
           Answer(h, code, tx),
           \A g \in Handlers \ {h}, w \in Wallets :
               HoldsWallet(g, w) => wallets'[w] = wallets[w]
    PROVE  LockInv'
<1>1. /\ pc' = [pc EXCEPT ![h] = "idle"]
      /\ copy' = [copy EXCEPT ![h] = NoCopies]
      BY DEF Answer
<1>2. /\ \A g \in Handlers \ {h} : pc'[g] = pc[g] /\ copy'[g] = copy[g]
      /\ pc'[h] = "idle"
      /\ copy'[h] = NoCopies
      BY <1>1 DEF TypeInv, TypeOK
<1>3. \A w \in Wallets : ~HoldsWallet(h, w)'
      BY <1>2 DEF HoldsWallet
<1>4. QED  BY <1>2, <1>3, LockInvRelease

LEMMA LockInvGoto ==
    ASSUME TypeInv, LockInv, NEW h \in Handlers, NEW label,
           pc[h] \notin {"wallets", "save"}, pc' = [pc EXCEPT ![h] = label],
           UNCHANGED <<wallets, copy>>
    PROVE  LockInv'
<1>1. copy'[h] = NoCopies
      BY DEF LockInv, NothingKept
<1>2. /\ \A g \in Handlers \ {h} : pc'[g] = pc[g] /\ copy'[g] = copy[g]
      /\ \A w \in Wallets : ~HoldsWallet(h, w)'
      BY <1>1 DEF HoldsWallet, NoCopies, TypeInv, TypeOK
<1>3. QED  BY <1>1, <1>2, LockInvRelease

LEMMA LockInvInit == Init => LockInv
    BY DEF Init, LockInv, OneHolder, FreshCopies, NothingKept, HoldsWallet

LEMMA LockInvNext == TypeInv /\ LockInv /\ [Next]_vars => LockInv'
<1> SUFFICES ASSUME TypeInv, LockInv, [Next]_vars PROVE LockInv'
    OBVIOUS
<1>1. ASSUME NEW h \in Handlers, SubmitMovement(h) \/ SubmitPatch(h)
      PROVE  LockInv'
      BY <1>1, LockInvGoto DEF SubmitMovement, SubmitPatch, tables
<1>2. ASSUME NEW h \in Handlers,
             \/ RefuseSelfTransfer(h) \/ RefuseReusedKey(h)
             \/ ReplayResponse(h) \/ RefuseDuplicateKey(h)
             \/ RefuseOriginal(h) \/ RefuseMovement(h) \/ Respond(h)
             \/ RefusePatch(h) \/ Fail(h)
      PROVE  LockInv'
  <2>1. PICK code, tx : Answer(h, code, tx)
        BY <1>2 DEF RefuseSelfTransfer, RefuseReusedKey, ReplayResponse,
                    RefuseDuplicateKey, RefuseOriginal, RefuseMovement,
                    Respond, RefusePatch, Fail
  <2>2. UNCHANGED wallets
        BY <1>2 DEF RefuseSelfTransfer, RefuseReusedKey, ReplayResponse,
                    RefuseDuplicateKey, RefuseOriginal, RefuseMovement,
                    Respond, RefusePatch, Fail, tables
  <2>3. QED  BY <2>1, <2>2, LockInvAnswer
<1>3. ASSUME NEW h \in Handlers,
             BeginTransaction(h) \/ InsertKey(h) \/ LockOriginal(h)
      PROVE  LockInv'
  <2>1. /\ pc[h] \notin {"wallets", "save"}
        /\ UNCHANGED <<wallets, copy>>
        BY <1>3 DEF BeginTransaction, InsertKey, LockOriginal, tables
  <2>2. PICK label : pc' = [pc EXCEPT ![h] = label]
        BY <1>3 DEF BeginTransaction, InsertKey, LockOriginal, Goto
  <2>3. QED  BY <2>1, <2>2, LockInvGoto
<1>4. ASSUME NEW h \in Handlers, NEW w \in Wallets, LockWallet(h, w)
      PROVE  LockInv'
  <2>1. /\ pc[h] = "wallets"
        /\ copy' = [copy EXCEPT ![h][w] = wallets[w]]
        /\ UNCHANGED <<wallets, pc>>
        BY <1>4 DEF LockWallet, tables
  <2>2. \A g \in Handlers \ {h} : ~HoldsWallet(g, w)
        BY <1>4 DEF LockWallet, WalletBusy
  <2>3. \A g \in Handlers, v \in Wallets :
          HoldsWallet(g, v)' => (g = h /\ v = w) \/ HoldsWallet(g, v)
        BY <2>1 DEF HoldsWallet, TypeInv, TypeOK
  <2>4. OneHolder'
        BY <2>2, <2>3 DEF LockInv, OneHolder
  <2>5. FreshCopies'
        BY <2>1, <2>3 DEF LockInv, FreshCopies, TypeInv, TypeOK
  <2>6. NothingKept'
        BY <2>1 DEF LockInv, NothingKept, NoCopies, TypeInv, TypeOK
  <2>7. QED  BY <2>4, <2>5, <2>6 DEF LockInv
<1>5. ASSUME NEW h \in Handlers, Post(h) PROVE LockInv'
  <2> DEFINE m == Movement(h)
  <2>1. /\ pc[h] = "wallets"
        /\ m.from \in Wallets
        /\ m.to \in Wallets
        /\ HoldsWallet(h, m.from)
        /\ HoldsWallet(h, m.to)
        BY <1>5, MovementEnds, RowPresent DEF Post, HoldsWallet
  <2>2. /\ wallets' = SavedRows(h)
        /\ pc' = [pc EXCEPT ![h] = "respond"]
        /\ copy' = [copy EXCEPT ![h] = NoCopies]
        BY <1>5 DEF Post
  <2>3. \A w \in Wallets \ {m.from, m.to} : wallets'[w] = wallets[w]
        BY <2>1, <2>2 DEF SavedRows, TypeInv, TypeOK
  <2>4. \A g \in Handlers \ {h}, w \in Wallets :
          HoldsWallet(g, w) => wallets'[w] = wallets[w]
        BY <2>1, <2>3 DEF LockInv, OneHolder
  <2>5. /\ \A g \in Handlers \ {h} : pc'[g] = pc[g] /\ copy'[g] = copy[g]
        /\ pc'[h] = "respond"
        /\ copy'[h] = NoCopies
        BY <2>2 DEF TypeInv, TypeOK
  <2>6. \A w \in Wallets : ~HoldsWallet(h, w)'
        BY <2>5 DEF HoldsWallet
  <2>7. QED  BY <2>4, <2>5, <2>6, LockInvRelease
<1>6. ASSUME NEW h \in Handlers, ReadWallet(h) PROVE LockInv'
  <2>1. /\ UNCHANGED wallets
        /\ pc' = [pc EXCEPT ![h] = "save"]
        /\ copy' = [copy EXCEPT ![h][req[h].wallet] = wallets[req[h].wallet]]
        BY <1>6 DEF ReadWallet, Goto, tables
  <2>2. /\ \A g \in Handlers \ {h} : pc'[g] = pc[g] /\ copy'[g] = copy[g]
        /\ pc'[h] = "save"
        BY <2>1 DEF TypeInv, TypeOK
  <2>3. \A w \in Wallets : ~HoldsWallet(h, w)'
        BY <2>2 DEF HoldsWallet
  <2>4. QED  BY <2>1, <2>2, <2>3, LockInvRelease
<1>7. ASSUME NEW h \in Handlers, SaveWallet(h) PROVE LockInv'
  <2> DEFINE w == req[h].wallet
  <2>1. /\ ~WalletBusy(h, w)
        /\ Answer(h, "updated", 0)
        /\ wallets' = [wallets EXCEPT
                         ![w] = [copy[h][w] EXCEPT !.status = req[h].status]]
        BY <1>7 DEF SaveWallet
  <2>2. \A g \in Handlers \ {h}, v \in Wallets :
          HoldsWallet(g, v) => wallets'[v] = wallets[v]
        BY <2>1 DEF WalletBusy, TypeInv, TypeOK
  <2>3. QED  BY <2>1, <2>2, LockInvAnswer
<1>8. CASE UNCHANGED vars
      BY <1>8 DEF vars, LockInv, OneHolder, FreshCopies, NothingKept,
                  HoldsWallet
<1>9. QED
      BY <1>1, <1>2, <1>3, <1>4, <1>5, <1>6, <1>7, <1>8 DEF Next, Step

\* A movement computes with the committed rows for as long as it holds them.
THEOREM RowsStayFresh == Spec => []FreshCopies
<1>1. LockInv => FreshCopies
      BY DEF LockInv
<1>2. QED  BY <1>1, TypeInvInit, TypeInvNext, LockInvInit, LockInvNext, PTL
              DEF Spec

----
\* Balances. As long as the totals of a wallet's entries fit an int64, its
\* balance lies between minus the debits and the credits, so no addition
\* wraps; a status update writes back a balance for which that held when it
\* was read, and holds still because totals only grow.

Sound(w, b) ==
    InRange(w) =>
        /\ -ledger[w].debit <= b
        /\ b <= ledger[w].credit
        /\ w # System => b >= 0
        /\ w \notin Patchable => b = ledger[w].credit - ledger[w].debit

\* A patch handler's copy may be stale, but it is of a patchable wallet.
SoundOld(w, b) ==
    InRange(w) =>
        /\ -ledger[w].debit <= b
        /\ b <= ledger[w].credit
        /\ w # System => b >= 0

BalanceInv ==
    /\ \A w \in Wallets : Sound(w, wallets[w].balance)
    /\ \A h \in Handlers :
         pc[h] = "save" =>
             SoundOld(req[h].wallet, copy[h][req[h].wallet].balance)

\* An addition whose result is in range is the mathematical one.
LEMMA WrapExact ==
    ASSUME NEW n \in Int, -MaxMinor <= n, n <= MaxMinor
    PROVE  Wrap(n) = n
    BY ConstantsAssumption DEF Wrap

LEMMA RowNumbers ==
    ASSUME TypeInv, NEW w \in Wallets
    PROVE  /\ wallets[w] \in Rows
           /\ wallets[w].balance \in Int
           /\ ledger[w].debit \in Nat
           /\ ledger[w].credit \in Nat
           /\ MaxMinor \in Nat
    BY ConstantsAssumption DEF TypeInv, TypeOK, Rows, Balances

\* A step that leaves rows and entries alone.
LEMMA BalanceInvFrame ==
    ASSUME TypeInv, BalanceInv, UNCHANGED <<wallets, ledger>>,
           \A h \in Handlers : pc'[h] = "save" =>
               /\ pc[h] = "save"
               /\ req'[h] = req[h]
               /\ copy'[h] = copy[h]
    PROVE  BalanceInv'
    BY DEF BalanceInv, Sound, SoundOld, InRange

LEMMA BalanceInvAnswer ==
    ASSUME TypeInv, BalanceInv, NEW h \in Handlers, NEW code, NEW tx,
           Answer(h, code, tx), UNCHANGED tables
    PROVE  BalanceInv'
<1>1. \A g \in Handlers : pc'[g] = "save" =>
          pc[g] = "save" /\ req'[g] = req[g] /\ copy'[g] = copy[g]
      BY DEF Answer, TypeInv, TypeOK
<1>2. QED  BY <1>1, BalanceInvFrame DEF tables

LEMMA BalanceInvInit == Init => BalanceInv
<1> SUFFICES ASSUME Init PROVE BalanceInv
    OBVIOUS
<1>1. \A w \in Wallets : Sound(w, wallets[w].balance)
      BY DEF Init, Sound
<1>2. QED  BY <1>1 DEF Init, BalanceInv

LEMMA BalanceInvPost ==
    ASSUME TypeInv, LockInv, BalanceInv, NEW h \in Handlers, Post(h)
    PROVE  BalanceInv'
<1>0. PICK from \in Wallets, to \in Wallets, a \in Amounts :
        /\ from = Movement(h).from
        /\ to = Movement(h).to
        /\ a = Movement(h).amount
        /\ from # to
      BY MovementEnds DEF Post
<1> DEFINE b == wallets[from].balance
           c == wallets[to].balance
<1>1. /\ pc[h] = "wallets"
      /\ req[h] \in Movements
      /\ copy[h][from] = wallets[from]
      /\ copy[h][to] = wallets[to]
      /\ Funded(h)
  <2>1. pc[h] = "wallets" /\ req[h] \in Movements
        BY DEF Post, TypeInv, Control
  <2>2. /\ copy[h][from] \in Rows
        /\ copy[h][to] \in Rows
        /\ Funded(h)
        BY <1>0, MovementEnds DEF Post
  <2>3. HoldsWallet(h, from) /\ HoldsWallet(h, to)
        BY <1>0, <2>1, <2>2, RowPresent DEF HoldsWallet
  <2>4. QED  BY <1>0, <2>1, <2>2, <2>3 DEF LockInv, FreshCopies
<1>2. a \in Nat /\ a <= MaxMinor
  <2>1. a \in 1..MaxMinor
        BY ONLY <1>0, ConstantsAssumption
  <2>2. QED  BY ONLY <2>1, ConstantsAssumption
<1>3. /\ wallets'[from].balance = Wrap(b - a)
      /\ wallets'[to].balance = Wrap(c + a)
      /\ \A w \in Wallets \ {from, to} : wallets'[w] = wallets[w]
  <2>1. wallets' = SavedRows(h)
        BY DEF Post
  <2>2. wallets \in [Wallets -> Rows] /\ wallets[from] \in Rows
        /\ wallets[to] \in Rows
        BY <1>0 DEF TypeInv, TypeOK
  <2>3. QED  BY <1>0, <1>1, <2>1, <2>2 DEF SavedRows, Rows
<1>4. /\ ledger'[from].debit = ledger[from].debit + a
      /\ ledger'[from].credit = ledger[from].credit
      /\ ledger'[to].debit = ledger[to].debit
      /\ ledger'[to].credit = ledger[to].credit + a
      /\ \A w \in Wallets \ {from, to} : ledger'[w] = ledger[w]
  <2>1. ledger' = PostedEntries(h)
        BY DEF Post
  <2>2. ledger \in [Wallets -> [debit: Nat, credit: Nat]]
        BY DEF TypeInv, TypeOK
  <2>3. QED  BY <1>0, <2>1, <2>2 DEF PostedEntries
<1>5. from # System => b >= a
  <2>1. req[h].op = "topup" => from = System
        BY <1>0 DEF Movement
  <2>2. req[h].op \in {"topup", "transfer", "reversal"}
        BY <1>1, RequestKinds DEF MovementTypes
  <2>3. QED  BY <1>0, <1>1, <2>1, <2>2 DEF Funded
<1>6. /\ b \in Int /\ c \in Int /\ MaxMinor \in Nat
      /\ ledger[from].debit \in Nat /\ ledger[from].credit \in Nat
      /\ ledger[to].debit \in Nat /\ ledger[to].credit \in Nat
      BY <1>0, RowNumbers
<1>7. Sound(from, b) /\ Sound(to, c)
      BY <1>0 DEF BalanceInv
<1>8. Sound(from, wallets[from].balance)'
  <2> SUFFICES ASSUME InRange(from)'
               PROVE  Sound(from, wallets[from].balance)'
      BY DEF Sound
  <2>1. /\ ledger[from].debit + a <= MaxMinor
        /\ ledger[from].credit <= MaxMinor
        BY <1>4 DEF InRange
  <2>2. InRange(from)
        BY ONLY <2>1, <1>2, <1>6 DEF InRange
  <2>3. -MaxMinor <= b - a /\ b - a <= MaxMinor /\ b - a \in Int
        BY ONLY <2>1, <2>2, <1>2, <1>6, <1>7 DEF Sound
  <2>4. wallets'[from].balance = b - a
        BY <1>3, <2>3, WrapExact
  <2>5. QED  BY ONLY <2>2, <2>4, <1>2, <1>4, <1>5, <1>6, <1>7 DEF Sound
<1>9. Sound(to, wallets[to].balance)'
  <2> SUFFICES ASSUME InRange(to)'
               PROVE  Sound(to, wallets[to].balance)'
      BY DEF Sound
  <2>1. /\ ledger[to].credit + a <= MaxMinor
        /\ ledger[to].debit <= MaxMinor
        BY <1>4 DEF InRange
  <2>2. InRange(to)
        BY ONLY <2>1, <1>2, <1>6 DEF InRange
  <2>3. -MaxMinor <= c + a /\ c + a <= MaxMinor /\ c + a \in Int
        BY ONLY <2>1, <2>2, <1>2, <1>6, <1>7 DEF Sound
  <2>4. wallets'[to].balance = c + a
        BY <1>3, <2>3, WrapExact
  <2>5. QED  BY ONLY <2>2, <2>4, <1>2, <1>4, <1>6, <1>7 DEF Sound
<1>10. \A w \in Wallets : Sound(w, wallets[w].balance)'
  <2>1. \A w \in Wallets \ {from, to} : Sound(w, wallets[w].balance)'
        BY <1>3, <1>4 DEF BalanceInv, Sound, InRange
  <2>2. QED  BY <1>8, <1>9, <2>1
<1>11. ASSUME NEW g \in Handlers, pc'[g] = "save"
       PROVE  SoundOld(req[g].wallet, copy[g][req[g].wallet].balance)'
  <2> DEFINE w == req[g].wallet
             old == copy[g][w].balance
  <2>1. /\ pc[g] = "save"
        /\ req' = req
        /\ copy'[g] = copy[g]
        BY <1>11 DEF Post, TypeInv, TypeOK
  <2>2. w \in Wallets /\ old \in Int
        BY <2>1 DEF TypeInv, Control, Rows, Balances
  <2>3. SoundOld(w, old)
        BY <2>1 DEF BalanceInv
  <2>4. /\ ledger[w].debit <= ledger'[w].debit
        /\ ledger[w].credit <= ledger'[w].credit
        /\ ledger[w].debit \in Nat /\ ledger[w].credit \in Nat
        /\ ledger'[w].debit \in Nat /\ ledger'[w].credit \in Nat
        /\ MaxMinor \in Nat
    <3>1. /\ ledger[w].debit \in Nat /\ ledger[w].credit \in Nat
          /\ MaxMinor \in Nat
          BY <2>2, RowNumbers
    <3>2. CASE w \notin {from, to}
          BY <3>1, <3>2, <2>2, <1>4
    <3>3. CASE w = from
          BY ONLY <3>1, <3>3, <1>2, <1>4, <1>6
    <3>4. CASE w = to
          BY ONLY <3>1, <3>4, <1>2, <1>4, <1>6
    <3>5. QED  BY <3>2, <3>3, <3>4
  <2>5. InRange(w)' => InRange(w)
        BY ONLY <2>1, <2>4 DEF InRange
  <2>6. QED  BY ONLY <2>1, <2>2, <2>3, <2>4, <2>5 DEF SoundOld
<1>12. QED  BY <1>10, <1>11 DEF BalanceInv

LEMMA BalanceInvNext ==
    TypeInv /\ LockInv /\ BalanceInv /\ [Next]_vars => BalanceInv'
<1> SUFFICES ASSUME TypeInv, LockInv, BalanceInv, [Next]_vars
             PROVE  BalanceInv'
    OBVIOUS
<1>1. ASSUME NEW h \in Handlers,
             \/ SubmitMovement(h) \/ SubmitPatch(h) \/ BeginTransaction(h)
             \/ InsertKey(h) \/ LockOriginal(h)
      PROVE  BalanceInv'
  <2>1. UNCHANGED <<wallets, ledger>>
        BY <1>1 DEF SubmitMovement, SubmitPatch, BeginTransaction, InsertKey,
                    LockOriginal, tables
  <2>2. ASSUME NEW g \in Handlers, pc'[g] = "save"
        PROVE  pc[g] = "save" /\ req'[g] = req[g] /\ copy'[g] = copy[g]
        BY <1>1, <2>2 DEF SubmitMovement, SubmitPatch, BeginTransaction,
                          InsertKey, LockOriginal, Goto, TypeInv, TypeOK
  <2>3. QED  BY <2>1, <2>2, BalanceInvFrame
<1>2. ASSUME NEW h \in Handlers,
             \/ RefuseSelfTransfer(h) \/ RefuseReusedKey(h)
             \/ ReplayResponse(h) \/ RefuseDuplicateKey(h)
             \/ RefuseOriginal(h) \/ RefuseMovement(h) \/ Respond(h)
             \/ RefusePatch(h) \/ Fail(h)
      PROVE  BalanceInv'
  <2>1. /\ UNCHANGED tables
        /\ \E code, tx : Answer(h, code, tx)
        BY <1>2 DEF RefuseSelfTransfer, RefuseReusedKey, ReplayResponse,
                    RefuseDuplicateKey, RefuseOriginal, RefuseMovement,
                    Respond, RefusePatch, Fail
  <2>2. QED  BY <2>1, BalanceInvAnswer
<1>3. ASSUME NEW h \in Handlers, NEW w \in Wallets, LockWallet(h, w)
      PROVE  BalanceInv'
  <2>1. UNCHANGED <<wallets, ledger, pc, req>>
        BY <1>3 DEF LockWallet, tables
  <2>2. \A g \in Handlers : pc'[g] = "save" => copy'[g] = copy[g]
        BY <1>3, <2>1 DEF LockWallet, TypeInv, TypeOK
  <2>3. QED  BY <2>1, <2>2, BalanceInvFrame
<1>4. ASSUME NEW h \in Handlers, Post(h) PROVE BalanceInv'
      BY <1>4, BalanceInvPost
<1>5. ASSUME NEW h \in Handlers, ReadWallet(h) PROVE BalanceInv'
  <2>1. PICK w \in Wallets : w = req[h].wallet
        BY <1>5 DEF ReadWallet
  <2>2. /\ UNCHANGED <<wallets, ledger, req>>
        /\ pc' = [pc EXCEPT ![h] = "save"]
        /\ copy' = [copy EXCEPT ![h][w] = wallets[w]]
        BY <1>5, <2>1 DEF ReadWallet, Goto, tables
  <2>3. \A v \in Wallets : Sound(v, wallets[v].balance)'
        BY <2>2 DEF BalanceInv, Sound, InRange
  <2>4. ASSUME NEW g \in Handlers, pc'[g] = "save"
        PROVE  SoundOld(req[g].wallet, copy[g][req[g].wallet].balance)'
    <3>1. CASE g = h
      <4>1. copy'[h][w] = wallets[w] /\ req'[h].wallet = w
            BY <2>1, <2>2 DEF TypeInv, TypeOK
      <4>2. Sound(w, wallets[w].balance)
            BY DEF BalanceInv
      <4>3. QED  BY <2>2, <3>1, <4>1, <4>2 DEF Sound, SoundOld, InRange
    <3>2. CASE g # h
      <4>1. pc[g] = "save" /\ copy'[g] = copy[g]
            BY <2>2, <2>4, <3>2 DEF TypeInv, TypeOK
      <4>2. QED  BY <2>2, <4>1 DEF BalanceInv, SoundOld, InRange
    <3>3. QED  BY <3>1, <3>2
  <2>5. QED  BY <2>3, <2>4 DEF BalanceInv
<1>6. ASSUME NEW h \in Handlers, SaveWallet(h) PROVE BalanceInv'
  <2>1. PICK w \in Wallets : w = req[h].wallet
        BY <1>6 DEF SaveWallet, TypeInv, Control
  <2>2. /\ pc[h] = "save"
        /\ req[h] \in Patches
        /\ w \in Patchable
        /\ copy[h][w] \in Rows
        BY <1>6, <2>1 DEF SaveWallet, TypeInv, Control, Patches
  <2>3. /\ wallets' = [wallets EXCEPT
                         ![w] = [copy[h][w] EXCEPT !.status = req[h].status]]
        /\ UNCHANGED <<ledger, req>>
        /\ pc' = [pc EXCEPT ![h] = "idle"]
        /\ copy' = [copy EXCEPT ![h] = NoCopies]
        BY <1>6, <2>1 DEF SaveWallet, Answer
  <2>4. /\ wallets'[w].balance = copy[h][w].balance
        /\ \A v \in Wallets \ {w} : wallets'[v] = wallets[v]
        BY <2>2, <2>3 DEF TypeInv, TypeOK, Rows
  <2>5. SoundOld(w, copy[h][w].balance)
        BY <2>1, <2>2 DEF BalanceInv
  <2>6. Sound(w, wallets[w].balance)'
        BY <2>2, <2>3, <2>4, <2>5 DEF Sound, SoundOld, InRange
  <2>7. \A v \in Wallets : Sound(v, wallets[v].balance)'
        BY <2>3, <2>4, <2>6 DEF BalanceInv, Sound, InRange
  <2>8. ASSUME NEW g \in Handlers, pc'[g] = "save"
        PROVE  SoundOld(req[g].wallet, copy[g][req[g].wallet].balance)'
    <3>1. pc[g] = "save" /\ copy'[g] = copy[g]
          BY <2>3, <2>8 DEF TypeInv, TypeOK
    <3>2. QED  BY <2>3, <3>1 DEF BalanceInv, SoundOld, InRange
  <2>9. QED  BY <2>7, <2>8 DEF BalanceInv
<1>7. CASE UNCHANGED vars
      BY <1>7, BalanceInvFrame DEF vars
<1>8. QED
      BY <1>1, <1>2, <1>3, <1>4, <1>5, <1>6, <1>7 DEF Next, Step

LEMMA SafetyInvariant == Spec => [](TypeInv /\ LockInv /\ BalanceInv)
    BY TypeInvInit, TypeInvNext, LockInvInit, LockInvNext, BalanceInvInit,
       BalanceInvNext, PTL DEF Spec

\* No wallet but the settlement wallet is overdrawn while its totals fit an
\* int64, however movements, status updates and failures interleave.
THEOREM NeverOverdrawn == Spec => []NonNegative
<1>1. BalanceInv => NonNegative
      BY DEF BalanceInv, Sound, NonNegative
<1>2. QED  BY <1>1, SafetyInvariant, PTL

\* The balance of a wallet nobody patches is the sum of its entries.
THEOREM BalancesMatchEntries == Spec => []LedgerExact
<1>1. BalanceInv => LedgerExact
      BY DEF BalanceInv, Sound, LedgerExact
<1>2. QED  BY <1>1, SafetyInvariant, PTL

\* The destination of a top-up and both ends of a transfer are active when it
\* commits: no status update comes between the check in TopUp or Transfer and
\* the commit. Nothing is said of the source of a top-up, nor of reversals.
THEOREM StatusChecksHold == Spec => ChecksHoldAtCommit
<1> DEFINE Moves(h) == Post(h) /\ req[h].op # "reversal" =>
                           /\ Active(wallets[Movement(h).to])
                           /\ req[h].op = "transfer" =>
                                Active(wallets[Movement(h).from])
<1>1. ASSUME TypeInv, LockInv, NEW h \in Handlers PROVE Moves(h)
  <2> SUFFICES ASSUME Post(h), req[h].op # "reversal"
               PROVE  /\ Active(wallets[Movement(h).to])
                      /\ req[h].op = "transfer" =>
                           Active(wallets[Movement(h).from])
      OBVIOUS
  <2>1. /\ pc[h] = "wallets"
        /\ req[h] \in Movements
        BY <1>1 DEF Post, TypeInv, Control
  <2>2. /\ Movement(h).from \in Wallets
        /\ Movement(h).to \in Wallets
        /\ copy[h][Movement(h).from] \in Rows
        /\ copy[h][Movement(h).to] \in Rows
        /\ Permitted(h)
        BY <1>1, MovementEnds DEF Post
  <2>3. /\ copy[h][Movement(h).from] = wallets[Movement(h).from]
        /\ copy[h][Movement(h).to] = wallets[Movement(h).to]
        BY <1>1, <2>1, <2>2, RowPresent
           DEF LockInv, FreshCopies, HoldsWallet
  <2>4. req[h].op \in {"topup", "transfer"}
        BY <2>1, RequestKinds DEF MovementTypes
  <2>5. QED  BY <2>2, <2>3, <2>4 DEF Permitted
<1>2. TypeInv /\ LockInv => \A h \in Handlers : Moves(h)
      BY <1>1
<1>3. TypeInv /\ LockInv => [\A h \in Handlers : Moves(h)]_vars
      BY <1>2
<1>4. Spec => [][\A h \in Handlers : Moves(h)]_vars
      BY <1>3, SafetyInvariant, PTL
<1>5. QED  BY <1>4 DEF ChecksHoldAtCommit
====
