---- MODULE LedgerRefinementProofs ----
(****************************************************************************)
(* The proof that WalletLedger implements AtomicLedger, step by step, while *)
(* nobody patches a wallet and the totals of the wallets fit an int64.      *)
(****************************************************************************)
EXTENDS LedgerRefinement, WalletHistoryProofs

\* The variables of AtomicLedger, in those of WalletLedger.
AtomicBalance == [w \in Wallets |-> wallets[w].balance]
AtomicUsed == {idempotency[slot] : slot \in Keys \X MovementTypes} \ {NoRecord}
AtomicPhase == [h \in Handlers |-> IF pc[h] = "idle" THEN "idle"
                                   ELSE IF pc[h] = "respond" THEN "done"
                                   ELSE "busy"]

LEMMA RefinesInit ==
    ASSUME Init
    PROVE  Atomic!Init
<1>1. AtomicUsed = {}
      BY DEF Init, AtomicUsed
<1>2. AtomicBalance = [w \in Wallets |-> 0]
      BY DEF Init, AtomicBalance
<1>3. AtomicPhase = [h \in Handlers |-> "idle"]
      BY DEF Init, AtomicPhase
<1>4. QED  BY <1>1, <1>2, <1>3 DEF Init, Atomic!Init, AtomicUsed, AtomicBalance,
                                   AtomicPhase

----
\* What holds of a database nobody patches: wallets are active, no transaction
\* moves money from a wallet to itself, and no request past the first check
\* asks for that.
Unpatched ==
    /\ \A w \in Wallets : wallets[w].status = "active"
    /\ \A i \in DOMAIN transactions :
         transactions[i].source # transactions[i].destination
    /\ \A h \in Handlers :
         pc[h] \in {"key", "original", "wallets"} => ~SelfTransfer(req[h])

\* Everything the steps are mapped with.
MappedInv ==
    /\ TypeInv
    /\ LockInv
    /\ BalanceInv
    /\ KeyInv
    /\ ReversalInv
    /\ Unpatched

\* The totals of every wallet fit the columns.
AllInRange == \A w \in Wallets : InRange(w)

LEMMA NoPatches ==
    ASSUME Patchable = {}, TypeInv, NEW h \in Handlers
    PROVE  /\ ~SubmitPatch(h)
           /\ ~ReadWallet(h)
           /\ ~RefusePatch(h)
           /\ ~SaveWallet(h)
<1>1. Patches = {}
      BY DEF Patches
<1>2. pc[h] \notin {"read", "save"}
      BY <1>1 DEF TypeInv, Control
<1>3. QED  BY <1>1, <1>2 DEF SubmitPatch, ReadWallet, RefusePatch, SaveWallet

LEMMA UnpatchedInit == Init => Unpatched
    BY DEF Init, Unpatched

\* The rows a movement saves are active again, and its ends are two wallets.
LEMMA UnpatchedPost ==
    ASSUME TypeInv, LockInv, Unpatched, NEW h \in Handlers, Post(h)
    PROVE  Unpatched'
<1>1. /\ pc[h] = "wallets"
      /\ Movement(h).from \in Wallets
      /\ Movement(h).to \in Wallets
      /\ Movement(h).from # Movement(h).to
      /\ copy[h][Movement(h).from] \in Rows
      /\ copy[h][Movement(h).to] \in Rows
      BY MovementEnds DEF Post
<1>2. /\ copy[h][Movement(h).from] = wallets[Movement(h).from]
      /\ copy[h][Movement(h).to] = wallets[Movement(h).to]
      BY <1>1, RowPresent DEF LockInv, FreshCopies, HoldsWallet
<1>3. wallets' = SavedRows(h)
      BY DEF Post
<1>4. \A w \in Wallets : wallets'[w].status = "active"
      BY <1>1, <1>2, <1>3 DEF SavedRows, Unpatched, TypeInv, TypeOK, Rows
<1>5. ASSUME NEW i \in DOMAIN transactions'
      PROVE  transactions'[i].source # transactions'[i].destination
  <2>1. CASE i \in DOMAIN transactions
        BY <2>1, PostKeepsRows DEF Unpatched
  <2>2. CASE i \notin DOMAIN transactions
    <3>1. transactions'[i] = NewTransaction(h)
          BY <2>2, PostTransactions
    <3>2. QED  BY <1>1, <3>1 DEF NewTransaction
  <2>3. QED  BY <2>1, <2>2
<1>6. \A g \in Handlers :
        pc'[g] \in {"key", "original", "wallets"} => ~SelfTransfer(req[g])' 
      BY DEF Post, Unpatched, SelfTransfer, TypeInv, TypeOK
<1>7. QED  BY <1>4, <1>5, <1>6 DEF Unpatched

LEMMA UnpatchedNext ==
    ASSUME Patchable = {}, TypeInv, LockInv, Unpatched, [Next]_vars
    PROVE  Unpatched'
<1>1. ASSUME NEW h \in Handlers, Acts(h), ~Post(h) PROVE Unpatched'
  <2>1. transactions' = transactions
        BY <1>1, OneHandlerMoves DEF Acts
  <2>2. wallets' = wallets
    <3>1. \/ SubmitMovement(h) \/ RefuseSelfTransfer(h) \/ RefuseReusedKey(h)
          \/ ReplayResponse(h) \/ BeginTransaction(h) \/ InsertKey(h)
          \/ RefuseDuplicateKey(h) \/ LockOriginal(h) \/ RefuseOriginal(h)
          \/ (\E w \in Wallets : LockWallet(h, w)) \/ RefuseMovement(h)
          \/ Respond(h) \/ Fail(h)
          BY <1>1, NoPatches DEF Acts, Step
    <3>2. QED
          BY <3>1 DEF SubmitMovement, RefuseSelfTransfer, RefuseReusedKey,
             ReplayResponse, BeginTransaction, InsertKey, RefuseDuplicateKey,
             LockOriginal, RefuseOriginal, LockWallet, RefuseMovement, Respond,
             Fail, tables
  <2>3. ASSUME NEW g \in Handlers, pc'[g] \in {"key", "original", "wallets"}
        PROVE  ~SelfTransfer(req'[g])
    <3>1. CASE g # h
      <4>1. pc'[g] = pc[g] /\ req'[g] = req[g]
            BY <1>1, <3>1, OneHandlerMoves DEF Acts, Alone
      <4>2. QED  BY <2>3, <4>1 DEF Unpatched
    <3>2. CASE g = h
      <4>1. CASE SubmitMovement(h)
            BY <2>3, <3>2, <4>1 DEF SubmitMovement, TypeInv, TypeOK
      <4>2. CASE BeginTransaction(h)
            BY <3>2, <4>2 DEF BeginTransaction, Goto
      <4>3. CASE InsertKey(h) \/ LockOriginal(h)
        <5>1. req' = req /\ pc[h] \in {"key", "original"}
              BY <4>3 DEF InsertKey, LockOriginal, Goto
        <5>2. QED  BY <3>2, <5>1 DEF Unpatched
      <4>4. CASE \E w \in Wallets : LockWallet(h, w)
        <5>1. req' = req /\ pc[h] = "wallets"
              BY <4>4 DEF LockWallet
        <5>2. QED  BY <3>2, <5>1 DEF Unpatched
      <4>5. CASE \/ RefuseSelfTransfer(h) \/ RefuseReusedKey(h)
                 \/ ReplayResponse(h) \/ RefuseDuplicateKey(h)
                 \/ RefuseOriginal(h) \/ RefuseMovement(h) \/ Respond(h)
                 \/ Fail(h)
        <5>1. pc'[h] = "idle"
              BY <4>5 DEF RefuseSelfTransfer, RefuseReusedKey,
                 ReplayResponse, RefuseDuplicateKey, RefuseOriginal,
                 RefuseMovement, Respond, Fail, Answer, TypeInv, TypeOK
        <5>2. QED  BY <2>3, <3>2, <5>1
      <4>6. QED  BY <1>1, <4>1, <4>2, <4>3, <4>4, <4>5, NoPatches DEF Acts, Step
    <3>3. QED  BY <3>1, <3>2
  <2>4. QED  BY <2>1, <2>2, <2>3 DEF Unpatched, SelfTransfer
<1>2. ASSUME NEW h \in Handlers, Post(h) PROVE Unpatched'
      BY <1>2, UnpatchedPost
<1>3. CASE UNCHANGED vars
      BY <1>3 DEF vars, Unpatched, SelfTransfer
<1>4. QED  BY <1>1, <1>2, <1>3, NextActs

LEMMA MappedInvariant ==
    ASSUME Patchable = {}
    PROVE  Spec => []MappedInv
<1>1. TypeInv /\ LockInv /\ Unpatched /\ [Next]_vars => Unpatched'
      BY UnpatchedNext
<1>2. QED  BY <1>1, UnpatchedInit, SafetyInvariant, HistoryInvariant, PTL
              DEF Spec, MappedInv

----
\* How the operators of the two specifications correspond.

LEMMA SameFlow ==
    ASSUME NEW h \in Handlers, req[h].op \in MovementTypes
    PROVE  Atomic!Flow(req[h]) = Movement(h)
    BY DEF Atomic!Flow, Movement, MovementTypes

\* The requests served under a request's key are the one its record stores.
LEMMA SameRecords ==
    ASSUME TypeInv, KeyInv, NEW r \in Movements
    PROVE  Atomic!SameKey(r) = {StoredRecord(r)} \ {NoRecord}
<1>1. ASSUME NEW u \in Atomic!SameKey(r)
      PROVE  u = StoredRecord(r) /\ u # NoRecord
  <2>1. /\ u \in AtomicUsed
        /\ r.key # NoKey
        /\ u.request.key = r.key
        /\ u.request.op = r.op
        BY DEF Atomic!SameKey, AtomicUsed
  <2>2. PICK k \in Keys, op \in MovementTypes :
          u = idempotency[<<k, op>>] /\ u # NoRecord
        BY <2>1 DEF AtomicUsed
  <2>3. k = r.key /\ op = r.op
        BY <2>1, <2>2 DEF KeyInv, KeyedOnce
  <2>4. QED  BY <2>1, <2>2, <2>3 DEF StoredRecord
<1>2. ASSUME StoredRecord(r) # NoRecord
      PROVE  StoredRecord(r) \in Atomic!SameKey(r)
  <2>1. /\ r.key \in Keys
        /\ r.key # NoKey
        /\ r.op \in MovementTypes
        BY <1>2, RequestKinds DEF StoredRecord, MaybeKey
  <2>2. PICK k \in Keys, op \in MovementTypes : k = r.key /\ op = r.op
        BY <2>1
  <2>3. StoredRecord(r) = idempotency[<<k, op>>]
        BY <2>1, <2>2 DEF StoredRecord
  <2>4. /\ idempotency[<<k, op>>].request.op = op
        /\ idempotency[<<k, op>>].request.key = k
        BY <1>2, <2>3 DEF KeyInv, KeyedOnce
  <2>5. <<k, op>> \in Keys \X MovementTypes
        OBVIOUS
  <2>6. idempotency[<<k, op>>] \in AtomicUsed
        BY <1>2, <2>3, <2>5 DEF AtomicUsed
  <2>7. QED  BY <2>1, <2>2, <2>3, <2>4, <2>6 DEF Atomic!SameKey, AtomicUsed
<1>3. QED  BY <1>1, <1>2

\* A request is done when its handler is idle, and has taken effect when it
\* only responds.
LEMMA PhaseOf ==
    ASSUME TypeInv, NEW h \in Handlers
    PROVE  /\ AtomicPhase[h] = "idle" <=> pc[h] = "idle"
           /\ AtomicPhase[h] = "done" <=> pc[h] = "respond"
           /\ pc[h] \in {"replay", "key", "original", "wallets"} =>
                AtomicPhase[h] = "busy"
    BY DEF AtomicPhase

LEMMA PhaseMoves ==
    ASSUME TypeInv, NEW h \in Handlers,
           NEW label \in {"idle", "replay", "respond"},
           pc' = [pc EXCEPT ![h] = label]
    PROVE  AtomicPhase' = [AtomicPhase EXCEPT
             ![h] = IF label = "idle" THEN "idle"
                    ELSE IF label = "respond" THEN "done" ELSE "busy"]
<1>1. pc \in [Handlers -> {"idle", "replay", "key", "original", "wallets",
                            "respond", "read", "save"}]
      BY DEF TypeInv, TypeOK
<1>2. \A g \in Handlers : pc'[g] = IF g = h THEN label ELSE pc[g]
      BY <1>1
<1>3. QED  BY <1>2 DEF AtomicPhase

LEMMA TablesStay ==
    ASSUME UNCHANGED tables
    PROVE  UNCHANGED <<AtomicBalance, transactions, AtomicUsed>>
    BY DEF tables, AtomicBalance, AtomicUsed

\* Answers are answers.
LEMMA MapsAnswer ==
    ASSUME TypeInv, NEW h \in Handlers, NEW code \in Codes, NEW tx \in Nat,
           Answer(h, code, tx), UNCHANGED tables
    PROVE  Atomic!Answer(h, code, tx)
<1>1. AtomicPhase' = [AtomicPhase EXCEPT ![h] = "idle"]
      BY PhaseMoves DEF Answer
<1>2. UNCHANGED <<AtomicBalance, transactions, AtomicUsed, req>>
      BY TablesStay DEF Answer
<1>3. reply' = [reply EXCEPT ![h] = [code |-> code, tx |-> tx]]
      BY DEF Answer
<1>4. QED  BY <1>1, <1>2, <1>3
              DEF Atomic!Answer, AtomicPhase, AtomicBalance, AtomicUsed

\* A refusal that is true.
LEMMA MapsRefusal ==
    ASSUME TypeInv, NEW h \in Handlers, NEW code \in Atomic!Refusals,
           pc[h] \in {"replay", "key", "original", "wallets"},
           Answer(h, code, 0), UNCHANGED tables,
           Atomic!Refusable(req[h], code)
    PROVE  Atomic!Refuse(h)
<1>1. code \in Codes
      BY DEF Atomic!Refusals, Codes
<1>2. Atomic!Answer(h, code, 0)
      BY <1>1, MapsAnswer
<1>3. AtomicPhase[h] = "busy"
      BY PhaseOf
<1>4. QED  BY <1>2, <1>3 DEF Atomic!Refuse, AtomicPhase

----
\* The steps.

\* The steps before the commit leave no trace.
LEMMA MapsStutter ==
    ASSUME TypeInv, NEW h \in Handlers,
           \/ BeginTransaction(h) \/ InsertKey(h) \/ LockOriginal(h)
           \/ \E w \in Wallets : LockWallet(h, w)
    PROVE  UNCHANGED Atomic!vars
<1>1. UNCHANGED tables /\ req' = req /\ reply' = reply
      BY DEF BeginTransaction, InsertKey, LockOriginal, LockWallet, Goto
<1>2. /\ pc[h] \in {"replay", "key", "original", "wallets"}
      /\ pc'[h] \in {"key", "original", "wallets"}
      /\ \A g \in Handlers \ {h} : pc'[g] = pc[g]
      BY DEF BeginTransaction, InsertKey, LockOriginal, LockWallet, Goto,
             TypeInv, TypeOK
<1>3. AtomicPhase' = AtomicPhase
      BY <1>2 DEF AtomicPhase
<1>4. QED  BY <1>1, <1>3, TablesStay
              DEF Atomic!vars, AtomicPhase, AtomicBalance, AtomicUsed

LEMMA MapsSubmit ==
    ASSUME TypeInv, NEW h \in Handlers, SubmitMovement(h)
    PROVE  Atomic!Submit(h)
<1>1. AtomicPhase[h] = "idle"
      BY PhaseOf DEF SubmitMovement
<1>2. AtomicPhase' = [AtomicPhase EXCEPT ![h] = "busy"]
      BY PhaseMoves DEF SubmitMovement
<1>3. UNCHANGED <<AtomicBalance, transactions, AtomicUsed>>
      BY TablesStay DEF SubmitMovement
<1>4. /\ \E r \in Movements : req' = [req EXCEPT ![h] = r]
      /\ reply' = [reply EXCEPT ![h] = [code |-> "none", tx |-> 0]]
      BY DEF SubmitMovement
<1>5. QED  BY <1>1, <1>2, <1>3, <1>4
              DEF Atomic!Submit, AtomicPhase, AtomicBalance, AtomicUsed

\* The answers given before the transaction begins.
LEMMA MapsReplayLookup ==
    ASSUME MappedInv, NEW h \in Handlers,
           RefuseSelfTransfer(h) \/ RefuseReusedKey(h) \/ ReplayResponse(h)
    PROVE  Atomic!Next
<1>1. /\ TypeInv /\ KeyInv
      /\ pc[h] = "replay" /\ req[h] \in Movements
      BY DEF MappedInv, TypeInv, Control, RefuseSelfTransfer, RefuseReusedKey,
             ReplayResponse
<1>2. Atomic!SameKey(req[h]) = {StoredRecord(req[h])} \ {NoRecord}
      BY <1>1, SameRecords
<1>3. CASE RefuseSelfTransfer(h)
  <2>1. Atomic!Refusable(req[h], "validation")
        BY <1>3 DEF RefuseSelfTransfer, SelfTransfer, Atomic!Refusable,
                    Atomic!Invalid
  <2>2. Atomic!Refuse(h)
        BY <1>1, <1>3, <2>1, MapsRefusal DEF RefuseSelfTransfer, Atomic!Refusals
  <2>3. QED  BY <2>2 DEF Atomic!Next
<1>4. CASE RefuseReusedKey(h)
  <2>1. Atomic!Refusable(req[h], "idempotency_conflict")
        BY <1>2, <1>4 DEF RefuseReusedKey, Atomic!Refusable
  <2>2. Atomic!Refuse(h)
        BY <1>1, <1>4, <2>1, MapsRefusal DEF RefuseReusedKey, Atomic!Refusals
  <2>3. QED  BY <2>2 DEF Atomic!Next
<1>5. CASE ReplayResponse(h)
  <2> DEFINE u == StoredRecord(req[h])
  <2>1. u.request = req[h] /\ u # NoRecord
        BY <1>1, <1>5, RequestKinds
           DEF ReplayResponse, NoRecord, NoRequest, MovementTypes
  <2>2. u.tx \in Nat
        BY <1>1, <2>1, StoredRecordType
  <2> HIDE DEF u
  <2>3. Atomic!Answer(h, "created", u.tx)
    <3>1. Answer(h, "created", u.tx) /\ UNCHANGED tables
          BY <1>5 DEF ReplayResponse, u
    <3>2. PICK code \in Codes : code = "created"
          BY DEF Codes
    <3>3. PICK tx \in Nat : tx = u.tx
          BY <2>2
    <3>4. Answer(h, code, tx)
          BY <3>1, <3>2, <3>3
    <3>5. Atomic!Answer(h, code, tx)
          BY <1>1, <3>1, <3>4, MapsAnswer
    <3>6. QED  BY <3>2, <3>3, <3>5 DEF Atomic!Answer
  <2>4. AtomicPhase[h] = "busy"
        BY <1>1, PhaseOf
  <2>5. u \in Atomic!SameKey(req[h])
        BY <1>2, <2>1 DEF u
  <2>6. \E v \in Atomic!SameKey(req[h]) :
          v.request = req[h] /\ Atomic!Answer(h, "created", v.tx)
        BY <2>1, <2>3, <2>5 DEF Atomic!Answer
  <2>7. Atomic!Replay(h)
        BY <2>4, <2>6 DEF Atomic!Replay, AtomicPhase
  <2>8. QED  BY <2>7 DEF Atomic!Next
<1>6. QED  BY <1>3, <1>4, <1>5

\* The refusals of the transaction's own checks.
LEMMA MapsRefuseDuplicateKey ==
    ASSUME MappedInv, NEW h \in Handlers, RefuseDuplicateKey(h)
    PROVE  Atomic!Refuse(h)
<1>1. /\ TypeInv /\ KeyInv
      /\ pc[h] = "key" /\ req[h] \in Movements
      BY DEF MappedInv, TypeInv, Control, RefuseDuplicateKey
<1>2. Atomic!SameKey(req[h]) # {}
      BY <1>1, SameRecords DEF RefuseDuplicateKey
<1>3. Atomic!Refusable(req[h], "conflict")
      BY <1>2 DEF Atomic!Refusable
<1>4. QED  BY <1>1, <1>3, MapsRefusal DEF RefuseDuplicateKey, Atomic!Refusals

LEMMA MapsRefuseOriginal ==
    ASSUME MappedInv, NEW h \in Handlers, RefuseOriginal(h)
    PROVE  Atomic!Refuse(h)
<1> DEFINE i == req[h].target
           code == OriginalVerdict(i)
<1>1. /\ TypeInv
      /\ pc[h] = "original" /\ req[h] \in Reversals /\ code # "created"
      BY DEF MappedInv, TypeInv, Control, RefuseOriginal
<1>2. req[h].op = "reversal"
      BY <1>1 DEF Reversals
<1>3. code \in Atomic!Refusals
      BY <1>1 DEF OriginalVerdict, Atomic!Refusals
<1>4. ASSUME i \notin DOMAIN transactions
      PROVE  Atomic!Refusable(req[h], code)
      BY <1>2, <1>4 DEF OriginalVerdict, Atomic!Refusable, Atomic!Missing,
                        Atomic!HasTarget
<1>5. ASSUME i \in DOMAIN transactions
      PROVE  Atomic!Refusable(req[h], code)
      BY <1>1, <1>2, <1>5 DEF OriginalVerdict, Atomic!Refusable,
         Atomic!Invalid, Atomic!AlreadyReversed, Atomic!HasTarget
<1>6. Atomic!Refusable(req[h], code)
      BY <1>4, <1>5
<1>7. QED  BY <1>1, <1>3, <1>6, MapsRefusal DEF RefuseOriginal

\* What the checks on the locked wallets find out is true of the tables.
LEMMA WalletChecks ==
    ASSUME MappedInv, NEW h \in Handlers, pc[h] = "wallets", Unlocked(h) = {}
    PROVE  /\ req[h] \in Movements
           /\ req[h].op \in MovementTypes
           /\ Atomic!Flow(req[h]) = Movement(h)
           /\ Atomic!HasTarget(req[h])
           /\ Found(h) <=> ~Atomic!Missing(req[h])
           /\ Found(h) => /\ Permitted(h)
                          /\ Funded(h) <=> ~Atomic!Overdraws(req[h])
<1>1. /\ req[h] \in Movements
      /\ req[h].op \in MovementTypes
      /\ Atomic!Flow(req[h]) = Movement(h)
      BY RequestKinds, SameFlow DEF MappedInv, TypeInv, Control
<1>2. Atomic!HasTarget(req[h])
      BY DEF MappedInv, TypeInv, Control, Atomic!HasTarget
<1>3. Found(h) <=> ~Atomic!Missing(req[h])
  <2>1. CASE req[h].op = "topup"
        BY <1>1, <1>2, <2>1, ConstantsAssumption
           DEF Found, Atomic!Missing, Movement
  <2>2. CASE req[h].op = "transfer"
    <3>1. Movement(h).from # Movement(h).to
          BY <2>2 DEF MappedInv, Unpatched, SelfTransfer, Movement
    <3>2. QED  BY <1>1, <1>2, <2>2, <3>1 DEF Found, Atomic!Missing
  <2>3. CASE req[h].op = "reversal"
    <3>1. req[h].target \in DOMAIN transactions
          BY <1>2, <2>3 DEF Atomic!HasTarget
    <3>2. Movement(h).from # Movement(h).to
          BY <2>3, <3>1 DEF MappedInv, Unpatched, Movement
    <3>3. QED  BY <1>1, <1>2, <2>3, <3>2 DEF Found, Atomic!Missing
  <2>4. QED  BY <1>1, <2>1, <2>2, <2>3 DEF MovementTypes
<1>4. ASSUME Found(h), NEW w \in {Movement(h).from, Movement(h).to}
      PROVE  w \in Wallets /\ copy[h][w] = wallets[w]
  <2>1. w \in Wallets
        BY <1>4 DEF Found
  <2>2. copy[h][w] # NoRow
        BY <2>1 DEF Unlocked
  <2>3. QED  BY <2>1, <2>2 DEF MappedInv, LockInv, FreshCopies, HoldsWallet
<1>5. Found(h) => Permitted(h)
      BY <1>4 DEF Permitted, Active, MappedInv, Unpatched
<1>6. ASSUME Found(h) PROVE Funded(h) <=> ~Atomic!Overdraws(req[h])
  <2> DEFINE m == Movement(h)
  <2>1. /\ m.from \in Wallets
        /\ copy[h][m.from] = wallets[m.from]
        /\ AtomicBalance[m.from] = wallets[m.from].balance
        BY <1>4, <1>6 DEF AtomicBalance
  <2>2. wallets[m.from].balance \in Int /\ m.amount \in Int
    <3>1. wallets[m.from] \in Rows
          BY <2>1 DEF MappedInv, TypeInv, TypeOK
    <3>2. wallets[m.from].balance \in Int
          BY <3>1, ConstantsAssumption DEF Rows, Balances
    <3>3. m.amount \in Amounts
      <4>1. CASE req[h].op = "topup"
            BY <1>1, <4>1, RequestKinds DEF Movement, TopUps
      <4>2. CASE req[h].op = "transfer"
            BY <1>1, <4>2, RequestKinds DEF Movement, Transfers
      <4>3. CASE req[h].op = "reversal"
        <5>1. transactions[req[h].target] \in Transactions
              BY <1>2, <4>3 DEF Atomic!HasTarget, MappedInv, TypeInv, TypeOK
        <5>2. QED  BY <4>3, <5>1 DEF Movement, Transactions
      <4>4. QED  BY <1>1, <4>1, <4>2, <4>3 DEF MovementTypes
    <3>4. m.amount \in 1..MaxMinor
          BY ONLY <3>3, ConstantsAssumption
    <3>5. m.amount \in Int
          BY ONLY <3>4, ConstantsAssumption
    <3>6. QED  BY <3>2, <3>5
  <2>3. Atomic!Overdraws(req[h]) <=>
          req[h].op # "topup" /\ wallets[m.from].balance < m.amount
        BY <1>1, <1>3, <1>6, <2>1 DEF Atomic!Overdraws, AtomicBalance
  <2>4. Funded(h) <=>
          (req[h].op # "topup" => wallets[m.from].balance >= m.amount)
        BY <1>1, <2>1 DEF Funded, MovementTypes
  <2>5. QED  BY <2>2, <2>3, <2>4
<1>7. QED  BY <1>1, <1>2, <1>3, <1>5, <1>6

LEMMA MapsRefuseMovement ==
    ASSUME MappedInv, NEW h \in Handlers, RefuseMovement(h)
    PROVE  Atomic!Refuse(h)
<1>1. /\ TypeInv
      /\ pc[h] = "wallets" /\ Unlocked(h) = {} /\ Verdict(h) # "created"
      /\ Answer(h, Verdict(h), 0) /\ UNCHANGED tables
      BY DEF MappedInv, RefuseMovement
<1>2. CASE ~Found(h)
  <2>1. Verdict(h) = "not_found"
        BY <1>2 DEF Verdict
  <2>2. Atomic!Refusable(req[h], "not_found")
        BY <1>1, <1>2, WalletChecks DEF Atomic!Refusable
  <2>3. QED  BY <1>1, <2>1, <2>2, MapsRefusal DEF Atomic!Refusals
<1>3. CASE Found(h)
  <2>1. Permitted(h) /\ ~Funded(h)
        BY <1>1, <1>3, WalletChecks DEF Verdict
  <2>2. Verdict(h) = "insufficient_funds"
        BY <1>3, <2>1 DEF Verdict
  <2>3. Atomic!Refusable(req[h], "insufficient_funds")
        BY <1>1, <1>3, <2>1, WalletChecks DEF Atomic!Refusable
  <2>4. QED  BY <1>1, <2>2, <2>3, MapsRefusal DEF Atomic!Refusals
<1>4. QED  BY <1>2, <1>3

\* A movement that commits could not be refused.
LEMMA PostNotRefusable ==
    ASSUME MappedInv, NEW h \in Handlers, Post(h)
    PROVE  \A code \in Atomic!Refusals : ~Atomic!Refusable(req[h], code)
<1> DEFINE r == req[h]
           i0 == req[h].target
<1>1. /\ TypeInv /\ KeyInv /\ ReversalInv
      /\ pc[h] = "wallets" /\ Unlocked(h) = {} /\ Verdict(h) = "created"
      /\ Found(h) /\ Permitted(h) /\ Funded(h)
      BY DEF MappedInv, Post, Verdict
<1>2. /\ r \in Movements
      /\ ~Atomic!Missing(r)
      /\ ~Atomic!Overdraws(r)
      BY <1>1, WalletChecks
<1>3. ~SelfTransfer(r)
      BY <1>1 DEF MappedInv, Unpatched
<1>4. r.op = "reversal" =>
        /\ transactions[i0].type # "reversal"
        /\ transactions[i0].status # "reversed"
      BY <1>1, PostHoldsOriginal DEF ReversalInv, OriginalHeld
<1>5. ~Atomic!Invalid(r) /\ ~Atomic!AlreadyReversed(r)
      BY <1>3, <1>4 DEF Atomic!Invalid, Atomic!AlreadyReversed, SelfTransfer
<1>6. Atomic!SameKey(r) = {}
  <2>1. StoredRecord(r) = NoRecord
    <3>1. CASE r.key = NoKey
          BY <3>1 DEF StoredRecord
    <3>2. CASE r.key # NoKey
      <4>1. r.key \in Keys /\ r.op \in MovementTypes
            BY <1>2, <3>2, RequestKinds DEF MaybeKey
      <4>2. HoldsKey(h, r.key, r.op)
            BY <1>1, <3>2 DEF HoldsKey, InTransaction
      <4>3. QED  BY <1>1, <3>2, <4>1, <4>2 DEF KeyInv, KeyHeld, StoredRecord
    <3>3. QED  BY <3>1, <3>2
  <2>2. QED  BY <1>1, <1>2, <2>1, SameRecords
<1>7. QED  BY <1>2, <1>5, <1>6 DEF Atomic!Refusable, Atomic!Refusals

\* Where totals fit the columns, the commit moves the amount between balances.
LEMMA PostBalances ==
    ASSUME Patchable = {}, MappedInv, MappedInv', AllInRange, AllInRange',
           NEW h \in Handlers, Post(h)
    PROVE  AtomicBalance' =
             [AtomicBalance EXCEPT
                ![Movement(h).from] = @ - Movement(h).amount,
                ![Movement(h).to] = @ + Movement(h).amount]
<1> DEFINE m == Movement(h)
<1>1. /\ m.from \in Wallets /\ m.to \in Wallets /\ m.from # m.to
      /\ m.amount \in Amounts
      BY MovementEnds DEF MappedInv, Post
<1>2. \A w \in Wallets :
        /\ wallets[w].balance = ledger[w].credit - ledger[w].debit
        /\ wallets'[w].balance = ledger'[w].credit - ledger'[w].debit
      BY DEF MappedInv, BalanceInv, Sound, AllInRange, InRange
<1>3. ledger' = [ledger EXCEPT ![m.from].debit = @ + m.amount,
                               ![m.to].credit = @ + m.amount]
      BY DEF Post, PostedEntries
<1>4. ledger \in [Wallets -> [debit: Nat, credit: Nat]]
      BY DEF MappedInv, TypeInv, TypeOK
<1>5. m.amount \in 1..MaxMinor
      BY ONLY <1>1, ConstantsAssumption
<1>6. m.amount \in Nat
      BY ONLY <1>5, ConstantsAssumption
<1> HIDE DEF m
<1>7. \A w \in Wallets :
        /\ ledger'[w].debit = IF w = m.from THEN ledger[w].debit + m.amount
                              ELSE ledger[w].debit
        /\ ledger'[w].credit = IF w = m.to THEN ledger[w].credit + m.amount
                               ELSE ledger[w].credit
        /\ ledger[w].debit \in Nat /\ ledger[w].credit \in Nat
      BY <1>1, <1>3, <1>4
<1>8. \A w \in Wallets :
        wallets'[w].balance = IF w = m.from THEN wallets[w].balance - m.amount
                              ELSE IF w = m.to
                              THEN wallets[w].balance + m.amount
                              ELSE wallets[w].balance
      BY <1>1, <1>2, <1>6, <1>7
<1>9. AtomicBalance' = [AtomicBalance EXCEPT ![m.from] = @ - m.amount,
                                             ![m.to] = @ + m.amount]
      BY <1>1, <1>8 DEF AtomicBalance
<1>10. QED  BY <1>9 DEF m

\* The commit stores the one new record of a keyed request.
LEMMA PostUsed ==
    ASSUME MappedInv, NEW h \in Handlers, Post(h)
    PROVE  AtomicUsed' =
             IF req[h].key = NoKey THEN AtomicUsed
             ELSE AtomicUsed \cup
                    {[request |-> req[h], tx |-> Len(transactions) + 1]}
<1> DEFINE new == [request |-> req[h], tx |-> Len(transactions) + 1]
<1>1. /\ TypeInv /\ KeyInv
      /\ pc[h] = "wallets" /\ req[h] \in Movements
      /\ Len(transactions) + 1 \in Nat \ {0}
      BY DEF MappedInv, TypeInv, TypeOK, Control, Post
<1>2. CASE req[h].key = NoKey
      BY <1>2 DEF Post, SavedResponse, AtomicUsed
<1>3. CASE req[h].key # NoKey
  <2>1. req[h].key \in Keys /\ req[h].op \in MovementTypes
        BY <1>1, <1>3, RequestKinds DEF MaybeKey
  <2> DEFINE own == <<req[h].key, req[h].op>>
             Slots == Keys \X MovementTypes
  <2>2. HoldsKey(h, req[h].key, req[h].op)
        BY <1>1, <1>3 DEF HoldsKey, InTransaction
  <2>3. own \in Slots /\ idempotency[own] = NoRecord
        BY <1>1, <2>1, <2>2 DEF KeyInv, KeyHeld
  <2>4. idempotency' = [idempotency EXCEPT ![own] = new]
        BY <1>3 DEF Post, SavedResponse
  <2>5. new # NoRecord
    <3>1. new.tx # 0
          BY <1>1
    <3>2. QED  BY <3>1 DEF NoRecord
  <2>6. idempotency \in [Slots -> Records \cup {NoRecord}]
        BY <1>1 DEF TypeInv, TypeOK
  <2> HIDE DEF own, Slots, new
  <2>7. /\ idempotency'[own] = new
        /\ \A slot \in Slots \ {own} : idempotency'[slot] = idempotency[slot]
        BY <2>3, <2>4, <2>6
  <2>8. {idempotency'[slot] : slot \in Slots} \ {NoRecord}
          = ({idempotency[slot] : slot \in Slots} \ {NoRecord}) \cup {new}
        BY <2>3, <2>5, <2>7
  <2>9. QED  BY <1>3, <2>8 DEF AtomicUsed, Slots, new
<1>4. QED  BY <1>2, <1>3

LEMMA MapsPost ==
    ASSUME Patchable = {}, MappedInv, MappedInv', AllInRange, AllInRange',
           NEW h \in Handlers, Post(h)
    PROVE  Atomic!Serve(h)
<1>1. /\ TypeInv
      /\ Atomic!Flow(req[h]) = Movement(h)
      BY WalletChecks DEF MappedInv, Post
<1>2. AtomicPhase[h] = "busy" /\ AtomicPhase' = [AtomicPhase EXCEPT ![h] = "done"]
      BY <1>1, PhaseOf, PhaseMoves DEF Post
<1>3. \A code \in Atomic!Refusals : ~Atomic!Refusable(req[h], code)
      BY PostNotRefusable
<1>4. AtomicBalance' =
        [AtomicBalance EXCEPT
           ![Atomic!Flow(req[h]).from] = @ - Atomic!Flow(req[h]).amount,
           ![Atomic!Flow(req[h]).to] = @ + Atomic!Flow(req[h]).amount]
      BY <1>1, PostBalances
<1>5. transactions' = Append(
        IF req[h].op = "reversal"
          THEN [transactions EXCEPT ![req[h].target].status = "reversed"]
          ELSE transactions,
        [type |-> req[h].op, source |-> Atomic!Flow(req[h]).from,
         destination |-> Atomic!Flow(req[h]).to,
         amount |-> Atomic!Flow(req[h]).amount, key |-> req[h].key,
         status |-> "completed",
         related |-> IF req[h].op = "reversal" THEN req[h].target ELSE 0])
      BY <1>1 DEF Post, MarkedOriginal, NewTransaction
<1>6. AtomicUsed' = IF req[h].key = NoKey THEN AtomicUsed
                    ELSE AtomicUsed \cup
                           {[request |-> req[h], tx |-> Len(transactions) + 1]}
      BY PostUsed
<1>7. /\ reply' = [reply EXCEPT ![h].tx = Len(transactions) + 1]
      /\ req' = req
      BY DEF Post
<1>8. QED  BY <1>2, <1>3, <1>4, <1>5, <1>6, <1>7
              DEF Atomic!Serve, AtomicPhase, AtomicBalance, AtomicUsed

LEMMA MapsEnd ==
    ASSUME MappedInv, NEW h \in Handlers, Respond(h) \/ Fail(h)
    PROVE  Atomic!Confirm(h) \/ Atomic!Fail(h)
<1>1. TypeInv
      BY DEF MappedInv
<1>2. CASE Respond(h)
  <2>1. PICK code \in Codes : code = "created"
        BY DEF Codes
  <2>2. PICK tx \in Nat : tx = reply[h].tx
        BY <1>1 DEF TypeInv, TypeOK
  <2>3. Answer(h, code, tx) /\ UNCHANGED tables
        BY <1>2, <2>1, <2>2 DEF Respond, Answer
  <2>4. Atomic!Answer(h, code, tx)
        BY <1>1, <2>3, MapsAnswer
  <2>5. Atomic!Answer(h, "created", reply[h].tx)
        BY <2>1, <2>2, <2>4 DEF Atomic!Answer
  <2>6. AtomicPhase[h] = "done"
        BY <1>1, <1>2, PhaseOf DEF Respond
  <2>7. QED  BY <2>5, <2>6 DEF Atomic!Confirm, AtomicPhase
<1>3. CASE Fail(h)
  <2>1. PICK code \in Codes, tx \in Nat : code = "internal" /\ tx = 0
        BY DEF Codes
  <2>2. Answer(h, code, tx) /\ UNCHANGED tables
        BY <1>3, <2>1 DEF Fail, Answer
  <2>3. Atomic!Answer(h, code, tx)
        BY <1>1, <2>2, MapsAnswer
  <2>4. Atomic!Answer(h, "internal", 0)
        BY <2>1, <2>3 DEF Atomic!Answer
  <2>5. AtomicPhase[h] # "idle"
        BY <1>1, <1>3, PhaseOf DEF Fail
  <2>6. QED  BY <2>4, <2>5 DEF Atomic!Fail, AtomicPhase
<1>4. QED  BY <1>2, <1>3

\* Movements are linearizable. While nobody patches a wallet and the totals fit
\* the columns, every behaviour of the handlers is one of AtomicLedger: each
\* request takes effect at its commit as if it were alone, is refused for a
\* reason that is true at that moment, or replays what its key did.
THEOREM MovementsAreAtomic ==
    ASSUME Patchable = {}
    PROVE  Spec /\ []AllInRange => ImplementsAtomicLedger
<1>1. ASSUME MappedInv, MappedInv', AllInRange, AllInRange', [Next]_vars
      PROVE  [Atomic!Next]_(Atomic!vars)
  <2>1. ASSUME NEW h \in Handlers, Acts(h) PROVE Atomic!Next \/ UNCHANGED Atomic!vars
    <3>1. TypeInv
          BY <1>1 DEF MappedInv
    <3>2. CASE SubmitMovement(h)
          BY <3>1, <3>2, MapsSubmit DEF Atomic!Next
    <3>3. CASE RefuseSelfTransfer(h) \/ RefuseReusedKey(h) \/ ReplayResponse(h)
          BY <1>1, <3>3, MapsReplayLookup
    <3>4. CASE \/ BeginTransaction(h) \/ InsertKey(h) \/ LockOriginal(h)
               \/ \E w \in Wallets : LockWallet(h, w)
          BY <3>1, <3>4, MapsStutter
    <3>5. CASE RefuseDuplicateKey(h) \/ RefuseOriginal(h) \/ RefuseMovement(h)
      <4>1. Atomic!Refuse(h)
            BY <1>1, <3>5, MapsRefuseDuplicateKey, MapsRefuseOriginal,
               MapsRefuseMovement
      <4>2. QED  BY <4>1 DEF Atomic!Next
    <3>6. CASE Post(h)
          BY <1>1, <3>6, MapsPost DEF Atomic!Next
    <3>7. CASE Respond(h) \/ Fail(h)
          BY <1>1, <3>7, MapsEnd DEF Atomic!Next
    <3>8. QED  BY <2>1, <3>1, <3>2, <3>3, <3>4, <3>5, <3>6, <3>7, NoPatches
                  DEF Acts, Step
  <2>2. CASE UNCHANGED vars
        BY <2>2 DEF vars, Atomic!vars
  <2>3. QED  BY <1>1, <2>1, <2>2, NextActs
<1>2. MappedInv /\ MappedInv' /\ AllInRange /\ AllInRange' /\ [Next]_vars
        => [Atomic!Next]_(Atomic!vars)
      BY <1>1
<1>3. Spec => []MappedInv
      BY MappedInvariant
<1>4. QED  BY <1>2, <1>3, RefinesInit, PTL
              DEF Spec, ImplementsAtomicLedger, Atomic!Spec
====
