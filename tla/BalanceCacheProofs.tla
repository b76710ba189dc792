---- MODULE BalanceCacheProofs ----
(****************************************************************************)
(* Proofs about BalanceCache, for any number of handlers and commits.       *)
(****************************************************************************)
EXTENDS BalanceCache, TLAPS

\* Nothing a handler has in memory, nor the copy, is newer than the row:
\* every value in circulation was read from the row after a commit, and the
\* row only grows.
Behind ==
    /\ cache # NoEntry => cache <= balance
    /\ \A h \in Handlers : seen[h] <= balance /\ answer[h] <= balance

CacheInv == TypeOK /\ Behind

----
\* What a request leaves behind when it ends, and the copy it may store.
LEMMA DoneInv ==
    ASSUME CacheInv, NEW h \in Handlers, Done(h), UNCHANGED <<balance, redis>>,
           cache' \in {cache, seen[h]}
    PROVE  CacheInv'
<1>1. TypeOK'
      BY CacheAssumption DEF CacheInv, TypeOK, Done
<1>2. Behind'
      BY CacheAssumption DEF CacheInv, TypeOK, Behind, Done
<1>3. QED  BY <1>1, <1>2 DEF CacheInv

LEMMA CacheInvInit == Init => CacheInv
    BY CacheAssumption DEF Init, CacheInv, TypeOK, Behind

LEMMA CacheInvNext == CacheInv /\ [Next]_vars => CacheInv'
<1> SUFFICES ASSUME CacheInv, [Next]_vars PROVE CacheInv'
    OBVIOUS
<1>1. ASSUME NEW h \in Handlers, BeginMovement(h) PROVE CacheInv'
      BY <1>1 DEF BeginMovement, CacheInv, TypeOK, Behind
<1>2. ASSUME NEW h \in Handlers, Commit(h) PROVE CacheInv'
  <2>1. /\ balance \in Nat /\ MaxCommits \in Nat
        /\ balance' = balance + 1 /\ balance' \in 0..MaxCommits
        BY <1>2, CacheAssumption DEF Commit, CacheInv, TypeOK
  <2>2. TypeOK'
        BY <1>2, <2>1 DEF Commit, CacheInv, TypeOK
  <2>3. cache' # NoEntry => cache' <= balance'
        BY <1>2, <2>1 DEF Commit, CacheInv, TypeOK, Behind
  <2>4. ASSUME NEW g \in Handlers
        PROVE  seen'[g] <= balance' /\ answer'[g] <= balance'
    <3>1. seen[g] <= balance /\ answer[g] <= balance
          BY DEF CacheInv, Behind
    <3>2. seen[g] \in Nat /\ answer[g] \in Nat
          BY CacheAssumption DEF CacheInv, TypeOK
    <3>3. seen'[g] \in {seen[g], balance + 1} /\ answer'[g] = answer[g]
          BY <1>2 DEF Commit, CacheInv, TypeOK
    <3>4. QED  BY <2>1, <3>1, <3>2, <3>3
  <2>5. QED  BY <2>2, <2>3, <2>4 DEF CacheInv, Behind
<1>3. ASSUME NEW h \in Handlers,
             Refuse(h) \/ Touch(h) \/ Respond(h) \/ Crash(h)
      PROVE  CacheInv'
      BY <1>3, DoneInv DEF Refuse, Touch, Respond, Crash, Stored
<1>4. ASSUME NEW h \in Handlers, ReadRow(h) PROVE CacheInv'
      BY <1>4 DEF ReadRow, CacheInv, TypeOK, Behind
<1>5. ASSUME NEW h \in Handlers, Hit(h) PROVE CacheInv'
      BY <1>5 DEF Hit, CacheInv, TypeOK, Behind
<1>6. ASSUME NEW h \in Handlers, Miss(h) PROVE CacheInv'
      BY <1>6 DEF Miss, CacheInv, TypeOK, Behind
<1>7. ASSUME NEW h \in Handlers, Prime(h) PROVE CacheInv'
  <2>1. cache' \in {cache, seen[h]}
        BY <1>7 DEF Prime, Stored
  <2>2. QED  BY <1>7, <2>1 DEF Prime, CacheInv, TypeOK, Behind
<1>8. CASE Expire
      BY <1>8 DEF Expire, CacheInv, TypeOK, Behind
<1>9. CASE Outage
      BY <1>9 DEF Outage, CacheInv, TypeOK, Behind
<1>10. CASE UNCHANGED vars
      BY <1>10 DEF vars, CacheInv, TypeOK, Behind
<1>11. QED
      BY <1>1, <1>2, <1>3, <1>4, <1>5, <1>6, <1>7, <1>8, <1>9, <1>10
         DEF Next, Step

LEMMA CacheInvariant == Spec => []CacheInv
    BY CacheInvInit, CacheInvNext, PTL DEF Spec

\* The row, the copy and the handlers' memory are balances in every reachable
\* state.
THEOREM CacheTypeCorrect == Spec => []TypeOK
<1>1. CacheInv => TypeOK
      BY DEF CacheInv
<1>2. QED  BY <1>1, CacheInvariant, PTL

\* No reader is given, and Redis never keeps, a balance that was not committed,
\* whatever movements, reads, expiries, outages and crashes interleave.
THEOREM CopiesAreCommitted == Spec => []OnlyCommitted
<1>1. CacheInv => OnlyCommitted
      BY DEF CacheInv, Behind, OnlyCommitted
<1>2. QED  BY <1>1, CacheInvariant, PTL
====
