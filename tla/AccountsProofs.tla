---- MODULE AccountsProofs ----
(****************************************************************************)
(* Proofs about Accounts and Pagination, for any number of processes, users *)
(* and requests, and for every page limit.                                  *)
(****************************************************************************)
EXTENDS Accounts, InductionProofs, FiniteSetTheorems, TLAPS

\* A process that handles a request found its user, and a user that was there
\* once stays, at least as a deleted row.
Control ==
    \A s \in Processes :
        /\ pc[s] \in {"save", "delete", "wallet"} =>
             req[s].user \in Users /\ users[req[s].user] # NoUser
        /\ pc[s] = "save" => req[s].profile \in Profiles

\* The seeding comes first: without the system user there is no user at all,
\* hence no conflict that could keep its row out, and whoever could delete it
\* or give it a wallet of its own finds the system wallet in place.
SeedInv ==
    /\ SystemWalletReady
    /\ \A s \in Processes :
         pc[s] = "seed_wallet" => users[SystemUser] # NoUser
    /\ Existing # {} => users[SystemUser] # NoUser
    /\ users[SystemUser].deleted => wallets[SystemUser] = "system"

AccountsInv == TypeOK /\ Control /\ SeedInv

----
\* Type correctness and seeding.

\* What Create stores is well typed.
LEMMA StoredType ==
    ASSUME NEW p \in Creations
    PROVE  [profile |-> Stored(p), deleted |-> FALSE] \in Rows
<1>1. CASE p \in Profiles
  <2>1. Stored(p) = p
        BY <1>1, AccountsAssumption DEF Stored
  <2>2. QED  BY <1>1, <2>1 DEF Rows
<1>2. CASE p \notin Profiles
  <2>1. PICK q \in Profiles : p = [q EXCEPT !.status = ""]
        BY <1>2 DEF Creations
  <2>2. q \in [email: STRING, ref: STRING, status: {"active", "inactive"}]
        BY AccountsAssumption
  <2>3. Stored(p) = [q EXCEPT !.status = "active"]
        BY <2>1, <2>2 DEF Stored
  <2>4. QED  BY <2>3 DEF Rows
<1>3. QED  BY <1>1, <1>2

\* A row that is there is not the missing one.
LEMMA RowIsUser == \A row \in Rows : row # NoUser
<1> SUFFICES ASSUME NEW row \in Rows PROVE row # NoUser
    OBVIOUS
<1>1. row.profile.status \in {"active", "inactive"}
  <2>1. row.profile \in [email: STRING, ref: STRING, status: {"active", "inactive"}]
        BY AccountsAssumption DEF Rows
  <2>2. QED  BY <2>1
<1>2. NoUser.profile.status = ""
      BY DEF NoUser, NoProfile
<1>3. QED  BY <1>1, <1>2

LEMMA AccountsInvInit == Init => AccountsInv
<1> SUFFICES ASSUME Init PROVE AccountsInv
    OBVIOUS
<1>1. TypeOK
      BY DEF Init, TypeOK
<1>2. Control
      BY DEF Init, Control
<1>3. SeedInv
      BY AccountsAssumption
         DEF Init, SeedInv, SystemWalletReady, Existing, NoUser
<1>4. QED  BY <1>1, <1>2, <1>3 DEF AccountsInv

\* Rows are never taken back, so what is known of a request stays true; what
\* is left to show of a step is the request of the process that takes it.
LEMMA ControlStep ==
    ASSUME AccountsInv, NEW s \in Processes,
           \A u \in Users : users[u] # NoUser => users'[u] # NoUser,
           \A t \in Processes \ {s} : pc'[t] = pc[t] /\ req'[t] = req[t],
           \/ pc'[s] \notin {"save", "delete", "wallet"}
           \/ /\ req'[s].user \in Users /\ users[req'[s].user] # NoUser
              /\ pc'[s] = "save" => req'[s].profile \in Profiles
    PROVE  Control'
    BY DEF AccountsInv, Control

\* The same for a step that leaves rows and wallets alone.
LEMMA SeedStep ==
    ASSUME AccountsInv, NEW s \in Processes, UNCHANGED <<users, wallets>>,
           \A t \in Processes \ {s} : pc'[t] = pc[t],
           \/ pc'[s] \in {"down", "seed_user"}
           \/ pc[s] \notin {"down", "seed_user", "seed_wallet"}
              /\ pc'[s] # "seed_wallet"
    PROVE  SeedInv'
    BY DEF AccountsInv, SeedInv, SystemWalletReady, Existing

LEMMA AccountsInvNext == AccountsInv /\ [Next]_vars => AccountsInv'
<1> SUFFICES ASSUME AccountsInv, [Next]_vars PROVE AccountsInv'
    OBVIOUS
<1> USE DEF AccountsInv
<1>1. ASSUME NEW s \in Processes, StartUp(s) \/ Crash(s) PROVE AccountsInv'
  <2>1. TypeOK'
        BY <1>1 DEF StartUp, Crash, TypeOK
  <2>2. Control'
        BY <1>1, ControlStep DEF StartUp, Crash, TypeOK
  <2>3. SeedInv'
        BY <1>1, SeedStep DEF StartUp, Crash, TypeOK
  <2>4. QED  BY <2>1, <2>2, <2>3
<1>2. ASSUME NEW s \in Processes, SeedUser(s) PROVE AccountsInv'
  <2>1. SystemUser \in Users /\ SystemRow \in Rows /\ SystemRow # NoUser
        BY AccountsAssumption, RowIsUser DEF SystemRow, Rows
  <2>2. TypeOK'
        BY <1>2, <2>1 DEF SeedUser, TypeOK
  <2>3. \A u \in Users : users[u] # NoUser => users'[u] # NoUser
        BY <1>2, <2>1 DEF SeedUser, TypeOK
  <2>4. Control'
        BY <1>2, <2>3, ControlStep DEF SeedUser, TypeOK
  <2>5. users'[SystemUser] # NoUser
        BY <1>2, <2>1 DEF SeedUser, SeedInv, Clashes, TypeOK
  <2>6. users'[SystemUser].deleted => users[SystemUser].deleted
        BY <1>2, <2>1 DEF SeedUser, SystemRow, TypeOK
  <2>7. \A t \in Processes : pc'[t] = pc[t] \/ pc'[t] = "seed_wallet"
        BY <1>2 DEF SeedUser, TypeOK
  <2>8. wallets' = wallets
        BY <1>2 DEF SeedUser
  <2>9. SeedInv'
        BY <2>5, <2>6, <2>7, <2>8 DEF SeedInv, SystemWalletReady
  <2>10. QED  BY <2>2, <2>4, <2>9
<1>3. ASSUME NEW s \in Processes, SeedWallet(s) PROVE AccountsInv'
  <2>1. TypeOK'
        BY <1>3 DEF SeedWallet, TypeOK
  <2>2. Control'
        BY <1>3, ControlStep DEF SeedWallet, TypeOK
  <2>3. users[SystemUser] # NoUser
        BY <1>3 DEF SeedWallet, SeedInv
  <2>4. wallets'[SystemUser] = "system"
        BY <1>3, AccountsAssumption
           DEF SeedWallet, SeedInv, SystemWalletReady, TypeOK
  <2>5. users' = users
        BY <1>3 DEF SeedWallet
  <2>6. SeedInv'
        BY <2>3, <2>4, <2>5 DEF SeedInv, SystemWalletReady, Existing
  <2>7. QED  BY <2>1, <2>2, <2>6
<1>4. ASSUME NEW s \in Processes, NEW u \in Users, NEW p \in Creations,
             CreateUser(s, u, p)
      PROVE  AccountsInv'
  <2> DEFINE row == [profile |-> Stored(p), deleted |-> FALSE]
  <2>1. row \in Rows /\ row # NoUser
        BY StoredType, RowIsUser
  <2>2. /\ users' = [users EXCEPT ![u] = row]
        /\ u # SystemUser
        /\ UNCHANGED <<wallets, pc, req, walk>>
        BY <1>4 DEF CreateUser
  <2>3. TypeOK'
        BY <2>1, <2>2 DEF TypeOK
  <2>4. Control'
        BY <2>1, <2>2 DEF TypeOK, Control
  <2>5. users[SystemUser] # NoUser /\ users'[SystemUser] = users[SystemUser]
        BY <1>4, <2>2, AccountsAssumption
           DEF CreateUser, SeedInv, SystemWalletReady, TypeOK
  <2>6. SeedInv'
        BY <2>2, <2>5 DEF SeedInv, SystemWalletReady
  <2>7. QED  BY <2>3, <2>4, <2>6
<1>5. ASSUME NEW s \in Processes, NEW u \in Users, NEW p \in Profiles,
             ReadUser(s, u, p)
      PROVE  AccountsInv'
  <2>1. TypeOK'
        BY <1>5 DEF ReadUser, Take, TypeOK
  <2>2. Control'
        BY <1>5, ControlStep DEF ReadUser, Take, Alive, TypeOK
  <2>3. SeedInv'
        BY <1>5, SeedStep DEF ReadUser, Take, TypeOK
  <2>4. QED  BY <2>1, <2>2, <2>3
<1>6. ASSUME NEW s \in Processes, NEW u \in Users,
             ReadForDelete(s, u) \/ ReadOwner(s, u)
      PROVE  AccountsInv'
  <2>1. TypeOK'
        BY <1>6 DEF ReadForDelete, ReadOwner, Take, TypeOK
  <2>2. Control'
        BY <1>6, ControlStep DEF ReadForDelete, ReadOwner, Take, Alive, TypeOK
  <2>3. SeedInv'
        BY <1>6, SeedStep DEF ReadForDelete, ReadOwner, Take, TypeOK
  <2>4. QED  BY <2>1, <2>2, <2>3
<1>7. ASSUME NEW s \in Processes, SaveUser(s) PROVE AccountsInv'
  <2> DEFINE u == req[s].user
             row == [profile |-> req[s].profile, deleted |-> FALSE]
  <2>1. u \in Users /\ row \in Rows /\ row # NoUser
        BY <1>7, RowIsUser DEF SaveUser, Control, Rows
  <2>2. /\ users' \in {users, [users EXCEPT ![u] = row]}
        /\ UNCHANGED <<wallets, walk>>
        /\ pc' = [pc EXCEPT ![s] = "idle"]
        /\ req' = [req EXCEPT ![s] = NoRequest]
        BY <1>7 DEF SaveUser, SavedProfile, Finish
  <2>3. TypeOK'
        BY <2>1, <2>2 DEF TypeOK
  <2>4. \A v \in Users : users[v] # NoUser => users'[v] # NoUser
        BY <2>1, <2>2 DEF TypeOK
  <2>5. Control'
        BY <2>2, <2>4, ControlStep DEF TypeOK
  <2>6. users[SystemUser] # NoUser /\ wallets[SystemUser] = "system"
        BY <1>7 DEF SaveUser, SeedInv, SystemWalletReady
  <2>7. SeedInv'
        BY <2>2, <2>4, <2>6, AccountsAssumption
           DEF SeedInv, SystemWalletReady
  <2>8. QED  BY <2>3, <2>5, <2>7
<1>8. ASSUME NEW s \in Processes, MarkDeleted(s) PROVE AccountsInv'
  <2> DEFINE u == req[s].user
             row == [users[u] EXCEPT !.deleted = TRUE]
  <2>1. u \in Users /\ users[u] \in Rows
        BY <1>8 DEF MarkDeleted, Control, TypeOK
  <2>2. row \in Rows /\ row # NoUser
        BY <2>1, RowIsUser DEF Rows
  <2>3. /\ users' = [users EXCEPT ![u] = row]
        /\ UNCHANGED wallets
        /\ walk' = [walk EXCEPT !.owed = {}]
        /\ pc' = [pc EXCEPT ![s] = "idle"]
        /\ req' = [req EXCEPT ![s] = NoRequest]
        BY <1>8 DEF MarkDeleted, Finish
  <2>4. TypeOK'
        BY <2>1, <2>2, <2>3 DEF TypeOK
  <2>5. \A v \in Users : users[v] # NoUser => users'[v] # NoUser
        BY <2>1, <2>2, <2>3 DEF TypeOK
  <2>6. Control'
        BY <2>3, <2>5, ControlStep DEF TypeOK
  <2>7. users[SystemUser] # NoUser /\ wallets[SystemUser] = "system"
        BY <1>8 DEF MarkDeleted, SeedInv, SystemWalletReady
  <2>8. SeedInv'
        BY <2>3, <2>5, <2>7, AccountsAssumption
           DEF SeedInv, SystemWalletReady
  <2>9. QED  BY <2>4, <2>6, <2>8
<1>9. ASSUME NEW s \in Processes, InsertWallet(s) PROVE AccountsInv'
  <2> DEFINE u == req[s].user
  <2>1. /\ u \in Users
        /\ users[SystemUser] # NoUser /\ wallets[SystemUser] = "system"
        BY <1>9 DEF InsertWallet, Control, SeedInv, SystemWalletReady
  <2>2. /\ wallets' = IF wallets[u] = "none" THEN [wallets EXCEPT ![u] = "own"]
                      ELSE wallets
        /\ pc' = [pc EXCEPT ![s] = "idle"]
        /\ req' = [req EXCEPT ![s] = NoRequest]
        /\ UNCHANGED <<users, walk>>
        BY <1>9 DEF InsertWallet, Finish
  <2>3. TypeOK'
        BY <2>1, <2>2 DEF TypeOK
  <2>4. Control'
        BY <2>2, ControlStep DEF TypeOK
  <2>5. wallets'[SystemUser] = "system"
        BY <2>1, <2>2, AccountsAssumption DEF TypeOK
  <2>6. SeedInv'
        BY <2>1, <2>2, <2>5 DEF SeedInv, SystemWalletReady, Existing
  <2>7. QED  BY <2>3, <2>4, <2>6
<1>10. ASSUME NEW s \in Processes, Abort(s) PROVE AccountsInv'
  <2>1. TypeOK'
        BY <1>10 DEF Abort, Finish, TypeOK
  <2>2. Control'
        BY <1>10, ControlStep DEF Abort, Finish, TypeOK
  <2>3. SeedInv'
        BY <1>10, SeedStep DEF Abort, Finish, TypeOK
  <2>4. QED  BY <2>1, <2>2, <2>3
<1>11. ASSUME NEW s \in Processes, ListPage(s) PROVE AccountsInv'
  <2>1. UNCHANGED <<users, wallets, pc, req>>
        BY <1>11 DEF ListPage
  <2>2. walk' \in [page: Nat, limit: Limits \cup {0}, owed: SUBSET Users]
    <3> DEFINE items == Listed(Current, walk.page, walk.limit)
    <3>1. walk' = [walk EXCEPT !.page = IF items = {} THEN 0 ELSE @ + 1,
                               !.owed = @ \ items]
          BY <1>11 DEF ListPage
    <3>2. walk \in [page: Nat, limit: Limits \cup {0}, owed: SUBSET Users]
          BY DEF TypeOK
    <3>3. (IF items = {} THEN 0 ELSE walk.page + 1) \in Nat
          BY <3>2
    <3> HIDE DEF items
    <3>4. QED  BY <3>1, <3>2, <3>3
  <2>3. TypeOK' /\ Control' /\ SeedInv'
        BY <2>1, <2>2
           DEF TypeOK, Control, SeedInv, SystemWalletReady, Existing
  <2>4. QED  BY <2>3
<1>12. ASSUME NEW limit \in Limits, StartWalk(limit) PROVE AccountsInv'
  <2>1. UNCHANGED <<users, wallets, pc, req>>
        BY <1>12 DEF StartWalk
  <2>2. walk' \in [page: Nat, limit: Limits \cup {0}, owed: SUBSET Users]
        BY <1>12 DEF StartWalk, Current
  <2>3. TypeOK' /\ Control' /\ SeedInv'
        BY <2>1, <2>2
           DEF TypeOK, Control, SeedInv, SystemWalletReady, Existing
  <2>4. QED  BY <2>3
<1>13. CASE UNCHANGED vars
      BY <1>13 DEF vars, TypeOK, Control, SeedInv, SystemWalletReady, Existing
<1>14. QED
      BY <1>1, <1>2, <1>3, <1>4, <1>5, <1>6, <1>7, <1>8, <1>9, <1>10, <1>11,
         <1>12, <1>13 DEF Next

LEMMA AccountsInvariant == Spec => []AccountsInv
    BY AccountsInvInit, AccountsInvNext, PTL DEF Spec

\* Rows, requests and the walk are well typed in every reachable state: a row
\* is always the contents of one request as a whole.
THEOREM AccountsTypeCorrect == Spec => []TypeOK
<1>1. AccountsInv => TypeOK
      BY DEF AccountsInv
<1>2. QED  BY <1>1, AccountsInvariant, PTL

\* Whoever serves requests finds the settlement wallet, for any number of
\* processes that start, seed, serve and crash in any order.
THEOREM SystemWalletIsReady == Spec => []SystemWalletReady
<1>1. AccountsInv => SystemWalletReady
      BY DEF AccountsInv, SeedInv
<1>2. QED  BY <1>1, AccountsInvariant, PTL

----
\* Deletions.

\* A settled user stays as it is when its row and its wallet are left alone
\* and no process starts to save it or to give it a wallet.
LEMMA SettledStep ==
    ASSUME NEW u \in Users, Settled(u),
           users'[u] # NoUser, users'[u].deleted, wallets'[u] = wallets[u],
           \A s \in Processes :
               \/ pc'[s] \notin {"save", "wallet"}
               \/ pc'[s] = pc[s] /\ req'[s] = req[s]
               \/ req'[s].user # u
    PROVE  Settled(u)' /\ wallets'[u] = wallets[u]
    BY DEF Settled

LEMMA SettledNext ==
    ASSUME AccountsInv, [Next]_vars, NEW u \in Users, Settled(u)
    PROVE  Settled(u)' /\ wallets'[u] = wallets[u]
<1> USE DEF AccountsInv
<1>0. users[u] # NoUser /\ users[u].deleted
      BY DEF Settled
<1>1. ASSUME NEW s \in Processes,
             \/ StartUp(s) \/ Crash(s) \/ Abort(s) \/ ListPage(s)
             \/ \E v \in Users : ReadForDelete(s, v)
      PROVE  Settled(u)' /\ wallets'[u] = wallets[u]
  <2>1. UNCHANGED <<users, wallets>>
        BY <1>1 DEF StartUp, Crash, Abort, ListPage, ReadForDelete
  <2>2. ASSUME NEW t \in Processes, pc'[t] \in {"save", "wallet"}
        PROVE  pc'[t] = pc[t] /\ req'[t] = req[t]
        BY <1>1, <2>2 DEF StartUp, Crash, Abort, ListPage, ReadForDelete,
                          Take, Finish, TypeOK
  <2>3. QED  BY <1>0, <2>1, <2>2, SettledStep
<1>2. ASSUME NEW s \in Processes, SeedUser(s)
      PROVE  Settled(u)' /\ wallets'[u] = wallets[u]
  <2>1. users'[u] = users[u]
        BY <1>0, <1>2 DEF SeedUser, TypeOK
  <2>2. QED  BY <1>0, <1>2, <2>1, SettledStep DEF SeedUser, TypeOK
<1>3. ASSUME NEW s \in Processes, SeedWallet(s)
      PROVE  Settled(u)' /\ wallets'[u] = wallets[u]
  <2>1. u = SystemUser => wallets[SystemUser] = "system"
        BY <1>0 DEF SeedInv
  <2>2. wallets'[u] = wallets[u]
        BY <1>3, <2>1 DEF SeedWallet, TypeOK
  <2>3. QED  BY <1>0, <1>3, <2>2, SettledStep DEF SeedWallet, TypeOK
<1>4. ASSUME NEW s \in Processes, NEW v \in Users, NEW p \in Creations,
             CreateUser(s, v, p)
      PROVE  Settled(u)' /\ wallets'[u] = wallets[u]
      BY <1>0, <1>4, SettledStep DEF CreateUser, TypeOK
<1>5. ASSUME NEW s \in Processes, NEW v \in Users,
             (\E p \in Profiles : ReadUser(s, v, p)) \/ ReadOwner(s, v)
      PROVE  Settled(u)' /\ wallets'[u] = wallets[u]
  <2>1. v # u
        BY <1>0, <1>5 DEF ReadUser, ReadOwner, Alive
  <2>2. UNCHANGED <<users, wallets>>
        BY <1>5 DEF ReadUser, ReadOwner
  <2>3. \A t \in Processes :
            (pc'[t] = pc[t] /\ req'[t] = req[t]) \/ req'[t].user # u
        BY <1>5, <2>1 DEF ReadUser, ReadOwner, Take, TypeOK
  <2>4. QED  BY <1>0, <2>2, <2>3, SettledStep
<1>6. ASSUME NEW s \in Processes, SaveUser(s)
      PROVE  Settled(u)' /\ wallets'[u] = wallets[u]
  <2>1. req[s].user # u
        BY <1>6 DEF SaveUser, Settled
  <2>2. users'[u] = users[u] /\ wallets' = wallets
        BY <1>6, <2>1 DEF SaveUser, TypeOK
  <2>3. QED  BY <1>0, <1>6, <2>2, SettledStep DEF SaveUser, Finish, TypeOK
<1>7. ASSUME NEW s \in Processes, MarkDeleted(s)
      PROVE  Settled(u)' /\ wallets'[u] = wallets[u]
  <2>1. users[u] \in Rows
        BY <1>0 DEF TypeOK
  <2>2. users'[u] \in {users[u], [users[u] EXCEPT !.deleted = TRUE]}
        BY <1>7 DEF MarkDeleted, TypeOK
  <2>3. users'[u] \in Rows /\ users'[u].deleted
        BY <1>0, <2>1, <2>2 DEF Rows
  <2>4. users'[u] # NoUser
        BY <2>3, RowIsUser
  <2>5. QED  BY <1>7, <2>3, <2>4, SettledStep
                DEF MarkDeleted, Finish, TypeOK
<1>8. ASSUME NEW s \in Processes, InsertWallet(s)
      PROVE  Settled(u)' /\ wallets'[u] = wallets[u]
  <2>1. req[s].user # u
        BY <1>8 DEF InsertWallet, Settled
  <2>2. wallets'[u] = wallets[u]
        BY <1>8, <2>1 DEF InsertWallet, TypeOK
  <2>3. QED  BY <1>0, <1>8, <2>2, SettledStep DEF InsertWallet, Finish, TypeOK
<1>9. ASSUME NEW limit \in Limits, StartWalk(limit)
      PROVE  Settled(u)' /\ wallets'[u] = wallets[u]
      BY <1>0, <1>9, SettledStep DEF StartWalk
<1>10. CASE UNCHANGED vars
      BY <1>0, <1>10, SettledStep DEF vars
<1>11. QED
      BY <1>1, <1>2, <1>3, <1>4, <1>5, <1>6, <1>7, <1>8, <1>9, <1>10 DEF Next

\* A deletion that no request overtakes any more is final, whatever other
\* processes start, seed, create, update and delete.
THEOREM DeletionsAreFinal == Spec => DeletionSettles
<1> DEFINE Kept == \A u \in Users :
                       Settled(u) => Settled(u)' /\ wallets'[u] = wallets[u]
<1>1. AccountsInv /\ [Next]_vars => Kept
      BY SettledNext
<1>2. Spec => [][Kept]_vars
      BY <1>1, AccountsInvariant, PTL DEF Spec
<1>3. QED  BY <1>2 DEF DeletionSettles

----
\* Pages. A row's place in the list, counted from 1, newest first.

Rank(rows, r) == Cardinality({s \in rows : s >= r})

\* The newest row has place 1, and no place is beyond the number of rows.
LEMMA RankType ==
    ASSUME NEW rows, rows \subseteq Nat, IsFiniteSet(rows), NEW r \in rows
    PROVE  /\ Rank(rows, r) \in Nat \ {0}
           /\ Rank(rows, r) <= Cardinality(rows)
<1> DEFINE above == {s \in rows : s >= r}
<1>1. above \subseteq rows /\ r \in above
      OBVIOUS
<1>2. IsFiniteSet(above) /\ Cardinality(above) <= Cardinality(rows)
      BY <1>1, FS_Subset
<1>3. Cardinality(above) \in Nat /\ Cardinality(above) # 0
      BY <1>1, <1>2, FS_CardinalityType, FS_EmptySet
<1>4. QED  BY <1>2, <1>3 DEF Rank

\* New rows move the others down, never up.
LEMMA RankGrows ==
    ASSUME NEW more, IsFiniteSet(more), NEW rows, rows \subseteq more, NEW r
    PROVE  Rank(rows, r) <= Rank(more, r)
<1> DEFINE above(set) == {s \in set : s >= r}
<1>1. above(rows) \subseteq above(more) /\ IsFiniteSet(above(more))
      BY FS_Subset
<1>2. QED  BY <1>1, FS_Subset DEF Rank

\* Places are taken without a gap: below a row that comes after place k there
\* is one at place k + 1.
LEMMA NextRank ==
    ASSUME NEW rows, rows \subseteq Nat, IsFiniteSet(rows), NEW k \in Nat,
           NEW r \in rows, Rank(rows, r) > k
    PROVE  \E v \in rows : Rank(rows, v) = k + 1
<1> DEFINE later == {n \in Nat : \E v \in rows : Rank(rows, v) = n /\ n > k}
<1>1. later \subseteq Nat /\ Rank(rows, r) \in later
      BY RankType
<1>2. PICK n \in later : \A m \in later : n <= m
      BY <1>1, LeastNatural
<1>3. PICK v \in rows : Rank(rows, v) = n /\ n > k
      OBVIOUS
<1> DEFINE above == {s \in rows : s >= v}
           newer == {s \in rows : s > v}
<1>4. newer = above \ {v} /\ v \in above /\ above \subseteq rows
  <2>1. \A s \in rows : s > v <=> s >= v /\ s # v
        OBVIOUS
  <2>2. v >= v
        OBVIOUS
  <2>3. QED  BY <2>1, <2>2
<1>5. IsFiniteSet(above) /\ IsFiniteSet(newer) /\ Cardinality(newer) = n - 1
  <2>1. IsFiniteSet(above)
        BY <1>4, FS_Subset
  <2>2. Cardinality(above) = n
        BY <1>3 DEF Rank
  <2>3. QED  BY ONLY <1>4, <2>1, <2>2, FS_RemoveElement
<1>6. CASE n = k + 1
      BY <1>3, <1>6
<1>7. CASE n # k + 1
  <2>1. n \in Nat /\ n - 1 > k /\ n - 1 \in Nat
        BY <1>3, <1>7
  <2>2. newer # {} /\ newer \subseteq Nat
    <3>1. Cardinality(newer) # 0
          BY ONLY <1>5, <2>1, k \in Nat
    <3>2. QED  BY <3>1, FS_EmptySet
  <2>3. PICK s \in newer : \A t \in newer : s <= t
        BY <2>2, LeastNatural
  <2>4. {t \in rows : t >= s} = newer
    <3>1. s > v /\ s \in Nat /\ v \in Nat
          OBVIOUS
    <3>2. \A t \in rows : t >= s => t > v
          BY <3>1
    <3>3. \A t \in newer : t \in Nat /\ t >= s
          BY <2>3, <3>1
    <3>4. 0 \in Int
          OBVIOUS
    <3>5. QED  BY ONLY <3>2, <3>3, <3>4, Zenon
  <2>5. s \in rows /\ Rank(rows, s) = n - 1
        BY <1>5, <2>4 DEF Rank
  <2>6. n - 1 \in later
        BY <2>1, <2>5
  <2>7. n <= n - 1
        BY <1>2, <2>6
  <2>8. QED  BY <2>1, <2>7
<1>8. QED  BY <1>6, <1>7

LEMMA NormalLimitType ==
    ASSUME NEW limit \in Int
    PROVE  NormalLimit(limit) \in Nat \ {0} /\ NormalLimit(limit) <= MaxLimit
    BY PaginationAssumption DEF NormalLimit

\* The offset of a page is not wrapped around before int is exhausted.
LEMMA OffsetExact ==
    ASSUME NEW page \in Nat \ {0}, NEW limit \in Nat \ {0},
           (page - 1) * limit <= MaxInt
    PROVE  Offset(page, limit) = (page - 1) * limit
<1> DEFINE n == (page - 1) * limit
           width == 2 * (MaxInt + 1)
<1>1. n \in Nat /\ MaxInt \in Nat
      BY PaginationAssumption
<1> HIDE DEF n
<1>2. n + MaxInt + 1 \in 0..(width - 1)
      BY <1>1 DEF n
<1>3. width \in Nat \ {0}
      BY <1>1
<1> HIDE DEF width
<1>4. \A m \in 0..(width - 1) : m % width = m
      BY <1>3
<1>5. (n + MaxInt + 1) % width = n + MaxInt + 1
      BY <1>2, <1>4
<1>6. WrapInt(n) = n
      BY <1>1, <1>5 DEF WrapInt, width
<1>7. QED  BY <1>6 DEF Offset, n

\* A page holds the rows at its places: the page before it holds the limit
\* places above, the page after it those below.
LEMMA PagePlaces ==
    ASSUME NEW rows, rows \subseteq Nat, IsFiniteSet(rows),
           NEW page \in Nat \ {0}, NEW limit \in Int,
           NEW size \in Nat, NEW skipped \in Nat,
           size = NormalLimit(limit), skipped = (page - 1) * size,
           skipped <= MaxInt, NEW r \in rows
    PROVE  r \in Listed(rows, page, limit) <=>
             skipped < Rank(rows, r) /\ Rank(rows, r) <= skipped + size
<1>1. size \in Nat \ {0} /\ NormalPage(page) = page
      BY NormalLimitType DEF NormalPage
<1>2. Offset(page, size) = skipped
      BY <1>1, OffsetExact
<1>3. Listed(rows, page, limit) =
        {s \in rows : Rank(rows, s) \in (skipped + 1)..(skipped + size)}
  <2>1. Listed(rows, page, limit) = OnPage(rows, page, size)
        BY <1>1 DEF Listed
  <2>2. (IF skipped > 0 THEN skipped ELSE 0) = skipped
        BY ONLY skipped \in Nat
  <2>3. QED  BY ONLY <1>2, <2>1, <2>2 DEF OnPage, Rank
<1>4. Rank(rows, r) \in Nat
      BY RankType
<1>5. Rank(rows, r) \in (skipped + 1)..(skipped + size)
        <=> skipped < Rank(rows, r) /\ Rank(rows, r) <= skipped + size
      BY ONLY size \in Nat, skipped \in Nat, <1>4
<1>6. QED  BY ONLY <1>3, <1>5, r \in rows

----
\* Two promises of the listings, whoever asks and whatever for.

LEMMA Products ==
    ASSUME NEW a \in Nat, NEW b \in Nat, NEW s \in Nat \ {0}
    PROVE  /\ a * s \in Nat
           /\ a <= a * s
           /\ (a + 1) * s = a * s + s
           /\ a <= b => a * s <= b * s
<1>1. a * s \in Nat /\ b * s \in Nat /\ (a + 1) * s = a * s + s
      OBVIOUS
<1>2. a <= a * s
      OBVIOUS
<1>3. a <= b => a * s <= b * s
      OBVIOUS
<1>4. QED  BY <1>1, <1>2, <1>3

\* Different rows have different places.
LEMMA RankInjective ==
    ASSUME NEW rows, rows \subseteq Nat, IsFiniteSet(rows),
           NEW r \in rows, NEW t \in rows, r < t
    PROVE  Rank(rows, t) < Rank(rows, r)
<1> DEFINE above == {s \in rows : s >= r}
           below == {s \in rows : s >= t}
<1>1. below \subseteq above /\ above \subseteq rows
  <2>1. ASSUME NEW s \in rows, s >= t PROVE s >= r
    <3>1. s \in Nat /\ t \in Nat /\ r \in Nat
          OBVIOUS
    <3>2. QED  BY ONLY <2>1, <3>1, r < t
  <2>2. QED  BY <2>1
<1>2. r \in above /\ r \notin below
      OBVIOUS
<1>3. IsFiniteSet(above) /\ IsFiniteSet(below)
      BY <1>1, FS_Subset
<1>4. /\ Cardinality(below) <= Cardinality(above)
      /\ Cardinality(below) # Cardinality(above)
      BY <1>1, <1>2, <1>3, FS_Subset
<1>5. Cardinality(below) \in Nat /\ Cardinality(above) \in Nat
      BY <1>3, FS_CardinalityType
<1> HIDE DEF above, below
<1>6. Cardinality(below) < Cardinality(above)
      BY ONLY <1>4, <1>5
<1>7. QED  BY <1>6 DEF Rank, above, below

\* No page holds more rows than the limit asked for, or than MAX_PAGE_LIMIT,
\* even where the offset has wrapped around (NormalizePagination, List).
THEOREM PagesAreShort ==
    ASSUME NEW rows, rows \subseteq Nat, IsFiniteSet(rows),
           NEW page \in Int, NEW limit \in Int
    PROVE  /\ Cardinality(Listed(rows, page, limit)) <= NormalLimit(limit)
           /\ Cardinality(Listed(rows, page, limit)) <= MaxLimit
<1>1. PICK size, skipped, items :
          /\ size = NormalLimit(limit)
          /\ items = Listed(rows, page, limit)
          /\ skipped = LET offset == Offset(NormalPage(page), size)
                       IN IF offset > 0 THEN offset ELSE 0
      OBVIOUS
<1>2. size \in Nat \ {0} /\ size <= MaxLimit /\ MaxLimit \in Nat
      BY <1>1, NormalLimitType, PaginationAssumption
<1>3. skipped \in Nat
  <2>1. NormalPage(page) \in Int
        BY DEF NormalPage
  <2>2. (NormalPage(page) - 1) * size \in Int
        BY <1>2, <2>1
  <2>3. MaxInt \in Nat
        BY PaginationAssumption
  <2>4. Offset(NormalPage(page), size) \in Int
        BY <2>2, <2>3 DEF Offset, WrapInt
  <2>5. QED  BY <1>1, <2>4
<1>4. items = {r \in rows : Rank(rows, r) \in (skipped + 1)..(skipped + size)}
      BY <1>1 DEF Listed, OnPage, Rank
<1> DEFINE places == (skipped + 1)..(skipped + size)
           place == [r \in items |-> Rank(rows, r)]
<1>5. IsFiniteSet(places) /\ Cardinality(places) = size
  <2>1. skipped + 1 \in Int /\ skipped + size \in Int
        BY <1>2, <1>3
  <2>2. /\ IsFiniteSet(places)
        /\ Cardinality(places) =
             IF skipped + 1 > skipped + size THEN 0
             ELSE (skipped + size) - (skipped + 1) + 1
        BY <2>1, FS_Interval
  <2>3. QED  BY <1>2, <1>3, <2>2
<1>6. place \in Injection(items, places)
  <2>1. place \in [items -> places]
        BY <1>4
  <2>2. ASSUME NEW r \in items, NEW t \in items, r # t
        PROVE  place[r] # place[t]
    <3>1. r \in rows /\ t \in rows /\ r \in Nat /\ t \in Nat
          BY <1>4
    <3>2. Rank(rows, r) \in Nat /\ Rank(rows, t) \in Nat
          BY <3>1, RankType
    <3>3. r < t \/ t < r
          BY <2>2, <3>1
    <3>4. Rank(rows, r) # Rank(rows, t)
      <4>1. CASE r < t
        <5>1. Rank(rows, t) < Rank(rows, r)
              BY <3>1, <4>1, RankInjective
        <5>2. QED  BY ONLY <3>2, <5>1
      <4>2. CASE t < r
        <5>1. Rank(rows, r) < Rank(rows, t)
              BY <3>1, <4>2, RankInjective
        <5>2. QED  BY ONLY <3>2, <5>1
      <4>3. QED  BY <3>3, <4>1, <4>2
    <3>5. QED  BY <3>4
  <2>3. QED  BY <2>1, <2>2 DEF Injection, IsInjective
<1> HIDE DEF places, place
<1>7. IsFiniteSet(items) /\ Cardinality(items) <= size
      BY <1>5, <1>6, FS_Injection
<1>8. Cardinality(items) \in Nat
      BY <1>7, FS_CardinalityType
<1>9. Cardinality(items) <= MaxLimit
      BY ONLY <1>2, <1>7, <1>8
<1>10. QED  BY <1>1, <1>7, <1>9

\* The pages of a table that does not change share it out: every row is on one
\* of them and on no other, as long as the offsets fit an int.
THEOREM EveryRowOnOnePage ==
    ASSUME NEW rows, rows \subseteq Nat, IsFiniteSet(rows),
           Cardinality(rows) <= MaxInt, NEW limit \in Int, NEW r \in rows
    PROVE  \E page \in Nat \ {0} :
             /\ r \in Listed(rows, page, limit)
             /\ \A other \in Nat \ {0} :
                  /\ (other - 1) * NormalLimit(limit) <= MaxInt
                  /\ r \in Listed(rows, other, limit)
                  => other = page
<1>1. PICK size, rank : size = NormalLimit(limit) /\ rank = Rank(rows, r)
      OBVIOUS
<1>2. /\ size \in Nat \ {0} /\ rank \in Nat \ {0} /\ MaxInt \in Nat
      /\ rank <= MaxInt
  <2>1. Cardinality(rows) \in Nat
        BY FS_CardinalityType
  <2>2. rank \in Nat \ {0} /\ rank <= Cardinality(rows)
        BY <1>1, RankType
  <2>3. QED  BY <1>1, <2>1, <2>2, NormalLimitType, PaginationAssumption
<1>3. ASSUME NEW page \in Nat \ {0}, (page - 1) * size <= MaxInt
      PROVE  /\ r \in Listed(rows, page, limit)
                  <=> (page - 1) * size < rank /\ rank <= page * size
             /\ (page - 1) * size \in Nat /\ page * size \in Nat
  <2>1. PICK k \in Nat : k = page - 1
        OBVIOUS
  <2>2. /\ k * size \in Nat /\ page * size = k * size + size
        /\ page = k + 1
        BY <1>2, <2>1, Products
  <2>3. r \in Listed(rows, page, limit)
           <=> k * size < rank /\ rank <= k * size + size
        BY <1>1, <1>2, <1>3, <2>1, <2>2, PagePlaces
  <2>4. QED  BY <1>2, <2>1, <2>2, <2>3
<1> DEFINE after == {n \in Nat : rank <= n * size}
<1>4. rank \in after
      BY <1>2, Products
<1>5. PICK page \in after : \A n \in after : page <= n
      BY <1>4, LeastNatural
<1>6. page \in Nat \ {0} /\ rank <= page * size
  <2>1. 0 * size = 0
        BY <1>2
  <2>2. QED  BY <1>2, <1>5, <2>1
<1>7. PICK k \in Nat : k = page - 1
      BY <1>6
<1>8. k * size < rank
  <2>1. k \notin after
    <3> SUFFICES ASSUME k \in after PROVE FALSE
        OBVIOUS
    <3>1. page <= k
          BY <1>5
    <3>2. QED  BY ONLY <1>6, <1>7, <3>1
  <2>2. k * size \in Nat
        BY <1>2, Products
  <2>3. ~(rank <= k * size)
        BY <2>1
  <2>4. QED  BY ONLY <1>2, <2>2, <2>3
<1>9. (page - 1) * size <= MaxInt
  <2>1. k * size \in Nat
        BY <1>2, Products
  <2>2. k * size <= MaxInt
        BY ONLY <1>2, <1>8, <2>1
  <2>3. QED  BY <1>7, <2>2
<1>10. r \in Listed(rows, page, limit)
       BY <1>3, <1>6, <1>7, <1>8, <1>9
<1>11. ASSUME NEW other \in Nat \ {0}, (other - 1) * size <= MaxInt,
              r \in Listed(rows, other, limit)
       PROVE  other = page
  <2>1. PICK j \in Nat : j = other - 1
        OBVIOUS
  <2>2. /\ j * size < rank /\ rank <= other * size
        /\ j * size \in Nat /\ other * size \in Nat
        BY <1>3, <1>11, <2>1
  <2>3. other \in after
        BY <2>2
  <2>4. page <= other
        BY <1>5, <2>3
  <2>5. page <= j => rank <= j * size
    <3>1. page <= j => page * size <= j * size
          BY <1>2, <1>6, Products
    <3>2. page * size \in Nat
          BY <1>2, <1>6, Products
    <3>3. QED  BY ONLY <1>2, <1>6, <2>2, <3>1, <3>2
  <2>6. ~(page <= j)
        BY ONLY <1>2, <2>2, <2>5
  <2>7. QED  BY ONLY <1>6, <2>1, <2>4, <2>6, other \in Nat
<1>12. QED  BY <1>1, <1>6, <1>10, <1>11

----
\* The walk.

\* Every user the walk still owes is there, and after the places of the pages
\* it has read: rows that come in, are changed or come back only move it on.
WalkInv ==
    /\ walk.page = 0 => walk.owed = {}
    /\ walk.owed \subseteq Current
    /\ \A u \in walk.owed :
         (walk.page - 1) * NormalLimit(walk.limit) < Rank(Current, u)

LEMMA CurrentType ==
    ASSUME NEW rows, rows \subseteq Users
    PROVE  /\ rows \subseteq Nat
           /\ IsFiniteSet(rows)
           /\ Cardinality(rows) <= Cardinality(Users)
    BY AccountsAssumption, FS_Subset

\* Users that come in or come back.
LEMMA WalkGrows ==
    ASSUME AccountsInv, WalkInv, Current \subseteq Current', UNCHANGED walk
    PROVE  WalkInv'
<1>1. IsFiniteSet(Current')
      BY CurrentType DEF Current
<1>2. \A u \in walk.owed : Rank(Current, u) <= Rank(Current', u)
      BY <1>1, RankGrows
<1>3. \A u \in walk.owed :
        /\ Rank(Current, u) \in Nat
        /\ Rank(Current', u) \in Nat
        /\ (walk.page - 1) * NormalLimit(walk.limit) \in Int
  <2> SUFFICES ASSUME NEW u \in walk.owed
               PROVE  /\ Rank(Current, u) \in Nat
                      /\ Rank(Current', u) \in Nat
                      /\ (walk.page - 1) * NormalLimit(walk.limit) \in Int
      OBVIOUS
  <2>1. u \in Current /\ u \in Current'
        BY DEF WalkInv
  <2>2. /\ Current \subseteq Nat /\ IsFiniteSet(Current)
        /\ Current' \subseteq Nat /\ IsFiniteSet(Current')
        BY CurrentType DEF Current
  <2>3. Rank(Current, u) \in Nat /\ Rank(Current', u) \in Nat
        BY <2>1, <2>2, RankType
  <2>4. walk.page \in Nat /\ walk.limit \in Int
    <3>1. walk \in [page: Nat, limit: Limits \cup {0}, owed: SUBSET Users]
          BY DEF AccountsInv, TypeOK
    <3>2. walk.page \in Nat /\ walk.limit \in Limits \cup {0}
          BY <3>1
    <3>3. Limits \subseteq Int
          BY AccountsAssumption
    <3>4. 0 \in Int
          OBVIOUS
    <3>5. QED  BY ONLY <3>2, <3>3, <3>4, Zenon
  <2>5. NormalLimit(walk.limit) \in Nat
        BY <2>4, NormalLimitType
  <2>6. QED  BY <2>3, <2>4, <2>5
<1>4. \A u \in walk.owed :
        (walk.page - 1) * NormalLimit(walk.limit) < Rank(Current', u)
      BY <1>2, <1>3 DEF WalkInv
<1>5. QED  BY <1>4 DEF WalkInv

LEMMA WalkInvNext ==
    ASSUME Cardinality(Users) <= MaxInt
    PROVE  AccountsInv /\ WalkInv /\ [Next]_vars => WalkInv'
<1> SUFFICES ASSUME AccountsInv, WalkInv, [Next]_vars PROVE WalkInv'
    OBVIOUS
<1>1. ASSUME NEW s \in Processes,
             \/ StartUp(s) \/ SeedWallet(s) \/ Crash(s) \/ InsertWallet(s)
             \/ Abort(s)
             \/ \E u \in Users :
                  \/ \E p \in Profiles : ReadUser(s, u, p)
                  \/ ReadForDelete(s, u) \/ ReadOwner(s, u)
      PROVE  WalkInv'
  <2>1. UNCHANGED <<users, walk>>
        BY <1>1 DEF StartUp, SeedWallet, Crash, InsertWallet, Abort,
                    ReadUser, ReadForDelete, ReadOwner
  <2>2. QED  BY <2>1, WalkGrows DEF Current, Alive
<1>2. ASSUME NEW s \in Processes, SeedUser(s) PROVE WalkInv'
  <2>1. \A u \in Users : users[u] # NoUser => users'[u] = users[u]
        BY <1>2 DEF SeedUser, AccountsInv, TypeOK
  <2>2. QED  BY <1>2, <2>1, WalkGrows DEF SeedUser, Current, Alive
<1>3. ASSUME NEW s \in Processes, NEW u \in Users, NEW p \in Creations,
             CreateUser(s, u, p)
      PROVE  WalkInv'
  <2>1. \A v \in Users : users[v] # NoUser => users'[v] = users[v]
        BY <1>3 DEF CreateUser, AccountsInv, TypeOK
  <2>2. QED  BY <1>3, <2>1, WalkGrows DEF CreateUser, Current, Alive
<1>4. ASSUME NEW s \in Processes, SaveUser(s) PROVE WalkInv'
  <2> DEFINE u == req[s].user
             row == [profile |-> req[s].profile, deleted |-> FALSE]
  <2>1. u \in Users /\ row \in Rows /\ row # NoUser
        BY <1>4, RowIsUser DEF SaveUser, AccountsInv, Control, Rows
  <2>2. users' \in {users, [users EXCEPT ![u] = row]} /\ UNCHANGED walk
        BY <1>4 DEF SaveUser, SavedProfile
  <2>3. \A v \in Current : users'[v] \in {users[v], row}
        BY <2>1, <2>2 DEF AccountsInv, TypeOK, Current
  <2>4. Current \subseteq Current'
        BY <2>1, <2>3 DEF Current, Alive
  <2>5. QED  BY <2>2, <2>4, WalkGrows
<1>5. ASSUME NEW s \in Processes, MarkDeleted(s) PROVE WalkInv'
  <2>1. walk'.owed = {}
        BY <1>5 DEF MarkDeleted, AccountsInv, TypeOK
  <2>2. QED  BY <2>1 DEF WalkInv
<1>6. ASSUME NEW limit \in Limits, StartWalk(limit) PROVE WalkInv'
  <2>1. walk' = [page |-> 1, limit |-> limit, owed |-> Current]
        /\ Current' = Current
        BY <1>6 DEF StartWalk, Current, Alive
  <2>2. limit \in Int /\ NormalLimit(limit) \in Nat
        BY NormalLimitType, AccountsAssumption
  <2>3. (1 - 1) * NormalLimit(limit) = 0
        BY <2>2
  <2>4. \A u \in Current : 0 < Rank(Current, u)
    <3>1. Current \subseteq Nat /\ IsFiniteSet(Current)
          BY CurrentType DEF Current
    <3>2. \A u \in Current : Rank(Current, u) \in Nat \ {0}
          BY <3>1, RankType
    <3>3. QED  BY <3>2
  <2>5. QED  BY <2>1, <2>3, <2>4 DEF WalkInv
<1>7. ASSUME NEW s \in Processes, ListPage(s) PROVE WalkInv'
  <2> DEFINE page == walk.page
             size == NormalLimit(walk.limit)
             items == Listed(Current, walk.page, walk.limit)
  <2>1. /\ page \in Nat \ {0} /\ walk.limit \in Int
        /\ size \in Nat \ {0}
        BY <1>7, NormalLimitType, AccountsAssumption
           DEF ListPage, AccountsInv, TypeOK
  <2>2. /\ walk'.page = IF items = {} THEN 0 ELSE page + 1
        /\ walk'.owed = walk.owed \ items
        /\ walk'.limit = walk.limit
        /\ Current' = Current
    <3>1. walk' = [walk EXCEPT !.page = IF items = {} THEN 0 ELSE @ + 1,
                               !.owed = @ \ items]
          BY <1>7 DEF ListPage
    <3>2. walk \in [page: Nat, limit: Limits \cup {0}, owed: SUBSET Users]
          BY DEF AccountsInv, TypeOK
    <3>3. users' = users
          BY <1>7 DEF ListPage
    <3>4. Current' = Current
          BY <3>3 DEF Current, Alive
    <3> HIDE DEF items
    <3>5. QED  BY <3>1, <3>2, <3>4
  <2>3. CASE walk.owed = {}
        BY <2>2, <2>3 DEF WalkInv
  <2>4. CASE walk.owed # {}
    <3>1. /\ Current \subseteq Nat /\ IsFiniteSet(Current)
          /\ Cardinality(Current) <= Cardinality(Users)
          BY CurrentType DEF Current
    <3>2. \A u \in walk.owed :
            /\ u \in Current
            /\ Rank(Current, u) \in Nat \ {0}
            /\ Rank(Current, u) <= Cardinality(Current)
            /\ (page - 1) * size < Rank(Current, u)
          BY <3>1, RankType DEF WalkInv
    <3>3. (page - 1) * size \in Nat /\ page * size \in Nat
          /\ ((page + 1) - 1) * size = page * size
          BY <2>1
    <3>4. (page - 1) * size <= MaxInt
      <4>1. PICK u \in walk.owed : TRUE
            BY <2>4
      <4>2. Cardinality(Current) \in Nat /\ Cardinality(Users) \in Nat
            BY <3>1, FS_CardinalityType, AccountsAssumption
      <4> HIDE DEF page, size
      <4>3. QED  BY <3>1, <3>2, <3>3, <4>1, <4>2, PaginationAssumption
    <3>5. ASSUME NEW r \in Current
          PROVE  r \in items <=> /\ (page - 1) * size < Rank(Current, r)
                                 /\ Rank(Current, r) <= page * size
      <4>1. PICK skipped \in Nat : skipped = (page - 1) * size
            BY <3>3
      <4>2. size \in Nat /\ skipped <= MaxInt
            BY <2>1, <3>4, <4>1
      <4>3. r \in items <=> /\ skipped < Rank(Current, r)
                            /\ Rank(Current, r) <= skipped + size
            BY <2>1, <3>1, <4>1, <4>2, PagePlaces
      <4>4. skipped + size = page * size
            BY <2>1, <4>1
      <4>5. QED  BY <4>1, <4>3, <4>4
    <3>6. items # {}
      <4>1. PICK u \in walk.owed : TRUE
            BY <2>4
      <4>2. PICK v \in Current : Rank(Current, v) = (page - 1) * size + 1
            BY <3>1, <3>2, <3>3, <4>1, NextRank
      <4>3. (page - 1) * size + 1 <= page * size
            BY <2>1
      <4>4. QED  BY <3>3, <3>5, <4>2, <4>3
    <3>7. \A u \in walk'.owed : page * size < Rank(Current, u)
      <4>1. \A u \in walk'.owed : u \in walk.owed /\ u \notin items
            BY <2>2
      <4> HIDE DEF items, page, size
      <4>2. QED  BY <3>2, <3>3, <3>5, <4>1
    <3>8. walk'.page = page + 1 /\ walk'.page # 0
          BY <2>1, <2>2, <3>6
    <3>9. walk'.owed \subseteq Current'
          BY <2>2, <3>2
    <3>10. \A u \in walk'.owed :
             (walk'.page - 1) * NormalLimit(walk'.limit) < Rank(Current', u)
          BY <2>2, <3>3, <3>7, <3>8
    <3>11. QED  BY <3>8, <3>9, <3>10 DEF WalkInv
  <2>5. QED  BY <2>3, <2>4
<1>8. CASE UNCHANGED vars
      BY <1>8, WalkGrows DEF vars, Current, Alive
<1>9. QED
      BY <1>1, <1>2, <1>3, <1>4, <1>5, <1>6, <1>7, <1>8 DEF Next

\* A client that lists page after page to the end has seen every user that was
\* there when it started, unless one was deleted: for every limit it asks for,
\* and as long as there are no more users than an int counts.
THEOREM WalksMissNobody ==
    ASSUME Cardinality(Users) <= MaxInt
    PROVE  Spec => []WalkMissesNobody
<1>1. Init => WalkInv
      BY DEF Init, WalkInv
<1>2. AccountsInv /\ WalkInv /\ [Next]_vars => WalkInv'
      BY WalkInvNext
<1>3. WalkInv => WalkMissesNobody
      BY DEF WalkInv, WalkMissesNobody
<1>4. QED  BY <1>1, <1>2, <1>3, AccountsInvariant, PTL DEF Spec
====
