---- MODULE Accounts ----
(****************************************************************************)
(* Users and the creation of their wallets: UserService, the listing of     *)
(* users, WalletService.Create, and the seeding of the system accounts by   *)
(* every process that starts up against the same database.                  *)
(*                                                                          *)
(* Each statement commits on its own; a request that reads a user and then  *)
(* writes is two steps, and requests of other processes come between. An    *)
(* answer that changes no row (not found, conflict, validation) is left     *)
(* out where it is the first step of its request.                           *)
(****************************************************************************)
EXTENDS Pagination

CONSTANTS
    Processes,   \* processes of the service; each serves a request at a time
    Users,       \* ids of rows of table users, in created_at order
    SystemUser,  \* model.SystemUserID
    Profiles,    \* contents of requests: email, external_ref and status
    SystemProfile,
    NoRef,       \* external_ref is NULL
    Limits       \* values of the query parameter limit

ASSUME AccountsAssumption ==
    /\ Users \subseteq Nat
    /\ IsFiniteSet(Users)
    /\ SystemUser \in Users
    /\ Profiles \cup {SystemProfile} \subseteq
         [email: STRING, ref: STRING, status: {"active", "inactive"}]
    /\ Limits \subseteq Int

VARIABLES
    users,    \* rows of table users, the soft-deleted ones included
    wallets,  \* the wallet of each user: none, its own, or the system wallet
    pc,       \* what each process does next
    req,      \* the request it serves
    walk      \* a client that reads the list of users page by page

vars == <<users, wallets, pc, req, walk>>

----
NoProfile == [email |-> "", ref |-> "", status |-> ""]
NoUser == [profile |-> NoProfile, deleted |-> FALSE]
Alive(u) == users[u] # NoUser /\ ~users[u].deleted
Existing == {u \in Users : users[u] # NoUser}
Current == {u \in Users : Alive(u)}
NoRequest == [user |-> 0, profile |-> NoProfile]

\* POST /users may leave the status out.
Creations == Profiles \cup {[p EXCEPT !.status = ""] : p \in Profiles}

\* The status is active by default.
Stored(p) == IF p.status = "" THEN [p EXCEPT !.status = "active"] ELSE p

\* The unique indexes cover soft-deleted rows too; NULLs are never equal. The
\* email stands for the phone number as well.
Clashes(u, p) ==
    \E v \in Existing \ {u} :
        \/ users[v].profile.email = p.email
        \/ p.ref # NoRef /\ users[v].profile.ref = p.ref

\* A process takes a request on, and is done with it.
Take(s, label, u, p) ==
    /\ pc[s] = "idle"
    /\ pc' = [pc EXCEPT ![s] = label]
    /\ req' = [req EXCEPT ![s] = [user |-> u, profile |-> p]]

Finish(s) ==
    /\ pc' = [pc EXCEPT ![s] = "idle"]
    /\ req' = [req EXCEPT ![s] = NoRequest]

----
Init ==
    /\ users = [u \in Users |-> NoUser]
    /\ wallets = [u \in Users |-> "none"]
    /\ pc = [s \in Processes |-> "down"]
    /\ req = [s \in Processes |-> NoRequest]
    /\ walk = [page |-> 0, limit |-> 0, owed |-> {}]

\* main: load the configuration, open the database and migrate it.
StartUp(s) ==
    /\ pc[s] = "down"
    /\ pc' = [pc EXCEPT ![s] = "seed_user"]
    /\ UNCHANGED <<users, wallets, req, walk>>

SystemRow == [profile |-> SystemProfile, deleted |-> FALSE]

\* Mutant: a system user that is there already ends the seeding.
SeedUser_OnceOnly(s) ==
    /\ pc[s] = "seed_user"
    /\ users' = IF users[SystemUser] # NoUser \/ Clashes(SystemUser, SystemProfile)
                THEN users
                ELSE [users EXCEPT ![SystemUser] = SystemRow]
    /\ pc' = [pc EXCEPT ![s] = IF users[SystemUser] = NoUser THEN "seed_wallet"
                               ELSE "idle"]
    /\ UNCHANGED <<wallets, req, walk>>

\* INSERT ... ON CONFLICT DO NOTHING, whichever index the conflict is on.
SeedUser(s) ==
    /\ pc[s] = "seed_user"
    /\ users' = IF users[SystemUser] # NoUser \/ Clashes(SystemUser, SystemProfile)
                THEN users
                ELSE [users EXCEPT ![SystemUser] = SystemRow]
    /\ pc' = [pc EXCEPT ![s] = "seed_wallet"]
    /\ UNCHANGED <<wallets, req, walk>>

\* The same for the wallet, which conflicts with any wallet of that user;
\* then the process serves requests.
SeedWallet(s) ==
    /\ pc[s] = "seed_wallet"
    /\ wallets' = IF wallets[SystemUser] = "none"
                  THEN [wallets EXCEPT ![SystemUser] = "system"]
                  ELSE wallets
    /\ pc' = [pc EXCEPT ![s] = "idle"]
    /\ UNCHANGED <<users, req, walk>>

\* A failed start, a signal or a crash.
Crash(s) ==
    /\ pc[s] # "down"
    /\ pc' = [pc EXCEPT ![s] = "down"]
    /\ req' = [req EXCEPT ![s] = NoRequest]
    /\ UNCHANGED <<users, wallets, walk>>

----
\* UserService.Create: one INSERT. created_at is taken before it, so the row
\* need not be the newest one.
CreateUser(s, u, p) ==
    /\ pc[s] = "idle"
    /\ users[u] = NoUser /\ u # SystemUser
    /\ ~Clashes(u, Stored(p))
    /\ users' = [users EXCEPT ![u] = [profile |-> Stored(p), deleted |-> FALSE]]
    /\ UNCHANGED <<wallets, pc, req, walk>>

\* Mutant: Update looks the user up without the soft-delete condition.
ReadUser_Unscoped(s, u, p) ==
    users[u] # NoUser /\ Take(s, "save", u, p) /\ UNCHANGED <<users, wallets, walk>>

\* UserService.Update: the user is there ...
ReadUser(s, u, p) ==
    Alive(u) /\ Take(s, "save", u, p) /\ UNCHANGED <<users, wallets, walk>>

\* Mutant: only the fields that are not empty are written.
SavedProfile_NonZero(u, p) ==
    IF p.ref = NoRef THEN [p EXCEPT !.ref = users[u].profile.ref] ELSE p

SavedProfile(u, p) == p

\* ... and gorm's Save writes every column of it: UPDATE ... WHERE deleted_at
\* IS NULL, and when that finds no row INSERT ... ON CONFLICT (id) DO UPDATE,
\* which sets deleted_at back to NULL. A conflict with another row is refused.
SaveUser(s) ==
    LET u == req[s].user
        p == SavedProfile(u, req[s].profile)
    IN /\ pc[s] = "save"
       /\ users' = IF Clashes(u, p) THEN users
                   ELSE [users EXCEPT ![u] = [profile |-> p, deleted |-> FALSE]]
       /\ Finish(s)
       /\ UNCHANGED <<wallets, walk>>

\* UserService.Delete: the user is there, and then the row is marked. The rows
\* behind it move up in the list: a walk is owed nothing any more.
ReadForDelete(s, u) ==
    /\ Alive(u)
    /\ Take(s, "delete", u, NoProfile)
    /\ UNCHANGED <<users, wallets, walk>>

MarkDeleted(s) ==
    /\ pc[s] = "delete"
    /\ users' = [users EXCEPT ![req[s].user].deleted = TRUE]
    /\ walk' = [walk EXCEPT !.owed = {}]
    /\ Finish(s)
    /\ UNCHANGED wallets

\* WalletService.Create: the owner is there and active, and then the wallet is
\* inserted unless the owner has one.
ReadOwner(s, u) ==
    /\ Alive(u)
    /\ users[u].profile.status = "active"
    /\ Take(s, "wallet", u, NoProfile)
    /\ UNCHANGED <<users, wallets, walk>>

InsertWallet(s) ==
    LET u == req[s].user
    IN /\ pc[s] = "wallet"
       /\ wallets' = IF wallets[u] = "none" THEN [wallets EXCEPT ![u] = "own"]
                     ELSE wallets
       /\ Finish(s)
       /\ UNCHANGED <<users, walk>>

\* A database error or a cancelled request between the two statements.
Abort(s) ==
    /\ pc[s] \in {"save", "delete", "wallet"}
    /\ Finish(s)
    /\ UNCHANGED <<users, wallets, walk>>

----
\* A client lists all users: page 1, 2, ... with the same limit, until a page
\* is empty. It is owed the users that are there when it starts.
StartWalk(limit) ==
    /\ walk.page = 0
    /\ walk' = [page |-> 1, limit |-> limit, owed |-> Current]
    /\ UNCHANGED <<users, wallets, pc, req>>

\* UserService.List.
ListPage(s) ==
    LET items == Listed(Current, walk.page, walk.limit)
    IN /\ pc[s] = "idle"
       /\ walk.page > 0
       /\ walk' = [walk EXCEPT !.page = IF items = {} THEN 0 ELSE @ + 1,
                               !.owed = @ \ items]
       /\ UNCHANGED <<users, wallets, pc, req>>

Next ==
    \/ \E s \in Processes :
         \/ StartUp(s) \/ SeedUser(s) \/ SeedWallet(s) \/ Crash(s)
         \/ \E u \in Users :
              \/ \E p \in Creations : CreateUser(s, u, p)
              \/ \E p \in Profiles : ReadUser(s, u, p)
              \/ ReadForDelete(s, u)
              \/ ReadOwner(s, u)
         \/ SaveUser(s) \/ MarkDeleted(s) \/ InsertWallet(s) \/ Abort(s)
         \/ ListPage(s)
    \/ \E limit \in Limits : StartWalk(limit)

Spec == Init /\ [][Next]_vars

----
Rows ==
    [profile: Profiles \cup {SystemProfile}
                \cup {[p EXCEPT !.status = "active"] : p \in Profiles},
     deleted: BOOLEAN]

\* Rows, requests and the walk are well typed. Every row holds the contents of
\* one request as a whole: two updates of a user, or an update and the row it
\* read, are never mixed (Save writes every column).
TypeOK ==
    /\ users \in [Users -> Rows \cup {NoUser}]
    /\ wallets \in [Users -> {"none", "own", "system"}]
    /\ pc \in [Processes -> {"down", "seed_user", "seed_wallet", "idle",
                             "save", "delete", "wallet"}]
    /\ req \in [Processes -> [user: Users, profile: Profiles \cup {NoProfile}]
                                \cup {NoRequest}]
    /\ walk \in [page: Nat, limit: Limits \cup {0}, owed: SUBSET Users]

\* Whoever serves requests has a settlement wallet to top up from, however the
\* processes before it were cut off while they seeded and whatever was done
\* to the system user since (SeedSystemAccounts, called before the server
\* starts): the one wallet of the system user is the system wallet.
SystemWalletReady ==
    /\ \A s \in Processes :
         pc[s] \notin {"down", "seed_user", "seed_wallet"} =>
            users[SystemUser] # NoUser /\ wallets[SystemUser] = "system"
    /\ wallets[SystemUser] # "own"

\* A user is gone for good when it is deleted and no request that found it
\* before the deletion is still under way.
Settled(u) ==
    /\ users[u] # NoUser /\ users[u].deleted
    /\ \A s \in Processes : pc[s] \in {"save", "wallet"} => req[s].user # u

\* Deletions settle: a settled user is never brought back and never gets a
\* wallet. Until then an Update that read the user before its deletion does
\* bring it back, and a wallet is created for it (Update, Delete and
\* WalletService.Create check first and write later).
DeletionSettles ==
    [][\A u \in Users :
         Settled(u) => Settled(u)' /\ wallets'[u] = wallets[u]]_vars

\* Whoever lists page after page to the end sees every user that was there at
\* the start, whatever is created, changed or brought back meanwhile, unless a
\* user is deleted (List: newest first, offset and limit).
WalkMissesNobody == walk.page = 0 => walk.owed = {}
====
