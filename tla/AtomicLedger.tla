---- MODULE AtomicLedger ----
(****************************************************************************)
(* What clients are promised of money movement while no wallet is suspended *)
(* or closed: each request takes effect at one instant between its arrival  *)
(* and its answer, as if requests were handled one at a time on balances,   *)
(* a history of transactions and the keys that were used. There are no      *)
(* locks, no copies and no waiting here, balances are unlimited integers,   *)
(* and a request is only refused for a reason that is true at that instant. *)
(****************************************************************************)
EXTENDS Integers, Sequences

CONSTANTS
    Handlers,    \* requests under way at the same time
    Wallets,     \* ids of the wallets
    System,      \* the settlement wallet
    Movements,   \* the requests that move money
    NoRequest,   \* before the first request
    NoKey        \* a request without an Idempotency-Key

VARIABLES
    balance,   \* the balance of each wallet
    history,   \* the transactions, in the order they took effect
    used,      \* the keyed requests that were served, and by which transaction
    phase,     \* whether a request is under way, and has taken effect
    req,       \* the request, or the last one
    reply      \* its answer

vars == <<balance, history, used, phase, req, reply>>

----
\* Money goes from one wallet to another.
Flow(r) ==
    CASE r.op = "topup" -> [from |-> System, to |-> r.wallet, amount |-> r.amount]
      [] r.op = "transfer" ->
            [from |-> r.source, to |-> r.destination, amount |-> r.amount]
      [] r.op = "reversal" ->
            [from |-> history[r.target].destination,
             to |-> history[r.target].source,
             amount |-> history[r.target].amount]

HasTarget(r) == r.op = "reversal" => r.target \in DOMAIN history

\* The served requests with the same key on the same endpoint.
SameKey(r) ==
    {u \in used : r.key # NoKey /\ u.request.key = r.key /\ u.request.op = r.op}

\* The reasons to refuse a request.
Invalid(r) ==
    \/ r.op = "transfer" /\ r.source = r.destination
    \/ r.op = "reversal" /\ HasTarget(r) /\ history[r.target].type = "reversal"

Missing(r) ==
    \/ ~HasTarget(r)
    \/ ~({Flow(r).from, Flow(r).to} \subseteq Wallets)
    \/ r.op = "topup" /\ r.wallet = System

Overdraws(r) ==
    /\ ~Missing(r)
    /\ r.op # "topup"
    /\ balance[Flow(r).from] < Flow(r).amount

AlreadyReversed(r) ==
    r.op = "reversal" /\ HasTarget(r) /\ history[r.target].status = "reversed"

Refusable(r, code) ==
    \/ code = "validation" /\ Invalid(r)
    \/ code = "not_found" /\ Missing(r)
    \/ code = "insufficient_funds" /\ Overdraws(r)
    \/ code = "already_reversed" /\ AlreadyReversed(r)
    \/ code = "conflict" /\ SameKey(r) # {}
    \/ code = "idempotency_conflict" /\ \E u \in SameKey(r) : u.request # r

Refusals == {"validation", "not_found", "insufficient_funds",
             "already_reversed", "conflict", "idempotency_conflict"}

----
Init ==
    /\ balance = [w \in Wallets |-> 0]
    /\ history = <<>>
    /\ used = {}
    /\ phase = [h \in Handlers |-> "idle"]
    /\ req = [h \in Handlers |-> NoRequest]
    /\ reply = [h \in Handlers |-> [code |-> "none", tx |-> 0]]

Answer(h, code, tx) ==
    /\ phase' = [phase EXCEPT ![h] = "idle"]
    /\ reply' = [reply EXCEPT ![h] = [code |-> code, tx |-> tx]]
    /\ UNCHANGED <<balance, history, used, req>>

Submit(h) ==
    /\ phase[h] = "idle"
    /\ \E r \in Movements : req' = [req EXCEPT ![h] = r]
    /\ phase' = [phase EXCEPT ![h] = "busy"]
    /\ reply' = [reply EXCEPT ![h] = [code |-> "none", tx |-> 0]]
    /\ UNCHANGED <<balance, history, used>>

\* The request takes effect: there is no reason to refuse it.
Serve(h) ==
    LET r == req[h]
        id == Len(history) + 1
        marked == IF r.op = "reversal"
                    THEN [history EXCEPT ![r.target].status = "reversed"]
                    ELSE history
    IN /\ phase[h] = "busy"
       /\ \A code \in Refusals : ~Refusable(r, code)
       /\ balance' = [balance EXCEPT ![Flow(r).from] = @ - Flow(r).amount,
                                     ![Flow(r).to] = @ + Flow(r).amount]
       /\ history' = Append(marked,
            [type |-> r.op, source |-> Flow(r).from, destination |-> Flow(r).to,
             amount |-> Flow(r).amount, key |-> r.key, status |-> "completed",
             related |-> IF r.op = "reversal" THEN r.target ELSE 0])
       /\ used' = IF r.key = NoKey THEN used
                  ELSE used \cup {[request |-> r, tx |-> id]}
       /\ phase' = [phase EXCEPT ![h] = "done"]
       /\ reply' = [reply EXCEPT ![h].tx = id]
       /\ req' = req

Confirm(h) == phase[h] = "done" /\ Answer(h, "created", reply[h].tx)

\* The same request was served before under this key.
Replay(h) ==
    /\ phase[h] = "busy"
    /\ \E u \in SameKey(req[h]) :
         u.request = req[h] /\ Answer(h, "created", u.tx)

Refuse(h) ==
    /\ phase[h] = "busy"
    /\ \E code \in Refusals : Refusable(req[h], code) /\ Answer(h, code, 0)

\* The client gets an error, whether or not the request took effect.
Fail(h) == phase[h] # "idle" /\ Answer(h, "internal", 0)

Next ==
    \E h \in Handlers :
        \/ Submit(h)
        \/ Serve(h)
        \/ Confirm(h)
        \/ Replay(h)
        \/ Refuse(h)
        \/ Fail(h)

Spec == Init /\ [][Next]_vars
====
