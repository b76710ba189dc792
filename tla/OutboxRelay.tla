---- MODULE OutboxRelay ----
(****************************************************************************)
(* The transactional outbox: movements insert one event each in their own   *)
(* transaction, and background workers (internal/event/worker.go) move the  *)
(* pending events to a Redis stream.                                        *)
(*                                                                          *)
(* Events are numbered by created_at, which is set at the insert, before    *)
(* the commit: events of unrelated wallets may become visible in another    *)
(* order, but two movements that share a wallet insert their events under   *)
(* that wallet's row lock, so these commit in created_at order.             *)
(*                                                                          *)
(* The stream is the sequence of first deliveries. An event appended again  *)
(* after a crash or a lost answer is the same event to its consumers, who   *)
(* know it by event_id, and is not recorded twice.                          *)
(****************************************************************************)
EXTENDS Integers, Sequences, FiniteSets

CONSTANTS
    Workers,      \* running worker loops: one per process of the service
    Events,       \* the events, in created_at order
    SharedLock,   \* pairs of events whose movements share a wallet
    Undecodable,  \* events whose payload ParsePayload rejects
    BatchSize     \* OUTBOX_BATCH_SIZE

ASSUME OutboxAssumption ==
    /\ Events \subseteq Nat
    /\ IsFiniteSet(Events)
    /\ SharedLock \subseteq Events \X Events
    /\ Undecodable \subseteq Events
    /\ BatchSize \in Nat \ {0}

VARIABLES
    status,   \* outbox_events.status; "absent" before the commit
    failed,   \* the events with retry_count > 0
    stream,   \* first deliveries to wallet_events, in stream order
    pc,       \* what each worker does next
    batch     \* the events of its batch it is not done with

vars == <<status, failed, stream, pc, batch>>

Pending == {e \in Events : status[e] = "pending"}
Delivered == {stream[i] : i \in DOMAIN stream}

\* The event of the batch being handled: batches are in created_at order.
Current(w, e) == e \in batch[w] /\ \A f \in batch[w] : e <= f

\* Mutants: the newest events come first; the status is not looked at.
NextBatch_Newest ==
    {e \in Pending : Cardinality({f \in Pending : f >= e}) <= BatchSize}
NextBatch_AnyStatus ==
    LET committed == {e \in Events : status[e] # "absent"}
    IN {e \in committed : Cardinality({f \in committed : f <= e}) <= BatchSize}

\* WHERE status = pending ORDER BY created_at LIMIT BatchSize.
NextBatch ==
    {e \in Pending : Cardinality({f \in Pending : f <= e}) <= BatchSize}

----
Init ==
    /\ status = [e \in Events |-> "absent"]
    /\ failed = {}
    /\ stream = <<>>
    /\ pc = [w \in Workers |-> "idle"]
    /\ batch = [w \in Workers |-> {}]

\* A movement commits, and its event with it. An event that is never
\* committed is one whose transaction rolled back.
Commit(e) ==
    /\ status[e] = "absent"
    /\ \A f \in Events : f > e /\ <<e, f>> \in SharedLock => status[f] = "absent"
    /\ status' = [status EXCEPT ![e] = "pending"]
    /\ UNCHANGED <<failed, stream, pc, batch>>

\* A tick of the worker, or its first round.
FetchPending(w) ==
    /\ pc[w] = "idle"
    /\ NextBatch # {}
    /\ batch' = [batch EXCEPT ![w] = NextBatch]
    /\ pc' = [pc EXCEPT ![w] = "handle"]
    /\ UNCHANGED <<status, failed, stream>>

\* ParsePayload fails.
RejectPayload(w) ==
    /\ pc[w] = "handle"
    /\ \E e \in Undecodable : Current(w, e)
    /\ pc' = [pc EXCEPT ![w] = "record"]
    /\ UNCHANGED <<status, failed, stream, batch>>

Appended(e) == IF e \in Delivered THEN stream ELSE Append(stream, e)

\* XADD succeeds.
Publish(w, e) ==
    /\ pc[w] = "handle"
    /\ Current(w, e)
    /\ e \notin Undecodable
    /\ stream' = Appended(e)
    /\ pc' = [pc EXCEPT ![w] = "mark"]
    /\ UNCHANGED <<status, failed, batch>>

\* XADD returns an error: Redis refused it, or appended it and the answer
\* was lost.
PublishFails(w, e) ==
    /\ pc[w] = "handle"
    /\ Current(w, e)
    /\ e \notin Undecodable
    /\ stream' \in {stream, Appended(e)}
    /\ pc' = [pc EXCEPT ![w] = "record"]
    /\ UNCHANGED <<status, failed, batch>>

\* The worker goes on with the rest of its batch, or waits for the next tick.
Continue(w, e) ==
    /\ batch' = [batch EXCEPT ![w] = @ \ {e}]
    /\ pc' = [pc EXCEPT ![w] = IF batch[w] = {e} THEN "idle" ELSE "handle"]

\* The batch is over: PublishPending returns, or the process dies.
Abandon(w) ==
    /\ batch' = [batch EXCEPT ![w] = {}]
    /\ pc' = [pc EXCEPT ![w] = "idle"]

\* Mutant: the batch ends at the first failure.
RecordFailure_EndsBatch(w, e) ==
    /\ pc[w] = "record"
    /\ Current(w, e)
    /\ failed' = failed \cup {e}
    /\ status' = [status EXCEPT ![e] = "pending"]
    /\ Abandon(w)
    /\ UNCHANGED stream

\* Mutant: the row leaves the queue with the status that is "reserved for
\* manual inspection".
RecordFailure_SetsFailed(w, e) ==
    /\ pc[w] = "record"
    /\ Current(w, e)
    /\ failed' = failed \cup {e}
    /\ status' = [status EXCEPT ![e] = "failed"]
    /\ Continue(w, e)
    /\ UNCHANGED stream

RecordFailure(w, e) ==
    /\ pc[w] = "record"
    /\ Current(w, e)
    /\ failed' = failed \cup {e}
    /\ status' = [status EXCEPT ![e] = "pending"]
    /\ Continue(w, e)
    /\ UNCHANGED stream

\* Mutant: a failed delivery is marked too.
MarkPublished_AfterError(w, e) ==
    /\ pc[w] \in {"mark", "record"}
    /\ Current(w, e)
    /\ status' = [status EXCEPT ![e] = "published"]
    /\ Continue(w, e)
    /\ UNCHANGED <<failed, stream>>

MarkPublished(w, e) ==
    /\ pc[w] = "mark"
    /\ Current(w, e)
    /\ status' = [status EXCEPT ![e] = "published"]
    /\ Continue(w, e)
    /\ UNCHANGED <<failed, stream>>

\* The update of the row fails, or the worker stops at any point: nobody
\* waits for it at shutdown, so this is also what a restart looks like.
Stop(w) ==
    /\ pc[w] # "idle"
    /\ Abandon(w)
    /\ UNCHANGED <<status, failed, stream>>

WorkerStep(w) ==
    \/ FetchPending(w)
    \/ RejectPayload(w)
    \/ \E e \in Events :
         \/ Publish(w, e)
         \/ PublishFails(w, e)
         \/ RecordFailure(w, e)
         \/ MarkPublished(w, e)
    \/ Stop(w)

Next ==
    \/ \E e \in Events : Commit(e)
    \/ \E w \in Workers : WorkerStep(w)

Spec == Init /\ [][Next]_vars

\* The ticker fires forever. Redis and the database may fail any number of
\* times and the process may be restarted any number of times, but a step on
\* one event that is tried again and again is taken in the end: the process is
\* not stopped, and the store does not fail, at that same point every time.
Fairness ==
    \A w \in Workers :
        /\ WF_vars(FetchPending(w))
        /\ SF_vars(RejectPayload(w))
        /\ \A e \in Events :
             /\ SF_vars(Publish(w, e))
             /\ SF_vars(RecordFailure(w, e))
             /\ SF_vars(MarkPublished(w, e))

FairSpec == Spec /\ Fairness

----
\* Rows, stream and the workers' memory are well typed; the status "failed"
\* is never written.
TypeOK ==
    /\ status \in [Events -> {"absent", "pending", "published"}]
    /\ failed \subseteq Events
    /\ stream \in Seq(Events)
    /\ pc \in [Workers -> {"idle", "handle", "record", "mark"}]
    /\ batch \in [Workers -> SUBSET Events]

\* An event marked published is in the stream, and only events of committed
\* movements are: a crash between XADD and the update repeats a delivery, it
\* never loses one (the order of Publish and MarkPublished in PublishPending).
AtLeastOnce ==
    /\ \A e \in Events : status[e] = "published" => e \in Delivered
    /\ \A e \in Delivered : status[e] # "absent"

\* Consumers see the movements of a wallet in the order they were made, unless
\* a delivery failed: an event that is still to be delivered although a later
\* one of its wallet is out has a recorded failure (FetchPending's order, and
\* RecordFailure before the worker goes on).
SkippedOnlyAfterFailure ==
    \A e \in Events, f \in Delivered :
        (/\ e < f
         /\ <<e, f>> \in SharedLock
         /\ status[e] = "pending"
         /\ e \notin Delivered)
            => e \in failed

\* With one worker, published is final: a failure is never recorded for an
\* event that was published before (RecordFailure sets the status back to
\* pending whatever it was).
PublishedIsFinal ==
    [][\A e \in Events :
         status[e] = "published" => status'[e] = "published"]_vars

\* Every committed event with a readable payload is published in the end,
\* past events that fail and events that can never be decoded.
EveryEventPublished ==
    \A e \in Events \ Undecodable :
        status[e] = "pending" ~> status[e] = "published"
====
