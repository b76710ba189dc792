---- MODULE OutboxRelayProofs ----
(****************************************************************************)
(* Proofs about OutboxRelay, for every set of events and shared locks, any  *)
(* number of workers and any batch size.                                    *)
(****************************************************************************)
EXTENDS OutboxRelay, FiniteSetTheorems, SequenceTheorems, TLAPS

\* What a worker has read and done: the events of its batch are committed, and
\* it marks what it has delivered.
Fetched ==
    /\ \A w \in Workers : \A e \in batch[w] : status[e] # "absent"
    /\ \A w \in Workers, e \in Events :
         pc[w] = "mark" /\ Current(w, e) => e \in Delivered

\* An event that precedes one of the batch under a shared lock is out, has a
\* recorded failure, or is in the batch too, and so comes first.
InTurn ==
    \A w \in Workers, e \in Events, f \in Events :
        /\ e < f
        /\ <<e, f>> \in SharedLock
        /\ f \in batch[w]
        /\ status[e] # "absent"
        => e \in Delivered \cup failed \cup batch[w]

\* SkippedOnlyAfterFailure, for events marked published too.
Skipped ==
    \A e \in Events, f \in Delivered :
        e < f /\ <<e, f>> \in SharedLock /\ status[e] # "absent"
            => e \in Delivered \cup failed

RelayInv == TypeOK /\ AtLeastOnce /\ Fetched /\ InTurn /\ Skipped

----
\* One name for the steps of a worker on an event.
Handles(w, e) ==
    Publish(w, e) \/ PublishFails(w, e) \/ RecordFailure(w, e)
        \/ MarkPublished(w, e)

LEMMA RelaySteps ==
    ASSUME Next
    PROVE  \/ \E e \in Events : Commit(e)
           \/ \E w \in Workers :
                \/ FetchPending(w) \/ RejectPayload(w) \/ Stop(w)
                \/ \E e \in Events : Handles(w, e)
    BY DEF Next, WorkerStep, Handles

\* The stream gains the event and loses none.
LEMMA AppendedDelivers ==
    ASSUME stream \in Seq(Events), NEW e \in Events, stream' = Appended(e)
    PROVE  stream' \in Seq(Events) /\ Delivered' = Delivered \cup {e}
<1>1. CASE e \in Delivered
      BY <1>1 DEF Appended, Delivered
<1>2. CASE e \notin Delivered
  <2>1. stream' = Append(stream, e)
        BY <1>2 DEF Appended
  <2>2. /\ stream' \in Seq(Events)
        /\ Len(stream') = Len(stream) + 1
        /\ \A i \in 1..Len(stream) : stream'[i] = stream[i]
        /\ stream'[Len(stream) + 1] = e
        BY <2>1, AppendProperties
  <2>3. /\ DOMAIN stream = 1..Len(stream)
        /\ DOMAIN stream' = 1..(Len(stream) + 1)
        /\ Len(stream) \in Nat
        BY <2>2
  <2>4. QED  BY <2>2, <2>3 DEF Delivered
<1>3. QED  BY <1>1, <1>2

\* At most one event of a batch is the one being handled.
LEMMA OneCurrent ==
    ASSUME TypeOK, NEW w \in Workers, NEW e \in Events, NEW f \in Events,
           Current(w, e), Current(w, f)
    PROVE  e = f
<1>1. e <= f /\ f <= e
      BY DEF Current
<1>2. e \in Nat /\ f \in Nat
      BY OutboxAssumption
<1>3. QED  BY <1>1, <1>2

\* A batch has every pending event that is older than one of its events.
LEMMA BatchIsOldest ==
    ASSUME NEW e \in Pending, NEW f \in NextBatch, e < f
    PROVE  e \in NextBatch
<1> DEFINE upTo(g) == {p \in Pending : p <= g}
<1>1. e \in Nat /\ f \in Nat /\ f \in Pending /\ Pending \subseteq Nat
      BY OutboxAssumption DEF Pending, NextBatch
<1>2. upTo(e) \subseteq upTo(f)
  <2>1. ASSUME NEW p \in Pending, p <= e PROVE p <= f
    <3>1. p \in Nat
          BY <1>1
    <3>2. QED  BY ONLY <1>1, <2>1, <3>1, e < f
  <2>2. QED  BY <2>1
<1>3. IsFiniteSet(upTo(f))
  <2>1. IsFiniteSet(Events) /\ upTo(f) \subseteq Events
        BY OutboxAssumption DEF Pending
  <2>2. QED  BY <2>1, FS_Subset
<1>4. /\ Cardinality(upTo(e)) \in Nat
      /\ Cardinality(upTo(f)) \in Nat
      /\ Cardinality(upTo(e)) <= Cardinality(upTo(f))
  <2>1. IsFiniteSet(upTo(e)) /\ Cardinality(upTo(e)) <= Cardinality(upTo(f))
        BY <1>2, <1>3, FS_Subset
  <2>2. QED  BY <1>3, <2>1, FS_CardinalityType
<1>5. Cardinality(upTo(f)) <= BatchSize
      BY DEF NextBatch
<1> HIDE DEF upTo
<1>6. Cardinality(upTo(e)) <= BatchSize
      BY <1>4, <1>5, OutboxAssumption
<1>7. QED  BY <1>6 DEF NextBatch, upTo

----
LEMMA RelayInvInit == Init => RelayInv
<1> SUFFICES ASSUME Init PROVE RelayInv
    OBVIOUS
<1>1. Delivered = {}
      BY DEF Init, Delivered
<1>2. QED  BY <1>1 DEF Init, RelayInv, TypeOK, AtLeastOnce, Fetched, InTurn,
                       Skipped, Current

\* What a worker's step on an event does to every other event.
LEMMA HandlesFrame ==
    ASSUME RelayInv, NEW w \in Workers, NEW e \in Events, Handles(w, e)
    PROVE  /\ TypeOK'
           /\ Current(w, e) /\ e \in batch[w] /\ status[e] # "absent"
           /\ \A v \in Workers \ {w} : batch'[v] = batch[v] /\ pc'[v] = pc[v]
           /\ \A f \in Events \ {e} : status'[f] = status[f]
           /\ status'[e] # "absent"
           /\ failed \subseteq failed'
           /\ Delivered' \in {Delivered, Delivered \cup {e}}
           /\ \/ batch'[w] = batch[w]
              \/ /\ batch'[w] = batch[w] \ {e}
                 /\ pc'[w] # "mark"
                 /\ e \in failed' \cup Delivered'
           /\ pc'[w] = "mark" => e \in Delivered'
           /\ status'[e] = "published" => e \in Delivered'
<1>0. TypeOK /\ e \in Nat
      BY OutboxAssumption DEF RelayInv
<1>1. Current(w, e) /\ e \in batch[w]
      BY DEF Handles, Publish, PublishFails, RecordFailure, MarkPublished,
             Current
<1>2. status[e] # "absent"
      BY <1>1 DEF RelayInv, Fetched
<1>3. CASE Publish(w, e)
  <2>1. stream' \in Seq(Events) /\ Delivered' = Delivered \cup {e}
        BY <1>0, <1>3, AppendedDelivers DEF Publish, TypeOK
  <2>2. QED  BY <1>0, <1>1, <1>2, <1>3, <2>1 DEF Publish, TypeOK
<1>4. CASE PublishFails(w, e)
  <2>1. stream' \in Seq(Events) /\ Delivered' \in {Delivered, Delivered \cup {e}}
        BY <1>0, <1>4, AppendedDelivers DEF PublishFails, TypeOK, Delivered
  <2>2. status[e] = "published" => e \in Delivered'
        BY <2>1 DEF RelayInv, AtLeastOnce
  <2>3. QED  BY <1>0, <1>1, <1>2, <1>4, <2>1, <2>2 DEF PublishFails, TypeOK
<1>5. CASE RecordFailure(w, e)
  <2>1. Delivered' = Delivered
        BY <1>5 DEF RecordFailure, Delivered
  <2>2. QED  BY <1>0, <1>1, <1>2, <1>5, <2>1
                DEF RecordFailure, Continue, TypeOK
<1>6. CASE MarkPublished(w, e)
  <2>1. Delivered' = Delivered
        BY <1>6 DEF MarkPublished, Delivered
  <2>2. e \in Delivered
        BY <1>1, <1>6 DEF MarkPublished, RelayInv, Fetched
  <2>3. QED  BY <1>0, <1>1, <1>2, <1>6, <2>1, <2>2
                DEF MarkPublished, Continue, TypeOK
<1>7. QED  BY <1>3, <1>4, <1>5, <1>6 DEF Handles

LEMMA HandlesKeeps ==
    ASSUME RelayInv, NEW w \in Workers, NEW e \in Events, Handles(w, e)
    PROVE  RelayInv'
<1>1. /\ TypeOK /\ TypeOK'
      /\ Current(w, e) /\ e \in batch[w] /\ status[e] # "absent"
      /\ \A v \in Workers \ {w} : batch'[v] = batch[v] /\ pc'[v] = pc[v]
      /\ \A f \in Events \ {e} : status'[f] = status[f]
      /\ status'[e] # "absent"
      /\ failed \subseteq failed'
      /\ Delivered' \in {Delivered, Delivered \cup {e}}
      /\ pc'[w] = "mark" => e \in Delivered'
      /\ status'[e] = "published" => e \in Delivered'
      BY HandlesFrame DEF RelayInv
<1>2. \/ batch'[w] = batch[w]
      \/ /\ batch'[w] = batch[w] \ {e}
         /\ pc'[w] # "mark"
         /\ e \in failed' \cup Delivered'
      BY HandlesFrame
<1>3. /\ \A f \in Events : status'[f] # "absent" <=> status[f] # "absent"
      /\ \A v \in Workers : batch'[v] \subseteq batch[v]
      /\ \A v \in Workers : batch[v] \subseteq batch'[v] \cup {e}
      /\ \A v \in Workers : batch[v] \subseteq Events
      /\ Delivered \subseteq Events /\ Delivered' \subseteq Events
      BY <1>1, <1>2 DEF TypeOK, Delivered
<1>4. AtLeastOnce'
  <2>1. \A f \in Events : status'[f] = "published" => f \in Delivered'
        BY <1>1 DEF RelayInv, AtLeastOnce
  <2>2. \A f \in Delivered' : status'[f] # "absent"
        BY <1>1, <1>3 DEF RelayInv, AtLeastOnce
  <2>3. QED  BY <2>1, <2>2 DEF AtLeastOnce
<1>5. Fetched'
  <2>1. \A v \in Workers : \A f \in batch'[v] : status'[f] # "absent"
    <3> SUFFICES ASSUME NEW v \in Workers, NEW f \in batch'[v]
                 PROVE  status'[f] # "absent"
        OBVIOUS
    <3>1. f \in batch[v] /\ f \in Events
          BY <1>3
    <3>2. QED  BY <1>3, <3>1 DEF RelayInv, Fetched
  <2>2. ASSUME NEW v \in Workers, NEW f \in Events,
               pc'[v] = "mark", Current(v, f)'
        PROVE  f \in Delivered'
    <3>1. batch'[v] = batch[v]
          BY <1>1, <1>2, <2>2
    <3>2. Current(v, f)
          BY <2>2, <3>1 DEF Current
    <3>3. CASE v = w
          BY <1>1, <2>2, <3>2, <3>3, OneCurrent
    <3>4. CASE v # w
          BY <1>1, <2>2, <3>2, <3>4 DEF RelayInv, Fetched
    <3>5. QED  BY <3>3, <3>4
  <2>3. QED  BY <2>1, <2>2 DEF Fetched
<1>6. InTurn'
  <2> SUFFICES ASSUME NEW v \in Workers, NEW d \in Events, NEW f \in Events,
                      d < f, <<d, f>> \in SharedLock, f \in batch'[v],
                      status'[d] # "absent"
               PROVE  d \in Delivered' \cup failed' \cup batch'[v]
      BY DEF InTurn
  <2>1. d \in Delivered \cup failed \cup batch[v]
        BY <1>3 DEF RelayInv, InTurn
  <2>2. CASE d \in Delivered \cup failed
        BY <1>1, <2>2
  <2>3. CASE d \in batch[v]
        BY <1>1, <1>2, <2>3
  <2>4. QED  BY <2>1, <2>2, <2>3
<1>7. Skipped'
  <2> SUFFICES ASSUME NEW d \in Events, NEW f \in Delivered',
                      d < f, <<d, f>> \in SharedLock, status'[d] # "absent"
               PROVE  d \in Delivered' \cup failed'
      BY DEF Skipped
  <2>1. CASE f \in Delivered
        BY <1>1, <1>3, <2>1 DEF RelayInv, Skipped
  <2>2. CASE f = e
    <3>1. d \in Delivered \cup failed \cup batch[w]
          BY <1>1, <1>3, <2>2 DEF RelayInv, InTurn
    <3>2. d \notin batch[w]
      <4>1. d \in batch[w] => e <= d
            BY <1>1 DEF Current
      <4>2. d \in Nat /\ e \in Nat
            BY OutboxAssumption
      <4>3. QED  BY <2>2, <4>1, <4>2
    <3>3. QED  BY <1>1, <3>1, <3>2
  <2>3. QED  BY <1>1, <2>1, <2>2
<1>8. QED  BY <1>1, <1>4, <1>5, <1>6, <1>7 DEF RelayInv

LEMMA CommitKeeps ==
    ASSUME RelayInv, NEW e \in Events, Commit(e)
    PROVE  RelayInv'
<1>1. /\ TypeOK /\ TypeOK'
      /\ status[e] = "absent"
      /\ status' = [status EXCEPT ![e] = "pending"]
      /\ failed' = failed /\ stream' = stream /\ pc' = pc /\ batch' = batch
      /\ \A f \in Events : f > e /\ <<e, f>> \in SharedLock
                              => status[f] = "absent"
      BY DEF RelayInv, TypeOK, Commit
<1>2. /\ Delivered' = Delivered
      /\ \A f \in Events \ {e} : status'[f] = status[f]
      /\ status'[e] = "pending"
      /\ Delivered \subseteq Events
      BY <1>1 DEF Delivered, TypeOK
<1>3. AtLeastOnce' /\ Fetched'
      BY <1>1, <1>2 DEF RelayInv, AtLeastOnce, Fetched, TypeOK, Current
<1>4. InTurn'
  <2> SUFFICES ASSUME NEW v \in Workers, NEW d \in Events, NEW f \in Events,
                      d < f, <<d, f>> \in SharedLock, f \in batch[v],
                      status'[d] # "absent"
               PROVE  d \in Delivered \cup failed \cup batch[v]
      BY <1>1, <1>2 DEF InTurn
  <2>1. status[f] # "absent"
        BY DEF RelayInv, Fetched
  <2>2. d \in Nat /\ f \in Nat
        BY OutboxAssumption
  <2>3. d # e
        BY <1>1, <2>1, <2>2
  <2>4. QED  BY <1>2, <2>3 DEF RelayInv, InTurn
<1>5. Skipped'
  <2> SUFFICES ASSUME NEW d \in Events, NEW f \in Delivered,
                      d < f, <<d, f>> \in SharedLock, status'[d] # "absent"
               PROVE  d \in Delivered \cup failed
      BY <1>1, <1>2 DEF Skipped
  <2>1. status[f] # "absent" /\ f \in Events
        BY <1>2 DEF RelayInv, AtLeastOnce
  <2>2. d \in Nat /\ f \in Nat
        BY <2>1, OutboxAssumption
  <2>3. d # e
        BY <1>1, <2>1, <2>2
  <2>4. QED  BY <1>2, <2>3 DEF RelayInv, Skipped
<1>6. QED  BY <1>1, <1>3, <1>4, <1>5 DEF RelayInv

LEMMA FetchKeeps ==
    ASSUME RelayInv, NEW w \in Workers, FetchPending(w)
    PROVE  RelayInv'
<1>1. /\ TypeOK
      /\ batch' = [batch EXCEPT ![w] = NextBatch]
      /\ pc' = [pc EXCEPT ![w] = "handle"]
      /\ status' = status /\ failed' = failed /\ stream' = stream
      BY DEF RelayInv, FetchPending
<1>2. /\ NextBatch \subseteq Pending
      /\ Pending \subseteq Events
      /\ \A f \in Pending : status[f] = "pending"
      /\ Delivered' = Delivered
      BY <1>1 DEF NextBatch, Pending, Delivered
<1>3. /\ TypeOK'
      /\ batch'[w] = NextBatch
      /\ \A v \in Workers \ {w} : batch'[v] = batch[v] /\ pc'[v] = pc[v]
      /\ pc'[w] = "handle"
      BY <1>1, <1>2 DEF TypeOK
<1>4. AtLeastOnce' /\ Skipped'
      BY <1>1, <1>2 DEF RelayInv, AtLeastOnce, Skipped
<1>5. Fetched'
  <2>1. ASSUME NEW v \in Workers, NEW f \in batch'[v]
        PROVE  status'[f] # "absent"
        BY <1>1, <1>2, <1>3 DEF RelayInv, Fetched
  <2>2. ASSUME NEW v \in Workers, NEW f \in Events,
               pc'[v] = "mark", Current(v, f)'
        PROVE  f \in Delivered'
    <3>1. v # w
          BY <1>3, <2>2
    <3>2. pc[v] = "mark" /\ Current(v, f)
          BY <1>3, <2>2, <3>1 DEF Current
    <3>3. QED  BY <1>2, <3>2 DEF RelayInv, Fetched
  <2>3. QED  BY <2>1, <2>2 DEF Fetched
<1>6. InTurn'
  <2> SUFFICES ASSUME NEW v \in Workers, NEW d \in Events, NEW f \in Events,
                      d < f, <<d, f>> \in SharedLock, f \in batch'[v],
                      status[d] # "absent"
               PROVE  d \in Delivered \cup failed \cup batch'[v]
      BY <1>1, <1>2 DEF InTurn
  <2>1. CASE v # w
        BY <1>3, <2>1 DEF RelayInv, InTurn
  <2>2. CASE v = w /\ status[d] = "pending"
        BY <1>3, <2>2, BatchIsOldest DEF Pending
  <2>3. CASE status[d] = "published"
        BY <2>3 DEF RelayInv, AtLeastOnce
  <2>4. QED  BY <1>1, <2>1, <2>2, <2>3 DEF TypeOK
<1>7. QED  BY <1>3, <1>4, <1>5, <1>6 DEF RelayInv

LEMMA RelayInvNext == RelayInv /\ [Next]_vars => RelayInv'
<1> SUFFICES ASSUME RelayInv, [Next]_vars PROVE RelayInv'
    OBVIOUS
<1>1. ASSUME NEW w \in Workers, RejectPayload(w) PROVE RelayInv'
  <2>1. /\ UNCHANGED <<status, failed, stream, batch>>
        /\ pc' = [pc EXCEPT ![w] = "record"]
        BY <1>1 DEF RejectPayload
  <2>2. QED  BY <2>1 DEF RelayInv, TypeOK, AtLeastOnce, Fetched, InTurn,
                         Skipped, Delivered, Current
<1>2. ASSUME NEW w \in Workers, Stop(w) PROVE RelayInv'
  <2>1. /\ UNCHANGED <<status, failed, stream>>
        /\ batch' = [batch EXCEPT ![w] = {}]
        /\ pc' = [pc EXCEPT ![w] = "idle"]
        BY <1>2 DEF Stop, Abandon
  <2>2. QED  BY <2>1 DEF RelayInv, TypeOK, AtLeastOnce, Fetched, InTurn,
                         Skipped, Delivered, Current
<1>3. CASE UNCHANGED vars
      BY <1>3 DEF vars, RelayInv, TypeOK, AtLeastOnce, Fetched, InTurn,
                  Skipped, Delivered, Current
<1>4. QED  BY <1>1, <1>2, <1>3, RelaySteps, CommitKeeps, FetchKeeps,
              HandlesKeeps

\* The rows, the stream and the workers' memory are well typed; "failed" is
\* never written.
THEOREM RelayTypeCorrect == Spec => []TypeOK
<1>1. RelayInv => TypeOK
      BY DEF RelayInv
<1>2. QED  BY <1>1, RelayInvInit, RelayInvNext, PTL DEF Spec

\* What is marked published is in the stream, and nothing is in the stream
\* that was not committed, with any number of workers and restarts.
THEOREM DeliveryAtLeastOnce == Spec => []AtLeastOnce
<1>1. RelayInv => AtLeastOnce
      BY DEF RelayInv
<1>2. QED  BY <1>1, RelayInvInit, RelayInvNext, PTL DEF Spec

\* An event is overtaken by a later one of its wallet only after one of its
\* deliveries failed, with any number of workers and any batch size.
THEOREM OvertakenOnlyAfterFailure == Spec => []SkippedOnlyAfterFailure
<1>1. RelayInv => SkippedOnlyAfterFailure
      BY DEF RelayInv, Skipped, SkippedOnlyAfterFailure
<1>2. QED  BY <1>1, RelayInvInit, RelayInvNext, PTL DEF Spec

----
\* One worker.

\* It has nothing in its batch but pending events.
OnlyPending ==
    \A w \in Workers : \A e \in batch[w] : status[e] = "pending"

\* Where at most one worker runs, an event once marked published stays so: no
\* failure is recorded for it afterwards.
THEOREM OneWorkerPublishesForGood ==
    ASSUME \A v, w \in Workers : v = w
    PROVE  Spec => PublishedIsFinal
<1> DEFINE Final == \A e \in Events :
                      status[e] = "published" => status'[e] = "published"
<1>1. Init => OnlyPending
      BY DEF Init, OnlyPending
<1>2. RelayInv /\ OnlyPending /\ [Next]_vars => OnlyPending' /\ Final
  <2> SUFFICES ASSUME RelayInv, OnlyPending, [Next]_vars
               PROVE  OnlyPending' /\ Final
      OBVIOUS
  <2>0. TypeOK
        BY DEF RelayInv
  <2>1. ASSUME NEW e \in Events, Commit(e) PROVE OnlyPending' /\ Final
        BY <2>0, <2>1 DEF Commit, OnlyPending, TypeOK
  <2>2. ASSUME NEW w \in Workers,
               FetchPending(w) \/ RejectPayload(w) \/ Stop(w)
        PROVE  OnlyPending' /\ Final
    <3>1. status' = status
          BY <2>2 DEF FetchPending, RejectPayload, Stop
    <3>2. batch'[w] \subseteq batch[w] \cup Pending
          BY <2>0, <2>2 DEF FetchPending, RejectPayload, Stop, Abandon,
                            NextBatch, TypeOK
    <3>3. \A v \in Workers : v = w
          OBVIOUS
    <3>4. QED  BY <3>1, <3>2, <3>3 DEF OnlyPending, Pending
  <2>3. ASSUME NEW w \in Workers, NEW e \in Events, Handles(w, e)
        PROVE  OnlyPending' /\ Final
    <3>1. /\ e \in batch[w]
          /\ \A f \in Events \ {e} : status'[f] = status[f]
          /\ \A v \in Workers : v = w
          BY <2>3, HandlesFrame
    <3>2. status[e] = "pending"
          BY <3>1 DEF OnlyPending
    <3>3. batch'[w] \subseteq batch[w] /\ batch[w] \subseteq Events
          BY <2>0, <2>3, HandlesFrame DEF TypeOK
    <3>4. e \in batch'[w] => status'[e] = "pending"
          BY <2>0, <2>3, <3>2 DEF Handles, Publish, PublishFails,
                                  RecordFailure, MarkPublished, Continue,
                                  TypeOK
    <3>5. QED  BY <3>1, <3>2, <3>3, <3>4 DEF OnlyPending
  <2>4. CASE UNCHANGED vars
        BY <2>4 DEF vars, OnlyPending
  <2>5. QED  BY <2>1, <2>2, <2>3, <2>4, RelaySteps
<1>3. RelayInv /\ OnlyPending /\ [Next]_vars => [Final]_vars
      BY <1>2
<1>4. RelayInv /\ OnlyPending /\ [Next]_vars => OnlyPending'
      BY <1>2
<1>5. Spec => [][Final]_vars
      BY <1>1, <1>3, <1>4, RelayInvInit, RelayInvNext, PTL DEF Spec
<1>6. QED  BY <1>5 DEF PublishedIsFinal
====
