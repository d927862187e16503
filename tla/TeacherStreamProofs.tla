------------------------ MODULE TeacherStreamProofs ------------------------
(***************************************************************************)
(* Proofs about the streaming of teacher scores, for every number of       *)
(* workers, chunk size and concurrency, in both modes and whatever fails.  *)
(***************************************************************************)
EXTENDS TeacherStream, TLAPS

LEMMA ConsumersExist == NumConsumers \in Nat \ {0} /\ 1 \in Consumers
BY Assumption DEF Assumption, NumConsumers, Consumers

LEMMA NoneIsNoPosition == None \notin Positions /\ Positions \subseteq Nat
BY Assumption DEF Assumption, None, Positions

\* A step that finishes no sample, touches neither the queue nor the results,
\* creates no stream, and at most fails or cancels consumers.
LEMMA NoRequestMoves ==
    ASSUME NEW w \in Workers, StreamInv(w),
           \A i \in Positions : task'[w][i] = "done" <=> task[w][i] = "done",
           queue'[w] = queue[w], results'[w] = results[w],
           stream[w] = "none" => stream'[w] = "none",
           \A c \in Consumers :
              \/ consumer'[w][c] = consumer[w][c] /\ item'[w][c] = item[w][c]
              \/ consumer'[w][c] \in {"failed", "cancelled"}
    PROVE  StreamInv(w)'
<1>1. /\ Returned(w)' => Returned(w)
      /\ Lost(w) => Lost(w)'
      /\ \A i \in Positions : Asking(w, i) => Asking(w, i)' \/ Lost(w)'
  BY DEF Returned, Lost, Asking
<1>2. AllDone(w) => AllDone(w)'
  BY DEF AllDone
<1>3. \A i : Queued(w, i)' <=> Queued(w, i)
  BY DEF Queued
<1>4. Accounted(w)'
  BY <1>1, <1>3 DEF StreamInv, Accounted
<1>5. SignalsAfterAll(w)'
  BY <1>1, <1>2, <1>3 DEF StreamInv, SignalsAfterAll
<1>6. OwnResults(w)' /\ SignalsLast(w)' /\ OnlySignalsLeft(w)'
  BY <1>1 DEF StreamInv, OwnResults, SignalsLast, OnlySignalsLeft
<1>. QED  BY <1>4, <1>5, <1>6 DEF StreamInv

\* What appending and removing do to the positions of a queue.
LEMMA TailEntries ==
    ASSUME NEW S, NEW q \in Seq(S), q # <<>>
    PROVE  /\ Tail(q) \in Seq(S)
           /\ Len(Tail(q)) = Len(q) - 1
           /\ \A k \in 1 .. Len(Tail(q)) : Tail(q)[k] = q[k + 1]
OBVIOUS

LEMMA SignalEntries ==
    ASSUME NEW q \in Seq(Positions \cup {None}), NEW n \in Nat
    PROVE  /\ q \o Signals(n) \in Seq(Positions \cup {None})
           /\ Len(q \o Signals(n)) = Len(q) + n
           /\ \A k \in 1 .. Len(q) : (q \o Signals(n))[k] = q[k]
           /\ \A k \in Len(q) + 1 .. Len(q) + n : (q \o Signals(n))[k] = None
<1>1. /\ Signals(n) \in Seq(Positions \cup {None}) /\ Len(Signals(n)) = n
      /\ \A k \in 1 .. n : Signals(n)[k] = None
  BY DEF Signals
<1>. QED  BY <1>1

LEMMA InitIInv == Init => IInv
<1> SUFFICES ASSUME Init PROVE IInv
  OBVIOUS
<1>1. TypeOK
  <2>1. \A w \in Workers : queue[w] = <<>> /\ <<>> \in Seq(Positions \cup {None})
    BY DEF Init
  <2>2. queue \in [Workers -> Seq(Positions \cup {None})]
    BY <2>1 DEF Init
  <2>. QED  BY <2>2, Assumption DEF Assumption, Init, TypeOK
<1>2. \A w \in Workers : StreamInv(w)
  <2> TAKE w \in Workers
  <2>1. /\ \A i \in Positions : task[w][i] = "running" /\ results[w][i] = None
        /\ \A c \in Consumers : consumer[w][c] = "idle"
        /\ Len(queue[w]) = 0 /\ stream[w] = "none"
    BY DEF Init
  <2>. QED  BY <2>1 DEF StreamInv, Accounted, OwnResults, SignalsLast,
              SignalsAfterAll, OnlySignalsLeft, Queued, Returned
<1>. QED  BY <1>1, <1>2 DEF IInv

-----------------------------------------------------------------------------
\* Types

\* Replacing the queue of one worker.
LEMMA QueueType ==
    ASSUME TypeOK, NEW w \in Workers, NEW q \in Seq(Positions \cup {None}),
           queue' = [queue EXCEPT ![w] = q]
    PROVE  queue' \in [Workers -> Seq(Positions \cup {None})]
BY DEF TypeOK

LEMMA SampleTypes ==
    ASSUME TypeOK, NEW w \in Workers, Sample(w)
    PROVE  TypeOK'
<1> USE DEF sampleVars, consumerVars, streamVars, callerVars, SetTask
<1>1. CASE \E i \in Positions : Generated(w, i)
  BY <1>1 DEF Generated, TypeOK
<1>2. CASE \E i \in Positions : Request(w, i)
  <2> PICK i \in Positions : Request(w, i)
    BY <1>2
  <2>1. Append(queue[w], i) \in Seq(Positions \cup {None})
    BY DEF TypeOK
  <2>2. queue' = [queue EXCEPT ![w] = Append(queue[w], i)]
    BY DEF Request
  <2>3. queue' \in [Workers -> Seq(Positions \cup {None})]
    BY <2>1, <2>2, QueueType
  <2>. QED  BY <2>3 DEF Request, TypeOK
<1>3. CASE \E i \in Positions : NoContext(w, i)
  BY <1>3 DEF NoContext, TypeOK
<1>4. CASE \E p \in Prompts : ContextReady(w, p)
  BY <1>4 DEF ContextReady, TypeOK
<1>. QED  BY <1>1, <1>2, <1>3, <1>4 DEF Sample

LEMMA ConsumerTypes ==
    ASSUME TypeOK, NEW w \in Workers, Consumer(w)
    PROVE  TypeOK'
<1> USE DEF sampleVars, streamVars, callerVars, SetConsumer
<1>1. CASE \E c \in Consumers : TakeItem(w, c)
  <2> PICK c \in Consumers : TakeItem(w, c)
    BY <1>1
  <2>1. /\ queue[w] \in Seq(Positions \cup {None}) /\ queue[w] # <<>>
        /\ queue' = [queue EXCEPT ![w] = Tail(queue[w])]
    BY DEF TakeItem, Take, TypeOK
  <2>2. /\ Tail(queue[w]) \in Seq(Positions \cup {None})
        /\ Head(queue[w]) \in Positions \cup {None}
    BY <2>1
  <2>3. queue' \in [Workers -> Seq(Positions \cup {None})]
    BY <2>1, <2>2, QueueType
  <2>4. CASE Head(queue[w]) = None
    <3>1. /\ consumer' = [consumer EXCEPT ![w][c] = "returned"]
          /\ UNCHANGED <<phase, task, context, item, results, stream, pending,
                         mode, manager, redeemed, outcome, faults>>
      BY <2>4 DEF TakeItem, Take
    <3>. QED  BY <2>3, <3>1 DEF TypeOK
  <2>5. CASE Head(queue[w]) # None
    <3>1. /\ consumer' = [consumer EXCEPT ![w][c] = "asking"]
          /\ item' = [item EXCEPT ![w][c] = Head(queue[w])]
          /\ UNCHANGED <<phase, task, context, results, stream, pending,
                         mode, manager, redeemed, outcome, faults>>
      BY <2>5 DEF TakeItem, Take
    <3>2. Head(queue[w]) \in Positions
      BY <2>2, <2>5
    <3>. QED  BY <2>3, <3>1, <3>2 DEF TypeOK
  <2>. QED  BY <2>4, <2>5
<1>2. CASE \E c \in Consumers : Answered(w, c)
  BY <1>2 DEF Answered, Store, TypeOK
<1>. QED  BY <1>1, <1>2 DEF Consumer

LEMMA CancelledTypes ==
    ASSUME NEW S, NEW T, NEW f \in [S -> T], "cancelled" \in T
    PROVE  /\ Cancelled(f) \in [S -> T]
           /\ \A x \in S : Cancelled(f)[x] \in {f[x], "cancelled"}
           /\ \A x \in S : Ended(f[x]) => Cancelled(f)[x] = f[x]
BY DEF Cancelled

LEMMA CallTypes ==
    ASSUME TypeOK, NEW w \in Workers, Call(w)
    PROVE  TypeOK'
<1> USE DEF sampleVars, consumerVars, streamVars, callerVars, SetPhase
<1>1. CASE StartDraining(w)
  <2>1. queue' = [queue EXCEPT ![w] = queue[w] \o Signals(NumConsumers)]
    BY <1>1 DEF StartDraining, SendSignals
  <2>2. queue[w] \o Signals(NumConsumers) \in Seq(Positions \cup {None})
    BY ConsumersExist, SignalEntries DEF TypeOK
  <2>3. queue' \in [Workers -> Seq(Positions \cup {None})]
    BY <2>1, <2>2, QueueType
  <2>. QED  BY <1>1, <2>3 DEF StartDraining, TypeOK
<1>2. CASE Attach(w)          BY <1>2 DEF Attach, TypeOK
<1>3. CASE RegisterStream(w)  BY <1>3 DEF RegisterStream, TypeOK
<1>4. CASE Abandon(w)
  <2>1. /\ Cancelled(task[w]) \in [Positions ->
                {"running", "context", "done", "failed", "cancelled"}]
        /\ Cancelled(context[w]) \in [Prompts ->
                {"running", "done", "failed", "cancelled"}]
    BY CancelledTypes DEF TypeOK
  <2>. QED  BY <1>4, <2>1 DEF Abandon, TypeOK
<1>5. CASE Raise(w)
  <2>1. Cancelled(consumer[w]) \in [Consumers ->
                {"idle", "asking", "returned", "failed", "cancelled"}]
    BY CancelledTypes DEF TypeOK
  <2>2. \A c \in Consumers : Cancelled(consumer[w])[c] = "asking" =>
                consumer[w][c] = "asking"
    BY DEF Cancelled, TypeOK
  <2>. QED  BY <1>5, <2>1, <2>2 DEF Raise, AbandonEnds, TypeOK
<1>6. CASE Return(w)          BY <1>6 DEF Return, TypeOK
<1>. QED  BY <1>1, <1>2, <1>3, <1>4, <1>5, <1>6 DEF Call

LEMMA StreamTypes ==
    ASSUME TypeOK, NEW w \in Workers, Stream(w)
    PROVE  TypeOK'
<1> USE DEF sampleVars, consumerVars, streamVars, callerVars, SetStream
<1>1. CASE Finalize(w)
  <2>1. queue' = [queue EXCEPT ![w] = queue[w] \o Signals(NumConsumers)]
    BY <1>1 DEF Finalize, StreamSignals, SendSignals
  <2>2. queue[w] \o Signals(NumConsumers) \in Seq(Positions \cup {None})
    BY ConsumersExist, SignalEntries DEF TypeOK
  <2>3. queue' \in [Workers -> Seq(Positions \cup {None})]
    BY <2>1, <2>2, QueueType
  <2>. QED  BY <1>1, <2>3 DEF Finalize, StreamSignals, TypeOK
<1>2. CASE StreamDone(w)  BY <1>2 DEF StreamDone, TypeOK
<1>3. CASE StreamFails(w)
  <2>1. Cancelled(consumer[w]) \in [Consumers ->
                {"idle", "asking", "returned", "failed", "cancelled"}]
    BY CancelledTypes DEF TypeOK
  <2>2. \A c \in Consumers : Cancelled(consumer[w])[c] = "asking" =>
                consumer[w][c] = "asking"
    BY DEF Cancelled, TypeOK
  <2>. QED  BY <1>3, <2>1, <2>2 DEF StreamFails, TypeOK
<1>. QED  BY <1>1, <1>2, <1>3 DEF Stream

LEMMA FaultTypes ==
    ASSUME TypeOK, NEW w \in Workers, Faulty(w)
    PROVE  TypeOK'
<1> USE Assumption DEF Assumption, Fault, sampleVars, consumerVars, streamVars,
        callerVars, SetTask, SetConsumer, SetPhase, TypeOK
<1>1. CASE \E i \in Positions : GenerationRaises(w, i)
  BY <1>1 DEF GenerationRaises
<1>2. CASE \E p \in Prompts : ContextRaises(w, p)
  BY <1>2 DEF ContextRaises
<1>3. CASE \E c \in Consumers : TeacherRaises(w, c)
  BY <1>3 DEF TeacherRaises
<1>4. CASE PostprocessRaises(w)
  BY <1>4 DEF PostprocessRaises
<1>. QED  BY <1>1, <1>2, <1>3, <1>4 DEF Faulty

LEMMA CallerTypes == ASSUME TypeOK, Caller PROVE TypeOK'
<1> USE DEF sampleVars, consumerVars, streamVars, TypeOK
<1>1. CASE BatchFails    BY <1>1 DEF BatchFails
<1>2. CASE BatchArrives  BY <1>2 DEF BatchArrives
<1>3. CASE Resolve       BY <1>3 DEF Resolve, Deliver
<1>4. CASE ResolveFails  BY <1>4 DEF ResolveFails
<1>5. CASE \E w \in Workers : Redeem(w)
  BY <1>5 DEF Redeem
<1>. QED  BY <1>1, <1>2, <1>3, <1>4, <1>5 DEF Caller

LEMMA StutterTypes == ASSUME TypeOK, UNCHANGED vars PROVE TypeOK'
BY DEF vars, sampleVars, consumerVars, streamVars, callerVars, TypeOK

LEMMA TypesKept == TypeOK /\ [Next]_vars => TypeOK'
BY SampleTypes, ConsumerTypes, CallTypes, StreamTypes, FaultTypes, CallerTypes,
   StutterTypes DEF Next, Stop

-----------------------------------------------------------------------------
\* The requests of one worker

\* A worker's samples, contexts, consumers and calls leave the others alone.
OthersKeep(w) == \A v \in Workers \ {w} :
    /\ task'[v] = task[v] /\ queue'[v] = queue[v]
    /\ consumer'[v] = consumer[v] /\ item'[v] = item[v]
    /\ results'[v] = results[v] /\ stream'[v] = stream[v]
    /\ context'[v] = context[v] /\ phase'[v] = phase[v]

LEMMA OneWorkerMoves ==
    ASSUME TypeOK, NEW w \in Workers,
           Sample(w) \/ Consumer(w) \/ Call(w) \/ Stream(w) \/ Faulty(w)
    PROVE  OthersKeep(w)
<1> USE DEF OthersKeep, SetPhase, sampleVars, consumerVars, streamVars, callerVars, TypeOK
<1>1. CASE Sample(w)
  BY <1>1 DEF Sample, Generated, Request, NoContext, ContextReady, SetTask
<1>2. CASE Consumer(w)
  BY <1>2 DEF Consumer, TakeItem, Take, Answered, Store, SetConsumer
<1>3. CASE Call(w)
  BY <1>3 DEF Call, StartDraining, Attach, RegisterStream, Abandon, Raise,
              AbandonEnds, Return, SendSignals
<1>4. CASE Stream(w)
  BY <1>4 DEF Stream, Finalize, StreamSignals, SendSignals, StreamDone,
              StreamFails, SetStream
<1>5. CASE Faulty(w)
  BY <1>5 DEF Faulty, GenerationRaises, ContextRaises, TeacherRaises,
              PostprocessRaises, SetTask, SetConsumer
<1>. QED  BY <1>1, <1>2, <1>3, <1>4, <1>5

\* A finished sample stays finished.
LEMMA RequestKeeps ==
    ASSUME IInv, NEW w \in Workers, NEW i \in Positions, Request(w, i)
    PROVE  StreamInv(w)'
<1> DEFINE q == queue[w]
<1>1. /\ q \in Seq(Positions \cup {None}) /\ Len(q) \in Nat
      /\ queue'[w] = Append(q, i) /\ Len(queue'[w]) = Len(q) + 1
      /\ \A k \in 1 .. Len(q) : queue'[w][k] = q[k]
      /\ queue'[w][Len(q) + 1] = i
  BY DEF Request, IInv, TypeOK
<1>2. /\ task[w][i] = "context" /\ task'[w][i] = "done"
      /\ \A k \in Positions \ {i} : task'[w][k] = task[w][k]
      /\ consumer' = consumer /\ item' = item /\ results' = results
      /\ stream' = stream
  BY DEF Request, SetTask, IInv, TypeOK, consumerVars, streamVars
<1>3. ~AllDone(w) /\ ~Queued(w, None) /\ ~Returned(w) /\ stream[w] = "none"
  BY <1>2 DEF IInv, StreamInv, SignalsAfterAll, AllDone
<1>4. \A k \in 1 .. Len(q) : q[k] # None
  BY <1>3 DEF Queued
<1>5. ~Returned(w)' /\ ~Queued(w, None)'
  <2>1. \A k \in 1 .. Len(queue'[w]) : queue'[w][k] # None
    BY <1>1, <1>4, NoneIsNoPosition
  <2>. QED  BY <2>1, <1>2, <1>3 DEF Queued, Returned
<1>6. Accounted(w)'
  <2> SUFFICES ASSUME NEW k \in Positions, task'[w][k] = "done"
               PROVE  Queued(w, k)' \/ Asking(w, k)' \/ results'[w][k] = k
                        \/ Lost(w)'
    BY DEF Accounted
  <2>1. CASE k = i
    BY <2>1, <1>1 DEF Queued
  <2>2. CASE k # i
    <3>1. Queued(w, k) => Queued(w, k)'
      BY <1>1 DEF Queued
    <3>2. Queued(w, k) \/ Asking(w, k) \/ results[w][k] = k \/ Lost(w)
      BY <2>2, <1>2 DEF IInv, StreamInv, Accounted
    <3>. QED  BY <3>1, <3>2, <1>2 DEF Asking, Lost
  <2>. QED  BY <2>1, <2>2
<1>7. OwnResults(w)' /\ SignalsLast(w)' /\ OnlySignalsLeft(w)'
  BY <1>2, <1>5 DEF IInv, StreamInv, OwnResults, SignalsLast, OnlySignalsLeft,
                    Queued
<1>8. SignalsAfterAll(w)'
  BY <1>2, <1>3, <1>5 DEF SignalsAfterAll
<1>. QED  BY <1>6, <1>7, <1>8 DEF StreamInv

LEMMA SampleKeeps ==
    ASSUME IInv, NEW w \in Workers, Sample(w)
    PROVE  StreamInv(w)'
<1> USE DEF IInv, TypeOK, SetTask, consumerVars, streamVars
<1>1. CASE \E i \in Positions : Request(w, i)
  BY <1>1, RequestKeeps
<1>2. CASE \E i \in Positions : Generated(w, i) \/ NoContext(w, i)
  <2>1. /\ \A i \in Positions : task'[w][i] = "done" <=> task[w][i] = "done"
        /\ UNCHANGED <<queue, consumer, item, results, stream>>
    BY <1>2 DEF Generated, NoContext
  <2>. QED  BY <2>1, NoRequestMoves
<1>3. CASE \E p \in Prompts : ContextReady(w, p)
  <2>1. UNCHANGED <<task, queue, consumer, item, results, stream>>
    BY <1>3 DEF ContextReady
  <2>. QED  BY <2>1, NoRequestMoves
<1>. QED  BY <1>1, <1>2, <1>3 DEF Sample

\* A consumer takes the head of the queue: a request it now asks about, or the
\* signal that no request is left.
LEMMA TakeKeeps ==
    ASSUME IInv, NEW w \in Workers, NEW c \in Consumers, TakeItem(w, c)
    PROVE  StreamInv(w)'
<1> DEFINE q == queue[w]
           h == Head(q)
<1>1. /\ q \in Seq(Positions \cup {None}) /\ q # <<>>
      /\ consumer[w][c] = "idle" /\ queue'[w] = Tail(q)
      /\ task' = task /\ results' = results /\ stream' = stream
  BY DEF TakeItem, Take, IInv, TypeOK, sampleVars, streamVars
<1>2. /\ Len(q) \in Nat \ {0} /\ h = q[1] /\ h \in Positions \cup {None}
      /\ Len(queue'[w]) = Len(q) - 1
      /\ \A k \in 1 .. Len(q) - 1 : queue'[w][k] = q[k + 1]
  BY <1>1, TailEntries
<1>3. /\ SignalsLast(w) /\ OnlySignalsLeft(w) /\ Accounted(w)
      /\ SignalsAfterAll(w) /\ OwnResults(w)
  BY DEF IInv, StreamInv
<1>4. \A i : Queued(w, i)' => Queued(w, i)
  <2> SUFFICES ASSUME NEW i, NEW k \in 1 .. Len(queue'[w]), queue'[w][k] = i
               PROVE  Queued(w, i)
    BY DEF Queued
  <2>1. k + 1 \in 1 .. Len(q) /\ q[k + 1] = i
    BY <1>2
  <2>. QED  BY <2>1 DEF Queued
<1>5. \A i : Queued(w, i) => Queued(w, i)' \/ i = h
  <2> SUFFICES ASSUME NEW i, NEW k \in 1 .. Len(q), q[k] = i, i # h
               PROVE  Queued(w, i)'
    BY DEF Queued
  <2>1. k - 1 \in 1 .. Len(queue'[w]) /\ queue'[w][k - 1] = i
    BY <1>2
  <2>. QED  BY <2>1 DEF Queued
<1>6. OwnResults(w)' /\ SignalsLast(w)'
  <2>1. OwnResults(w)'
    BY <1>1, <1>3 DEF OwnResults
  <2>2. SignalsLast(w)'
    <3> SUFFICES ASSUME NEW j \in 1 .. Len(queue'[w]),
                        NEW k \in 1 .. Len(queue'[w]),
                        j < k, queue'[w][j] = None
                 PROVE  queue'[w][k] = None
      BY DEF SignalsLast
    <3>1. /\ j + 1 \in 1 .. Len(q) /\ k + 1 \in 1 .. Len(q) /\ j + 1 < k + 1
          /\ queue'[w][j] = q[j + 1] /\ queue'[w][k] = q[k + 1]
      BY <1>2
    <3>. QED  BY <3>1, <1>3 DEF SignalsLast
  <2>. QED  BY <2>1, <2>2
<1>7. CASE h = None
  <2>1. /\ consumer'[w][c] = "returned" /\ item' = item
        /\ \A d \in Consumers \ {c} : consumer'[w][d] = consumer[w][d]
    BY <1>7 DEF TakeItem, Take, SetConsumer, IInv, TypeOK
  <2>2. Queued(w, None)
    BY <1>2, <1>7 DEF Queued
  <2>3. AllDone(w)'
    BY <2>2, <1>1, <1>3 DEF SignalsAfterAll, AllDone
  <2>4. \A k \in 1 .. Len(q) : q[k] = None
    BY <1>2, <1>3, <1>7 DEF SignalsLast
  <2>5. OnlySignalsLeft(w)'
    <3>1. \A k \in 1 .. Len(queue'[w]) : k + 1 \in 1 .. Len(q)
      BY <1>2
    <3>. QED  BY <3>1, <2>4, <1>2 DEF OnlySignalsLeft
  <2>6. Accounted(w)'
    <3>1. \A i \in Positions : Queued(w, i) => Queued(w, i)'
      BY <1>5, <1>7, NoneIsNoPosition
    <3>2. \A i \in Positions : Asking(w, i) => Asking(w, i)'
      BY <1>1, <2>1 DEF Asking
    <3>3. Lost(w) => Lost(w)'
      BY <1>1, <2>1 DEF Lost
    <3>. QED  BY <3>1, <3>2, <3>3, <1>1, <1>3 DEF Accounted
  <2>. QED  BY <2>3, <2>5, <2>6, <1>6 DEF StreamInv, SignalsAfterAll
<1>8. CASE h # None
  <2>1. /\ consumer'[w][c] = "asking" /\ item'[w][c] = h
        /\ \A d \in Consumers \ {c} :
              consumer'[w][d] = consumer[w][d] /\ item'[w][d] = item[w][d]
    BY <1>8 DEF TakeItem, Take, SetConsumer, IInv, TypeOK
  <2>2. Returned(w)' => Returned(w)
    BY <2>1 DEF Returned
  <2>3. ~Returned(w)
    BY <1>2, <1>3, <1>8 DEF OnlySignalsLeft
  <2>4. SignalsAfterAll(w)'
    BY <2>2, <1>1, <1>3, <1>4 DEF SignalsAfterAll, AllDone
  <2>5. Accounted(w)'
    <3>1. \A i \in Positions : i = h => Asking(w, i)'
      BY <2>1 DEF Asking
    <3>2. \A i \in Positions : Asking(w, i) => Asking(w, i)'
      BY <1>1, <2>1 DEF Asking
    <3>3. Lost(w) => Lost(w)'
      BY <1>1, <2>1 DEF Lost
    <3>. QED  BY <3>1, <3>2, <3>3, <1>1, <1>3, <1>5 DEF Accounted
  <2>. QED  BY <2>2, <2>3, <2>4, <2>5, <1>6 DEF StreamInv, OnlySignalsLeft
<1>. QED  BY <1>7, <1>8

\* The teacher's answer to the request of a consumer is stored in its place.
LEMMA AnsweredKeeps ==
    ASSUME IInv, NEW w \in Workers, NEW c \in Consumers, Answered(w, c)
    PROVE  StreamInv(w)'
<1> DEFINE i == item[w][c]
<1>1. /\ UNCHANGED <<task, queue, stream>>
      /\ consumer[w][c] = "asking" /\ i \in Positions
      /\ consumer'[w][c] = "idle" /\ results'[w][i] = i
      /\ \A d \in Consumers \ {c} :
            consumer'[w][d] = consumer[w][d] /\ item'[w][d] = item[w][d]
      /\ \A k \in Positions \ {i} : results'[w][k] = results[w][k]
  BY DEF Answered, Store, SetConsumer, IInv, TypeOK, sampleVars, streamVars
<1>2. /\ OnlySignalsLeft(w) /\ SignalsLast(w) /\ Accounted(w)
      /\ SignalsAfterAll(w) /\ OwnResults(w)
  BY DEF IInv, StreamInv
<1>3. /\ Returned(w)' <=> Returned(w)
      /\ Lost(w) => Lost(w)'
      /\ \A k : Queued(w, k)' <=> Queued(w, k)
  BY <1>1 DEF Returned, Lost, Queued
<1>4. \A k \in Positions : Asking(w, k) => Asking(w, k)' \/ k = i
  BY <1>1 DEF Asking
<1>5. \A k \in Positions : results'[w][k] \in {results[w][k], k}
  BY <1>1
<1>6. \A k \in Positions : k = i => results'[w][k] = k
  BY <1>1
<1>7. Accounted(w)'
  <2> SUFFICES ASSUME NEW k \in Positions, task[w][k] = "done"
               PROVE  Queued(w, k)' \/ Asking(w, k)' \/ results'[w][k] = k
                        \/ Lost(w)'
    BY <1>1 DEF Accounted
  <2>. QED  BY <1>2, <1>3, <1>4, <1>5, <1>6 DEF Accounted
<1>8. OwnResults(w)'
  BY <1>2, <1>5 DEF OwnResults
<1>9. SignalsLast(w)' /\ OnlySignalsLeft(w)' /\ SignalsAfterAll(w)'
  BY <1>1, <1>2, <1>3 DEF SignalsLast, OnlySignalsLeft, SignalsAfterAll, AllDone
<1>. QED  BY <1>7, <1>8, <1>9 DEF StreamInv

LEMMA ConsumerKeeps ==
    ASSUME IInv, NEW w \in Workers, Consumer(w)
    PROVE  StreamInv(w)'
BY TakeKeeps, AnsweredKeeps DEF Consumer

\* The end signals go behind the requests of all samples.
LEMMA SignalsKeep ==
    ASSUME IInv, NEW w \in Workers, AllDone(w), SendSignals(w, NumConsumers),
           UNCHANGED <<task, consumer, item, results>>
    PROVE  StreamInv(w)'
<1> DEFINE q == queue[w]
           n == NumConsumers
<1>1. /\ q \in Seq(Positions \cup {None}) /\ Len(q) \in Nat /\ n \in Nat
      /\ queue'[w] = q \o Signals(n)
  BY ConsumersExist DEF SendSignals, IInv, TypeOK
<1>2. /\ Len(queue'[w]) = Len(q) + n
      /\ \A k \in 1 .. Len(q) : queue'[w][k] = q[k]
      /\ \A k \in Len(q) + 1 .. Len(q) + n : queue'[w][k] = None
  <2>1. /\ Len(q \o Signals(n)) = Len(q) + n
        /\ \A k \in 1 .. Len(q) : (q \o Signals(n))[k] = q[k]
        /\ \A k \in Len(q) + 1 .. Len(q) + n : (q \o Signals(n))[k] = None
    BY <1>1, SignalEntries, Zenon
  <2>. QED  BY <1>1, <2>1, Zenon
<1>3. /\ OnlySignalsLeft(w) /\ SignalsLast(w) /\ Accounted(w) /\ OwnResults(w)
  BY DEF IInv, StreamInv
<1>4. \A i : Queued(w, i) => Queued(w, i)'
  <2> SUFFICES ASSUME NEW i, NEW k \in 1 .. Len(q), q[k] = i
               PROVE  Queued(w, i)'
    BY DEF Queued
  <2>1. k \in 1 .. Len(queue'[w]) /\ queue'[w][k] = i
    BY <1>1, <1>2
  <2>. QED  BY <2>1 DEF Queued
<1>5. Accounted(w)' /\ OwnResults(w)'
  BY <1>3, <1>4 DEF Accounted, OwnResults, Asking, Lost
<1>6. SignalsAfterAll(w)'
  BY DEF SignalsAfterAll, AllDone
<1>7. \A k \in 1 .. Len(queue'[w]) : k \in 1 .. Len(q) \/ queue'[w][k] = None
  BY <1>1, <1>2
<1>8. SignalsLast(w)'
  <2> SUFFICES ASSUME NEW j \in 1 .. Len(queue'[w]),
                      NEW k \in 1 .. Len(queue'[w]),
                      j < k, queue'[w][j] = None
               PROVE  queue'[w][k] = None
    BY DEF SignalsLast
  <2>1. CASE k \in 1 .. Len(q)
    <3>1. j \in 1 .. Len(q)
      BY <1>1, <2>1
    <3>. QED  BY <2>1, <3>1, <1>2, <1>3 DEF SignalsLast
  <2>. QED  BY <2>1, <1>7
<1>9. OnlySignalsLeft(w)'
  <2>1. Returned(w)' => Returned(w)
    BY DEF Returned
  <2>. QED  BY <2>1, <1>2, <1>3, <1>7 DEF OnlySignalsLeft
<1>. QED  BY <1>5, <1>6, <1>8, <1>9 DEF StreamInv

LEMMA CallKeeps ==
    ASSUME IInv, NEW w \in Workers, Call(w)
    PROVE  StreamInv(w)'
<1> USE DEF consumerVars, streamVars, sampleVars
<1>1. CASE StartDraining(w)
  BY <1>1, SignalsKeep DEF StartDraining
<1>2. CASE Attach(w) \/ Return(w)
  <2>1. UNCHANGED <<task, queue, consumer, item, results, stream>>
    BY <1>2 DEF Attach, Return
  <2>. QED  BY <2>1, NoRequestMoves DEF IInv
<1>3. CASE RegisterStream(w)
  <2>1. UNCHANGED <<task, queue, consumer, item, results>> /\ AllDone(w)
    BY <1>3 DEF RegisterStream
  <2>2. StreamInv(w)
    BY DEF IInv
  <2>. QED  BY <2>1, <2>2 DEF StreamInv, Accounted, OwnResults, SignalsLast,
              SignalsAfterAll, OnlySignalsLeft, Queued, Asking, Lost, Returned,
              AllDone
<1>4. CASE Abandon(w)
  <2>1. /\ task'[w] = Cancelled(task[w])
        /\ UNCHANGED <<queue, consumer, item, results, stream>>
    BY <1>4 DEF Abandon, IInv, TypeOK
  <2>2. \A i \in Positions : task'[w][i] = "done" <=> task[w][i] = "done"
    <3>1. DOMAIN task[w] = Positions
      BY DEF IInv, TypeOK
    <3>. QED  BY <2>1, <3>1 DEF Cancelled, Ended
  <2>. QED  BY <2>1, <2>2, NoRequestMoves DEF IInv
<1>5. CASE Raise(w)
  <2>1. /\ consumer'[w] = Cancelled(consumer[w])
        /\ UNCHANGED <<task, queue, item, results, stream>>
    BY <1>5 DEF Raise, AbandonEnds, IInv, TypeOK
  <2>2. \A c \in Consumers :
            consumer'[w][c] = consumer[w][c] \/ consumer'[w][c] = "cancelled"
    <3>1. DOMAIN consumer[w] = Consumers
      BY DEF IInv, TypeOK
    <3>. QED  BY <2>1, <3>1 DEF Cancelled
  <2>. QED  BY <2>1, <2>2, NoRequestMoves DEF IInv
<1>. QED  BY <1>1, <1>2, <1>3, <1>4, <1>5 DEF Call

LEMMA StreamKeeps ==
    ASSUME IInv, NEW w \in Workers, Stream(w)
    PROVE  StreamInv(w)'
<1> USE DEF consumerVars, sampleVars
<1>1. CASE Finalize(w)
  <2>1. /\ stream[w] = "created" /\ SendSignals(w, NumConsumers)
        /\ UNCHANGED <<task, consumer, item, results>>
    BY <1>1 DEF Finalize, StreamSignals
  <2>2. AllDone(w)
    BY <2>1 DEF IInv, StreamInv, SignalsAfterAll
  <2>. QED  BY <2>1, <2>2, SignalsKeep
<1>2. CASE StreamDone(w)
  <2>1. /\ stream[w] # "none"
        /\ UNCHANGED <<task, queue, consumer, item, results>>
    BY <1>2 DEF StreamDone
  <2>. QED  BY <2>1, NoRequestMoves DEF IInv
<1>3. CASE StreamFails(w)
  <2>1. /\ stream[w] # "none" /\ consumer'[w] = Cancelled(consumer[w])
        /\ UNCHANGED <<task, queue, item, results>>
    BY <1>3 DEF StreamFails, IInv, TypeOK
  <2>2. \A c \in Consumers :
            consumer'[w][c] = consumer[w][c] \/ consumer'[w][c] = "cancelled"
    <3>1. DOMAIN consumer[w] = Consumers
      BY DEF IInv, TypeOK
    <3>. QED  BY <2>1, <3>1 DEF Cancelled
  <2>. QED  BY <2>1, <2>2, NoRequestMoves DEF IInv
<1>. QED  BY <1>1, <1>2, <1>3 DEF Stream

LEMMA FaultKeeps ==
    ASSUME IInv, NEW w \in Workers, Faulty(w)
    PROVE  StreamInv(w)'
<1> USE DEF sampleVars, consumerVars, streamVars, SetTask, SetConsumer
<1>1. CASE \E i \in Positions : GenerationRaises(w, i)
  <2>1. /\ \A i \in Positions : task'[w][i] = "done" <=> task[w][i] = "done"
        /\ UNCHANGED <<queue, consumer, item, results, stream>>
    BY <1>1 DEF GenerationRaises, IInv, TypeOK
  <2>. QED  BY <2>1, NoRequestMoves DEF IInv
<1>2. CASE (\E p \in Prompts : ContextRaises(w, p)) \/ PostprocessRaises(w)
  <2>1. UNCHANGED <<task, queue, consumer, item, results, stream>>
    BY <1>2 DEF ContextRaises, PostprocessRaises
  <2>. QED  BY <2>1, NoRequestMoves DEF IInv
<1>3. CASE \E c \in Consumers : TeacherRaises(w, c)
  <2> PICK c \in Consumers : TeacherRaises(w, c)
    BY <1>3
  <2>1. /\ consumer'[w][c] = "failed"
        /\ \A d \in Consumers \ {c} :
              consumer'[w][d] = consumer[w][d] /\ item'[w][d] = item[w][d]
        /\ UNCHANGED <<task, queue, results, stream>>
    BY DEF TeacherRaises, IInv, TypeOK
  <2>. QED  BY <2>1, NoRequestMoves DEF IInv
<1>. QED  BY <1>1, <1>2, <1>3 DEF Faulty

LEMMA OthersInv ==
    ASSUME IInv, NEW w \in Workers, OthersKeep(w), NEW v \in Workers \ {w}
    PROVE  StreamInv(v)'
BY NoRequestMoves DEF OthersKeep, IInv

-----------------------------------------------------------------------------
\* IInv is inductive: every step of a worker, of its streams and of the caller
\* of generate_sequences keeps each finished sample queued, with the teacher or
\* scored, and the end signals behind the requests.
THEOREM StreamInductive == IInv /\ [Next]_vars => IInv'
<1> SUFFICES ASSUME IInv, [Next]_vars PROVE IInv'
  OBVIOUS
<1>1. TypeOK /\ TypeOK'
  BY TypesKept DEF IInv
<1>2. ASSUME NEW w \in Workers,
             Sample(w) \/ Consumer(w) \/ Call(w) \/ Stream(w) \/ Faulty(w)
      PROVE  \A v \in Workers : StreamInv(v)'
  <2>1. StreamInv(w)'
    BY <1>2, SampleKeeps, ConsumerKeeps, CallKeeps, StreamKeeps, FaultKeeps
  <2>2. \A v \in Workers \ {w} : StreamInv(v)'
    BY <1>1, <1>2, OneWorkerMoves, OthersInv
  <2>. QED  BY <2>1, <2>2
<1>3. CASE Caller \/ UNCHANGED vars
  <2>1. UNCHANGED <<task, queue, consumer, item, results, stream>>
    BY <1>3 DEF Caller, BatchFails, BatchArrives, Resolve, Deliver,
                ResolveFails, Redeem, vars, sampleVars, consumerVars, streamVars
  <2>2. \A v \in Workers : StreamInv(v)'
    BY <2>1, NoRequestMoves DEF IInv
  <2>. QED  BY <1>1, <2>2 DEF IInv
<1>. QED  BY <1>1, <1>2, <1>3 DEF Next, Stop, IInv

\* Every reachable state of the streaming protocol is well typed; in particular
\* a consumer that waits for the teacher holds a request, never an end signal.
THEOREM StreamTypeCorrect == Spec => []TypeOK
<1>1. Init => TypeOK
  BY InitIInv DEF IInv
<1>. QED  BY <1>1, TypesKept, PTL DEF Spec

LEMMA InvNothingMissing == IInv => NothingMissing
<1> SUFFICES ASSUME IInv, NEW w \in Workers, AllReturned(w),
                    NEW i \in Positions
             PROVE  results[w][i] = i
  BY DEF NothingMissing
<1>1. StreamInv(w)
  BY DEF IInv
<1>2. Returned(w) /\ ~Lost(w) /\ ~Asking(w, i)
  BY ConsumersExist DEF AllReturned, Returned, Lost, Asking
<1>3. task[w][i] = "done"
  BY <1>1, <1>2 DEF StreamInv, SignalsAfterAll, AllDone
<1>4. ~Queued(w, i)
  BY <1>1, <1>2, NoneIsNoPosition DEF StreamInv, OnlySignalsLeft, Queued
<1>. QED  BY <1>1, <1>2, <1>3, <1>4 DEF StreamInv, Accounted

\* Once all consumers of a worker have returned, every sample of its chunk has
\* its own scores, so that the "Missing streamed teacher logprob results" error
\* cannot be raised.
THEOREM NoScoreIsMissing == Spec => []NothingMissing
<1>1. Spec => []IInv
  BY InitIInv, StreamInductive, PTL DEF Spec
<1>. QED  BY <1>1, InvNothingMissing, PTL

-----------------------------------------------------------------------------
(* What a call leaves behind when it ends, and what the trainer gets        *)

\* A call goes on when all its samples are done, their contexts with them, and
\* hands its consumers to a stream or waits for them; one that raises without a
\* stream has ended whatever it started.
EndsBehind(w) ==
    /\ \A i \in Positions : task[w][i] = "done" => context[w][Prompt(i)] = "done"
    /\ phase[w] \in {"draining", "postprocess", "returned"} => AllDone(w)
    /\ stream[w] # "none" => mode = "nonblocking" /\ AllDone(w)
    /\ stream[w] # "none" => phase[w] \in {"postprocess", "returned", "raised"}
    /\ phase[w] \in {"postprocess", "returned"} /\ stream[w] = "none" => AllReturned(w)
    /\ stream[w] = "done" => AllReturned(w)
    /\ phase[w] = "abandoning" \/ (phase[w] = "raised" /\ stream[w] = "none") =>
        /\ \A i \in Positions : Ended(task[w][i])
        /\ \A p \in Prompts : Ended(context[w][p])
    /\ phase[w] = "raised" /\ stream[w] = "none" =>
        \A c \in Consumers : Ended(consumer[w][c])

\* The trainer waits, then redeems streams in the order of its rows, then ends.
CallerInv ==
    /\ outcome = "pending" <=> manager # "ended"
    /\ outcome = "pending" => scores = <<>>
    /\ manager = "resolving" => order \in Orders

EndInv == CallerInv /\ \A w \in Workers : EndsBehind(w)

LEMMA PromptsOfPositions == \A i \in Positions : Prompt(i) \in Prompts
BY DEF Prompts

\* A step that leaves what has ended as it is, and the call and its stream
\* where they are.
LEMMA EndsKept ==
    ASSUME NEW w \in Workers, EndsBehind(w), mode' = mode,
           phase'[w] = phase[w], stream'[w] = stream[w],
           \A i \in Positions : Ended(task[w][i]) => task'[w][i] = task[w][i],
           \A i \in Positions : task'[w][i] = "done" =>
                task[w][i] = "done" \/ context'[w][Prompt(i)] = "done",
           \A p \in Prompts : Ended(context[w][p]) => context'[w][p] = context[w][p],
           \A c \in Consumers : Ended(consumer[w][c]) => consumer'[w][c] = consumer[w][c]
    PROVE  EndsBehind(w)'
<1>1. AllDone(w) => AllDone(w)'
  BY DEF AllDone, Ended
<1>2. AllReturned(w) => AllReturned(w)'
  BY DEF AllReturned, Ended
<1>3. \A i \in Positions : task'[w][i] = "done" => context'[w][Prompt(i)] = "done"
  BY PromptsOfPositions DEF EndsBehind, Ended
<1>4. /\ \A i \in Positions : Ended(task[w][i]) => Ended(task'[w][i])
      /\ \A p \in Prompts : Ended(context[w][p]) => Ended(context'[w][p])
      /\ \A c \in Consumers : Ended(consumer[w][c]) => Ended(consumer'[w][c])
  OBVIOUS
<1>. QED  BY <1>1, <1>2, <1>3, <1>4 DEF EndsBehind

LEMMA ModeFixed ==
    ASSUME NEW w \in Workers, Sample(w) \/ Consumer(w) \/ Call(w) \/ Stream(w) \/ Faulty(w)
    PROVE  UNCHANGED callerVars
<1>1. CASE Sample(w)
  BY <1>1 DEF Sample, Generated, Request, NoContext, ContextReady
<1>2. CASE Consumer(w)
  BY <1>2 DEF Consumer, TakeItem, Take, Answered, Store
<1>3. CASE Call(w)
  BY <1>3 DEF Call, StartDraining, Attach, RegisterStream, Abandon, Raise,
              AbandonEnds, Return
<1>4. CASE Stream(w)
  BY <1>4 DEF Stream, Finalize, StreamSignals, StreamDone, StreamFails
<1>5. CASE Faulty(w)
  BY <1>5 DEF Faulty, GenerationRaises, ContextRaises, TeacherRaises,
              PostprocessRaises
<1>. QED  BY <1>1, <1>2, <1>3, <1>4, <1>5

LEMMA CallerFixed ==
    ASSUME UNCHANGED callerVars
    PROVE  /\ mode' = mode /\ outcome' = outcome /\ scores' = scores /\ order' = order
           /\ CallerInv => CallerInv'
BY DEF callerVars, CallerInv, Orders

LEMMA SampleEnds ==
    ASSUME TypeOK, NEW w \in Workers, EndsBehind(w), Sample(w)
    PROVE  EndsBehind(w)'
<1> USE DEF Ended, consumerVars, streamVars, SetTask, TypeOK
<1>1. mode' = mode
  BY ModeFixed, CallerFixed
<1>2. CASE \E i \in Positions : Generated(w, i) \/ Request(w, i) \/ NoContext(w, i)
  <2>1. PICK i \in Positions : Generated(w, i) \/ Request(w, i) \/ NoContext(w, i)
    BY <1>2
  <2>2. /\ UNCHANGED <<phase, context, consumer, stream>>
        /\ task[w][i] \in {"running", "context"}
        /\ \A k \in Positions \ {i} : task'[w][k] = task[w][k]
        /\ task'[w][i] = "done" => context[w][Prompt(i)] = "done"
    BY <2>1 DEF Generated, Request, NoContext
  <2>. QED  BY <1>1, <2>2, EndsKept
<1>3. CASE \E p \in Prompts : ContextReady(w, p)
  <2>1. PICK p \in Prompts : ContextReady(w, p)
    BY <1>3
  <2>2. /\ UNCHANGED <<phase, task, consumer, stream>> /\ context[w][p] = "running"
        /\ \A q \in Prompts \ {p} : context'[w][q] = context[w][q]
    BY <2>1 DEF ContextReady
  <2>. QED  BY <1>1, <2>2, EndsKept
<1>. QED  BY <1>2, <1>3 DEF Sample

LEMMA ConsumerEnds ==
    ASSUME TypeOK, NEW w \in Workers, EndsBehind(w), Consumer(w)
    PROVE  EndsBehind(w)'
<1> USE DEF Ended, sampleVars, streamVars, SetConsumer, TypeOK
<1>1. mode' = mode
  BY ModeFixed, CallerFixed
<1>2. PICK c \in Consumers : TakeItem(w, c) \/ Answered(w, c)
  BY DEF Consumer
<1>3. /\ UNCHANGED <<phase, task, context, stream>>
      /\ consumer[w][c] \in {"idle", "asking"}
      /\ \A d \in Consumers \ {c} : consumer'[w][d] = consumer[w][d]
  BY <1>2 DEF TakeItem, Take, Answered, Store
<1>. QED  BY <1>1, <1>3, EndsKept

LEMMA FaultEnds ==
    ASSUME TypeOK, NEW w \in Workers, EndsBehind(w), Faulty(w)
    PROVE  EndsBehind(w)'
<1> USE DEF Ended, sampleVars, consumerVars, streamVars, SetTask, SetConsumer, SetPhase
<1>1. mode' = mode
  BY ModeFixed, CallerFixed
<1>2. CASE \E i \in Positions : GenerationRaises(w, i)
  <2>1. PICK i \in Positions : GenerationRaises(w, i)
    BY <1>2
  <2>2. /\ UNCHANGED <<phase, context, consumer, stream>> /\ task[w][i] = "running"
        /\ task'[w][i] = "failed"
        /\ \A k \in Positions \ {i} : task'[w][k] = task[w][k]
    BY <2>1 DEF GenerationRaises, TypeOK
  <2>. QED  BY <1>1, <2>2, EndsKept
<1>3. CASE \E p \in Prompts : ContextRaises(w, p)
  <2>1. PICK p \in Prompts : ContextRaises(w, p)
    BY <1>3
  <2>2. /\ UNCHANGED <<phase, task, consumer, stream>> /\ context[w][p] = "running"
        /\ \A q \in Prompts \ {p} : context'[w][q] = context[w][q]
    BY <2>1 DEF ContextRaises, TypeOK
  <2>. QED  BY <1>1, <2>2, EndsKept
<1>4. CASE \E c \in Consumers : TeacherRaises(w, c)
  <2>1. PICK c \in Consumers : TeacherRaises(w, c)
    BY <1>4
  <2>2. /\ UNCHANGED <<phase, task, context, stream>> /\ consumer[w][c] = "asking"
        /\ \A d \in Consumers \ {c} : consumer'[w][d] = consumer[w][d]
    BY <2>1 DEF TeacherRaises, TypeOK
  <2>. QED  BY <1>1, <2>2, EndsKept
<1>5. CASE PostprocessRaises(w)
  <2>1. /\ phase[w] = "postprocess" /\ phase'[w] = "raised"
        /\ UNCHANGED <<task, context, consumer, stream>>
    BY <1>5 DEF PostprocessRaises, TypeOK
  <2>2. AllDone(w) /\ (stream[w] = "none" => AllReturned(w))
    BY <2>1 DEF EndsBehind
  <2>3. \A i \in Positions : Ended(task[w][i])
    BY <2>2 DEF AllDone
  <2>4. \A p \in Prompts : Ended(context[w][p])
    BY <2>2 DEF AllDone, EndsBehind, Prompts
  <2>5. stream[w] = "none" => \A c \in Consumers : Ended(consumer[w][c])
    BY <2>2 DEF AllReturned
  <2>6. (AllDone(w)' <=> AllDone(w)) /\ (AllReturned(w)' <=> AllReturned(w))
    BY <2>1 DEF AllDone, AllReturned
  <2>. HIDE DEF Ended
  <2>. QED  BY <1>1, <2>1, <2>2, <2>3, <2>4, <2>5, <2>6 DEF EndsBehind
<1>. QED  BY <1>2, <1>3, <1>4, <1>5 DEF Faulty

LEMMA StreamEnds ==
    ASSUME TypeOK, NEW w \in Workers, EndsBehind(w), Stream(w)
    PROVE  EndsBehind(w)'
<1>1. mode' = mode
  BY ModeFixed, CallerFixed
<1>2. /\ stream[w] \in {"created", "gathering"} /\ UNCHANGED <<phase, task, context>>
      /\ stream'[w] \in {"gathering", "done", "failed"}
      /\ stream'[w] = "done" => AllReturned(w)
      /\ \A c \in Consumers : Ended(consumer[w][c]) => consumer'[w][c] = consumer[w][c]
  <2> USE DEF sampleVars, consumerVars, SetStream, TypeOK
  <2>1. CASE Finalize(w)
    BY <2>1 DEF Finalize, StreamSignals
  <2>2. CASE StreamDone(w)
    BY <2>2 DEF StreamDone
  <2>3. CASE StreamFails(w)
    <3>1. \A c \in Consumers :
              Ended(consumer[w][c]) => Cancelled(consumer[w])[c] = consumer[w][c]
      BY DEF Cancelled
    <3>2. consumer'[w] = Cancelled(consumer[w])
      BY <2>3 DEF StreamFails
    <3>3. /\ stream[w] = "gathering" /\ stream'[w] = "failed"
          /\ UNCHANGED <<phase, task, context>>
      BY <2>3 DEF StreamFails
    <3>. QED  BY <3>1, <3>2, <3>3
  <2>. QED  BY <2>1, <2>2, <2>3 DEF Stream
<1>3. AllDone(w)' <=> AllDone(w)
  BY <1>2 DEF AllDone
<1>4. AllReturned(w) => AllReturned(w)'
  BY <1>2 DEF AllReturned, Ended
<1>5. phase[w] # "abandoning" /\ stream[w] # "none" /\ stream'[w] # "none"
  BY <1>2 DEF EndsBehind
<1>. QED  BY <1>1, <1>2, <1>3, <1>4, <1>5 DEF EndsBehind

LEMMA CallEnds ==
    ASSUME TypeOK, NEW w \in Workers, EndsBehind(w), Call(w)
    PROVE  EndsBehind(w)'
<1> USE DEF sampleVars, consumerVars, streamVars, SetPhase
<1>1. mode' = mode
  BY ModeFixed, CallerFixed
<1>2. CASE StartDraining(w) \/ Attach(w) \/ Return(w)
  <2>1. /\ UNCHANGED <<task, context, consumer, stream>>
        /\ \/ phase[w] = "generating" /\ AllDone(w) /\ phase'[w] = "draining"
           \/ phase[w] = "draining" /\ AllReturned(w) /\ phase'[w] = "postprocess"
           \/ phase[w] = "postprocess" /\ phase'[w] = "returned"
    BY <1>2 DEF StartDraining, Attach, Return, TypeOK
  <2>2. (AllDone(w)' <=> AllDone(w)) /\ (AllReturned(w)' <=> AllReturned(w))
    BY <2>1 DEF AllDone, AllReturned
  <2>. QED  BY <1>1, <2>1, <2>2 DEF EndsBehind
<1>3. CASE RegisterStream(w)
  <2>1. /\ UNCHANGED <<task, context, consumer>> /\ mode = "nonblocking" /\ AllDone(w)
        /\ phase'[w] = "postprocess" /\ stream'[w] = "created"
    BY <1>3 DEF RegisterStream, TypeOK
  <2>2. (AllDone(w)' <=> AllDone(w)) /\ (AllReturned(w)' <=> AllReturned(w))
    BY <2>1 DEF AllDone, AllReturned
  <2>. QED  BY <1>1, <2>1, <2>2 DEF EndsBehind
<1>4. CASE Abandon(w)
  <2>1. /\ phase[w] \in {"generating", "draining"} /\ phase'[w] = "abandoning"
        /\ task'[w] = Cancelled(task[w]) /\ context'[w] = Cancelled(context[w])
        /\ stream' = stream
    BY <1>4 DEF Abandon, CallFails, TypeOK
  <2>2. stream[w] = "none"
    BY <2>1 DEF EndsBehind
  <2>3. DOMAIN task[w] = Positions /\ DOMAIN context[w] = Prompts
    BY DEF TypeOK
  <2>4. /\ \A i \in Positions : Ended(task'[w][i])
        /\ \A p \in Prompts : Ended(context'[w][p])
    BY <2>1, <2>3 DEF Cancelled, Ended
  <2>5. \A i \in Positions : task'[w][i] = "done" => context'[w][Prompt(i)] = "done"
    BY <2>1, <2>3, PromptsOfPositions DEF Cancelled, Ended, EndsBehind
  <2>. QED  BY <2>1, <2>2, <2>4, <2>5 DEF EndsBehind
<1>5. CASE Raise(w)
  <2>1. /\ phase[w] = "abandoning" /\ phase'[w] = "raised"
        /\ consumer'[w] = Cancelled(consumer[w]) /\ UNCHANGED <<task, context, stream>>
    BY <1>5 DEF Raise, AbandonEnds, TypeOK
  <2>2. DOMAIN consumer[w] = Consumers /\ stream[w] = "none"
    BY <2>1 DEF TypeOK, EndsBehind
  <2>3. \A c \in Consumers : Ended(consumer'[w][c])
    BY <2>1, <2>2 DEF Cancelled, Ended
  <2>. QED  BY <2>1, <2>2, <2>3 DEF EndsBehind
<1>. QED  BY <1>2, <1>3, <1>4, <1>5 DEF Call

\* The rows are numbered by worker and position.
LEMMA RowAt ==
    ASSUME NEW q \in Nat, NEW i \in Nat
    PROVE  Row(q + 1, i + 1) = q * Chunk + (i + 1)
<1>1. q + 1 - 1 = q
  OBVIOUS
<1>. QED  BY <1>1 DEF Row

LEMMA OwnRow ==
    ASSUME NEW r \in Rows
    PROVE  Owner(r) \in Workers /\ Pos(r) \in Positions /\ Row(Owner(r), Pos(r)) = r
<1> DEFINE q == (r - 1) \div Chunk
           m == (r - 1) % Chunk
<1>1. /\ Chunk \in Nat \ {0} /\ NumWorkers \in Nat \ {0} /\ r - 1 \in Nat
      /\ r - 1 < NumWorkers * Chunk /\ NumWorkers * Chunk \in Nat /\ r \in Nat
  BY Assumption DEF Assumption, Rows
<1>2. q \in Nat /\ m \in 0 .. Chunk - 1 /\ r - 1 = q * Chunk + m
  BY <1>1
<1>3. Owner(r) = q + 1 /\ Pos(r) = m + 1
  BY DEF Owner, Pos
<1> HIDE DEF q, m
<1>4. q < NumWorkers
  <2> SUFFICES ASSUME NumWorkers <= q PROVE FALSE
    BY <1>1, <1>2
  <2>1. NumWorkers * Chunk <= q * Chunk /\ q * Chunk \in Nat
    BY <1>1, <1>2
  <2>. QED  BY <1>1, <1>2, <2>1
<1>5. Row(q + 1, m + 1) = q * Chunk + (m + 1)
  BY <1>2, RowAt
<1>. QED  BY <1>1, <1>2, <1>3, <1>4, <1>5 DEF Workers, Positions

\* The scores the manager concatenates are those of the batch as submitted.
LEMMA ConcatIsOwn ==
    ASSUME IInv, \A w \in Workers : AllReturned(w)
    PROVE  \A r \in Rows : Concat[r] = r
<1>1. \A w \in Workers, i \in Positions : results[w][i] = i
  BY InvNothingMissing DEF NothingMissing
<1>. QED  BY <1>1, OwnRow DEF Concat

LEMMA EndInit == Init => EndInv
<1> SUFFICES ASSUME Init PROVE EndInv
  OBVIOUS
<1>1. CallerInv
  BY DEF Init, CallerInv
<1>2. \A w \in Workers : EndsBehind(w)
  <2> TAKE w \in Workers
  <2>1. /\ \A i \in Positions : task[w][i] = "running"
        /\ phase[w] = "generating" /\ stream[w] = "none"
    BY DEF Init
  <2>. QED  BY <2>1 DEF EndsBehind
<1>. QED  BY <1>1, <1>2 DEF EndInv

LEMMA EndOthers ==
    ASSUME NEW v \in Workers, EndsBehind(v), mode' = mode,
           task'[v] = task[v], consumer'[v] = consumer[v], stream'[v] = stream[v],
           context'[v] = context[v], phase'[v] = phase[v]
    PROVE  EndsBehind(v)'
BY EndsKept

LEMMA EndStep ==
    ASSUME TypeOK, EndInv, [Next]_vars PROVE EndInv'
<1>1. ASSUME NEW w \in Workers,
             Sample(w) \/ Consumer(w) \/ Call(w) \/ Stream(w) \/ Faulty(w)
      PROVE  EndInv'
  <2>1. EndsBehind(w)'
    BY <1>1, SampleEnds, ConsumerEnds, CallEnds, StreamEnds, FaultEnds DEF EndInv
  <2>2. mode' = mode /\ CallerInv'
    BY <1>1, ModeFixed, CallerFixed DEF EndInv
  <2>3. \A v \in Workers \ {w} : EndsBehind(v)'
    <3>1. OthersKeep(w)
      BY <1>1, OneWorkerMoves
    <3>. QED  BY <2>2, <3>1, EndOthers DEF EndInv, OthersKeep
  <2>. QED  BY <2>1, <2>2, <2>3 DEF EndInv
<1>2. CASE Caller \/ UNCHANGED vars
  <2>1. UNCHANGED <<mode, phase, task, context, consumer, stream>>
    BY <1>2 DEF Caller, BatchFails, BatchArrives, Resolve, Deliver,
                ResolveFails, Redeem, vars, sampleVars, consumerVars, streamVars, callerVars
  <2>2. \A v \in Workers : EndsBehind(v)'
    BY <2>1, EndOthers DEF EndInv
  <2>3. CallerInv'
    <3> USE DEF EndInv, CallerInv
    <3>1. CASE BatchFails    BY <3>1 DEF BatchFails
    <3>2. CASE BatchArrives  BY <3>2 DEF BatchArrives, Orders
    <3>3. CASE Resolve       BY <3>3 DEF Resolve, Deliver
    <3>4. CASE ResolveFails  BY <3>4 DEF ResolveFails
    <3>5. CASE \E w \in Workers : Redeem(w)
      BY <3>5 DEF Redeem, Orders
    <3>6. CASE UNCHANGED vars
      BY <3>6 DEF vars, callerVars, Orders
    <3>. QED  BY <1>2, <3>1, <3>2, <3>3, <3>4, <3>5, <3>6 DEF Caller
  <2>. QED  BY <2>2, <2>3 DEF EndInv
<1>. QED  BY <1>1, <1>2 DEF Next, Stop

\* What a call has ended when it returns or raises, in every reachable state.
THEOREM StreamEndings == Spec => [](IInv /\ EndInv)
<1>1. IInv /\ EndInv /\ [Next]_vars => IInv' /\ EndInv'
  BY StreamInductive, EndStep DEF IInv
<1>. QED  BY <1>1, InitIInv, EndInit, PTL DEF Spec

\* Whatever raised, and wherever its samples, contexts and consumers were: a
\* generate_sequences that raises without having registered a stream has none
\* of them still running.
THEOREM NothingIsLeaked == Spec => []CleanedUp
<1>1. EndInv => CleanedUp
  BY DEF EndInv, EndsBehind, CleanedUp
<1>. QED  BY <1>1, StreamEndings, PTL

-----------------------------------------------------------------------------
(* The promise to the trainer: each step is one of TeacherScores or none    *)

LEMMA DeliverySimulated ==
    ASSUME IInv, outcome = "pending", scores = <<>>, \A w \in Workers : AllReturned(w),
           outcome' = "scored", order' \in Orders,
           scores' = [k \in Rows |-> Concat[order'[k]]]
    PROVE  Promise!Deliver
<1>1. order' \in [Rows -> Rows]
  BY DEF Orders
<1>2. scores' = order'
  BY <1>1, ConcatIsOwn
<1>3. order' \in Promise!Orders
  BY DEF Orders, Promise!Orders
<1>. QED  BY <1>2, <1>3 DEF Promise!Deliver

LEMMA StepSimulated ==
    ASSUME IInv, EndInv, [Next]_vars PROVE [Promise!Next]_(Promise!vars)
<1>1. ASSUME UNCHANGED callerVars PROVE UNCHANGED Promise!vars
  BY <1>1 DEF callerVars, Promise!vars
<1>2. ASSUME NEW w \in Workers,
             Sample(w) \/ Consumer(w) \/ Call(w) \/ Stream(w) \/ Faulty(w)
      PROVE  UNCHANGED Promise!vars
  BY <1>1, <1>2, ModeFixed
<1>3. CASE UNCHANGED vars
  BY <1>1, <1>3 DEF vars
<1>4. CASE BatchFails \/ ResolveFails
  <2>1. /\ outcome = "pending" /\ outcome' = "failed" /\ scores' = scores
    BY <1>4 DEF BatchFails, ResolveFails, EndInv, CallerInv
  <2>. QED  BY <2>1 DEF Promise!Next, Promise!Fail
<1>5. CASE BatchArrives
  <2>1. /\ manager = "waiting" /\ outcome = "pending" /\ scores = <<>> /\ order' \in Orders
        /\ \A w \in Workers : phase[w] = "returned"
    BY <1>5 DEF BatchArrives, EndInv, CallerInv
  <2>2. CASE mode = "nonblocking" /\ UNCHANGED <<scores, outcome>>
    BY <2>1, <2>2 DEF Promise!vars
  <2>3. CASE /\ mode = "blocking" /\ outcome' = "scored"
             /\ scores' = [k \in Rows |-> Concat[order'[k]]]
    <3>1. \A w \in Workers : AllReturned(w)
      BY <2>1, <2>3 DEF EndInv, EndsBehind
    <3>. QED  BY <2>1, <2>3, <3>1, DeliverySimulated DEF Promise!Next
  <2>. QED  BY <1>5, <2>2, <2>3 DEF BatchArrives
<1>6. CASE Resolve
  <2>1. /\ outcome = "pending" /\ scores = <<>> /\ outcome' = "scored" /\ order \in Orders
        /\ scores' = [k \in Rows |-> Concat[order[k]]] /\ order' = order
        /\ \A w \in Workers : stream[w] = "done"
    BY <1>6 DEF Resolve, Deliver, EndInv, CallerInv
  <2>2. \A w \in Workers : AllReturned(w)
    BY <2>1 DEF EndInv, EndsBehind
  <2>. QED  BY <2>1, <2>2, DeliverySimulated DEF Promise!Next
<1>7. CASE \E w \in Workers : Redeem(w)
  BY <1>7 DEF Redeem, Promise!vars
<1>. QED  BY <1>2, <1>3, <1>4, <1>5, <1>6, <1>7 DEF Next, Stop, Caller

\* The streaming protocol implements TeacherScores: the trainer gets one batch,
\* in some order of all its samples, each row with the scores of its own sample,
\* or an error, for any number of workers and samples, in both modes and
\* whatever fails.
THEOREM ScoresAreOwn == Spec => Promise!Init /\ [][Promise!Next]_(Promise!vars)
<1>1. Init => Promise!Init
  BY DEF Init, Promise!Init
<1>2. IInv /\ EndInv /\ [Next]_vars => [Promise!Next]_(Promise!vars)
  BY StepSimulated
<1>. QED  BY <1>1, <1>2, StreamEndings, PTL DEF Spec
=============================================================================
