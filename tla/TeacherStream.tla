---------------------------- MODULE TeacherStream ----------------------------
(***************************************************************************)
(* Streaming of teacher log-probs in                                       *)
(* src/verl/experimental/agent_loop/agent_loop.py: every AgentLoopWorker   *)
(* runs one task per sample of its chunk, and while samples are still      *)
(* being generated its consumers send finished ones to the teacher.  The   *)
(* worker either waits for the scores ("blocking") or returns a stream id  *)
(* the trainer redeems later ("nonblocking").                              *)
(*                                                                         *)
(* A teacher's answer is represented by the sample it belongs to.  An      *)
(* action is the code between two awaits that can suspend; put on the      *)
(* unbounded queue never does.                                             *)
(***************************************************************************)
EXTENDS Integers, Sequences

CONSTANTS
    NumWorkers,    \* agent_loop_workers
    Chunk,         \* samples per worker
    Copies,        \* samples that share a prompt (a uid), hence a crop context
    Configured,    \* the configured streaming concurrency
    Modes,         \* the streaming modes
    MaxFaults      \* bound: calls that may raise

ASSUME Assumption ==
    /\ NumWorkers \in Nat \ {0} /\ Chunk \in Nat \ {0} /\ Copies \in Nat \ {0}
    /\ Configured \in Nat \ {0} /\ MaxFaults \in Nat
    /\ Modes \subseteq {"blocking", "nonblocking"}

Workers   == 1 .. NumWorkers
Positions == 1 .. Chunk
None      == 0      \* a result not there yet; in the queue, the end signal

\* _teacher_logprob_streaming_concurrency
NumConsumers == IF Configured < Chunk THEN Configured ELSE Chunk
Consumers    == 1 .. NumConsumers

\* The cache key of the sample's shared crop context.
Prompt(i) == (i - 1) \div Copies
Prompts   == {Prompt(i) : i \in Positions}

Rows     == 1 .. NumWorkers * Chunk
Row(w, i) == (w - 1) * Chunk + i
Owner(r) == (r - 1) \div Chunk + 1
Pos(r)   == ((r - 1) % Chunk) + 1
Orders   == {f \in [Rows -> Rows] : \A r \in Rows : \E k \in Rows : f[k] = r}

VARIABLES
    mode,        \* teacher_logprob_streaming_mode of this batch
    phase,       \* per worker: where generate_sequences is
    task,        \* per sample: where _run_agent_loop is
    context,     \* per prompt: the shared crop context task
    queue,       \* per worker: teacher_logprob_queue
    consumer,    \* per consumer: where _consume_teacher_logprob_requests is
    item,        \* ... and the sample it sent to the teacher
    results,     \* per worker: teacher_logprob_results
    stream,      \* per worker: where _finalize_teacher_logprob_stream is
    pending,     \* workers with an entry in _pending_teacher_logprob_streams
    manager,     \* where the caller of AgentLoopManager.generate_sequences is
    order,       \* stream_indices: the sample in each row after balance_batch
    redeemed,    \* workers whose get_teacher_logprob_stream has started
    scores,      \* the sample whose scores each row of the batch got
    outcome,     \* "pending", "scored" or "failed"
    faults       \* calls that raised so far

sampleVars   == <<task, context>>
consumerVars == <<consumer, item, results>>
streamVars   == <<stream, pending>>
callerVars   == <<mode, manager, order, redeemed, scores, outcome>>
vars == <<phase, sampleVars, queue, consumerVars, streamVars, callerVars, faults>>

Init ==
    /\ mode \in Modes
    /\ phase = [w \in Workers |-> "generating"]
    /\ task = [w \in Workers |-> [i \in Positions |-> "running"]]
    /\ context = [w \in Workers |-> [p \in Prompts |-> "running"]]
    /\ queue = [w \in Workers |-> <<>>]
    /\ consumer = [w \in Workers |-> [c \in Consumers |-> "idle"]]
    /\ item = [w \in Workers |-> [c \in Consumers |-> None]]
    /\ results = [w \in Workers |-> [i \in Positions |-> None]]
    /\ stream = [w \in Workers |-> "none"] /\ pending = {}
    /\ manager = "waiting" /\ order = <<>> /\ redeemed = {}
    /\ scores = <<>> /\ outcome = "pending"
    /\ faults = 0

\* A call to the outside raises.
Fault == faults < MaxFaults /\ faults' = faults + 1

-----------------------------------------------------------------------------
\* _run_agent_loop, _agent_loop_postprocess

SetTask(w, i, state) == task' = [task EXCEPT ![w][i] = state]

Generated(w, i) ==
    /\ task[w][i] = "running"
    /\ SetTask(w, i, "context")
    /\ UNCHANGED <<phase, context, queue, consumerVars, streamVars, callerVars,
                   faults>>

GenerationRaises(w, i) ==
    /\ task[w][i] = "running" /\ Fault
    /\ SetTask(w, i, "failed")
    /\ UNCHANGED <<phase, context, queue, consumerVars, streamVars, callerVars>>

ContextReady(w, p) ==
    /\ context[w][p] = "running"
    /\ context' = [context EXCEPT ![w][p] = "done"]
    /\ UNCHANGED <<phase, task, queue, consumerVars, streamVars, callerVars,
                   faults>>

ContextRaises(w, p) ==
    /\ context[w][p] = "running" /\ Fault
    /\ context' = [context EXCEPT ![w][p] = "failed"]
    /\ UNCHANGED <<phase, task, queue, consumerVars, streamVars, callerVars>>

\* The request is queued for the teacher and the sample is done.
Request(w, i) ==
    /\ task[w][i] = "context" /\ context[w][Prompt(i)] = "done"
    /\ SetTask(w, i, "done")
    /\ queue' = [queue EXCEPT ![w] = Append(@, i)]
    /\ UNCHANGED <<phase, context, consumerVars, streamVars, callerVars, faults>>

NoContext(w, i) ==
    /\ task[w][i] = "context" /\ context[w][Prompt(i)] = "failed"
    /\ SetTask(w, i, "failed")
    /\ UNCHANGED <<phase, context, queue, consumerVars, streamVars, callerVars,
                   faults>>

-----------------------------------------------------------------------------
\* _consume_teacher_logprob_requests

SetConsumer(w, c, state) == consumer' = [consumer EXCEPT ![w][c] = state]

Take(w, c, end) ==
    /\ consumer[w][c] = "idle" /\ queue[w] # <<>>
    /\ queue' = [queue EXCEPT ![w] = Tail(@)]
    /\ \/ end /\ SetConsumer(w, c, "returned") /\ UNCHANGED item
       \/ /\ ~end /\ SetConsumer(w, c, "asking")
          /\ item' = [item EXCEPT ![w][c] = Head(queue[w])]
    /\ UNCHANGED <<phase, sampleVars, results, streamVars, callerVars, faults>>

MutEndAsked(w, c) == Take(w, c, FALSE)
TakeItem(w, c)    == Take(w, c, Head(queue[w]) = None)

Store(w, c, slot) ==
    /\ consumer[w][c] = "asking"
    /\ SetConsumer(w, c, "idle")
    /\ item' = [item EXCEPT ![w][c] = None]
    /\ results' = [results EXCEPT ![w][slot] = item[w][c]]
    /\ UNCHANGED <<phase, sampleVars, queue, streamVars, callerVars, faults>>

Answered(w, c) == Store(w, c, item[w][c])

TeacherRaises(w, c) ==
    /\ consumer[w][c] = "asking" /\ Fault
    /\ SetConsumer(w, c, "failed")
    /\ item' = [item EXCEPT ![w][c] = None]
    /\ UNCHANGED <<phase, sampleVars, queue, results, streamVars, callerVars>>

-----------------------------------------------------------------------------
\* generate_sequences of a worker

Ended(state)      == state \in {"done", "returned", "failed", "cancelled"}
MutSomeDone(w)    == \E i \in Positions : task[w][i] = "done"
AllDone(w)        == \A i \in Positions : task[w][i] = "done"
AllReturned(w)    == \A c \in Consumers : consumer[w][c] = "returned"
SomeFailed(w)     == \E c \in Consumers : consumer[w][c] = "failed"
Missing(w)        == \E i \in Positions : results[w][i] = None
Signals(n)        == [k \in 1 .. n |-> None]
Cancelled(states) ==
    [k \in DOMAIN states |-> IF Ended(states[k]) THEN states[k] ELSE "cancelled"]

SetPhase(w, state) == phase' = [phase EXCEPT ![w] = state]

SendSignals(w, n) == queue' = [queue EXCEPT ![w] = @ \o Signals(n)]

\* gather(*tasks) returned and the mode is blocking.
StartDraining(w) ==
    /\ mode = "blocking" /\ phase[w] = "generating" /\ AllDone(w)
    /\ SetPhase(w, "draining")
    /\ SendSignals(w, NumConsumers)
    /\ UNCHANGED <<sampleVars, consumerVars, streamVars, callerVars, faults>>

\* gather(*consumers) returned: attach the results.
Attach(w) ==
    /\ phase[w] = "draining" /\ AllReturned(w) /\ ~Missing(w)
    /\ SetPhase(w, "postprocess")
    /\ UNCHANGED <<sampleVars, queue, consumerVars, streamVars, callerVars,
                   faults>>

\* gather(*tasks) returned and the mode is nonblocking.
RegisterStream(w) ==
    /\ mode = "nonblocking" /\ phase[w] = "generating" /\ AllDone(w)
    /\ SetPhase(w, "postprocess")
    /\ stream' = [stream EXCEPT ![w] = "created"]
    /\ pending' = pending \cup {w}
    /\ UNCHANGED <<sampleVars, queue, consumerVars, callerVars, faults>>

\* A gather raised, or the attached results are incomplete.
CallFails(w) ==
    CASE phase[w] = "generating" -> \E i \in Positions : task[w][i] = "failed"
      [] phase[w] = "draining"   -> SomeFailed(w) \/ (AllReturned(w) /\ Missing(w))
      [] OTHER                   -> FALSE

\* The except branch: cancel the samples and their contexts, and wait ...
Abandon(w) ==
    /\ CallFails(w)
    /\ SetPhase(w, "abandoning")
    /\ task' = [task EXCEPT ![w] = Cancelled(@)]
    /\ context' = [context EXCEPT ![w] = Cancelled(@)]
    /\ UNCHANGED <<queue, consumerVars, streamVars, callerVars, faults>>

\* ... then cancel the consumers, wait and raise.
AbandonEnds(w, left) ==
    /\ phase[w] = "abandoning"
    /\ SetPhase(w, "raised")
    /\ consumer' = [consumer EXCEPT ![w] = left]
    /\ UNCHANGED <<sampleVars, queue, item, results, streamVars, callerVars,
                   faults>>

MutConsumersKept(w) == AbandonEnds(w, consumer[w])
Raise(w)            == AbandonEnds(w, Cancelled(consumer[w]))

Return(w) ==
    /\ phase[w] = "postprocess"
    /\ SetPhase(w, "returned")
    /\ UNCHANGED <<sampleVars, queue, consumerVars, streamVars, callerVars,
                   faults>>

PostprocessRaises(w) ==
    /\ phase[w] = "postprocess" /\ Fault
    /\ SetPhase(w, "raised")
    /\ UNCHANGED <<sampleVars, queue, consumerVars, streamVars, callerVars>>

-----------------------------------------------------------------------------
\* _finalize_teacher_logprob_stream

SetStream(w, state) == stream' = [stream EXCEPT ![w] = state]

StreamSignals(w, n) ==
    /\ stream[w] = "created"
    /\ SetStream(w, "gathering")
    /\ SendSignals(w, n)
    /\ UNCHANGED <<phase, sampleVars, consumerVars, pending, callerVars, faults>>

MutOneSignal(w) == StreamSignals(w, 1)
Finalize(w)     == StreamSignals(w, NumConsumers)

StreamDone(w) ==
    /\ stream[w] = "gathering" /\ AllReturned(w)
    /\ SetStream(w, IF Missing(w) THEN "failed" ELSE "done")
    /\ UNCHANGED <<phase, sampleVars, queue, consumerVars, pending, callerVars,
                   faults>>

StreamFails(w) ==
    /\ stream[w] = "gathering" /\ SomeFailed(w)
    /\ SetStream(w, "failed")
    /\ consumer' = [consumer EXCEPT ![w] = Cancelled(@)]
    /\ UNCHANGED <<phase, sampleVars, queue, item, results, pending, callerVars,
                   faults>>

-----------------------------------------------------------------------------
\* AgentLoopManager and the trainer

\* DataProto.concat of the workers' results, in the order of the workers.
Concat == [r \in Rows |-> Row(Owner(r), results[Owner(r)][Pos(r)])]

\* gather(worker.generate_sequences) raised.
BatchFails ==
    /\ manager = "waiting" /\ \E w \in Workers : phase[w] = "raised"
    /\ manager' = "ended" /\ outcome' = "failed"
    /\ UNCHANGED <<mode, phase, sampleVars, queue, consumerVars, streamVars,
                   order, redeemed, scores, faults>>

\* balance_batch permutes the rows, and with them teacher_logprob_stream_index
\* or, in blocking mode, the scores themselves.
BatchArrives ==
    /\ manager = "waiting" /\ \A w \in Workers : phase[w] = "returned"
    /\ order' \in Orders
    /\ \/ /\ mode = "nonblocking" /\ manager' = "resolving"
          /\ UNCHANGED <<scores, outcome>>
       \/ /\ mode = "blocking" /\ manager' = "ended" /\ outcome' = "scored"
          /\ scores' = [k \in Rows |-> Concat[order'[k]]]
    /\ UNCHANGED <<mode, phase, sampleVars, queue, consumerVars, streamVars,
                   redeemed, faults>>

\* get_teacher_logprob_stream: the stream id is good for one call.
Redeem(w) ==
    /\ manager = "resolving" /\ w \in pending \ redeemed
    /\ pending' = pending \ {w}
    /\ redeemed' = redeemed \cup {w}
    /\ UNCHANGED <<mode, phase, sampleVars, queue, consumerVars, stream,
                   manager, order, scores, outcome, faults>>

\* resolve_teacher_logprob_streams: concat and reorder.
Deliver(rows) ==
    /\ manager = "resolving" /\ redeemed = Workers
    /\ \A w \in Workers : stream[w] = "done"
    /\ manager' = "ended" /\ outcome' = "scored"
    /\ scores' = [k \in Rows |-> Concat[rows[k]]]
    /\ UNCHANGED <<mode, phase, sampleVars, queue, consumerVars, streamVars,
                   order, redeemed, faults>>

MutNotReordered == Deliver([r \in Rows |-> r])
Resolve         == Deliver(order)

ResolveFails ==
    /\ manager = "resolving" /\ \E w \in redeemed : stream[w] = "failed"
    /\ manager' = "ended" /\ outcome' = "failed"
    /\ UNCHANGED <<mode, phase, sampleVars, queue, consumerVars, streamVars,
                   order, redeemed, scores, faults>>

-----------------------------------------------------------------------------
Sample(w) ==
    \/ \E i \in Positions : Generated(w, i) \/ Request(w, i) \/ NoContext(w, i)
    \/ \E p \in Prompts : ContextReady(w, p)

Consumer(w) == \E c \in Consumers : TakeItem(w, c) \/ Answered(w, c)

Call(w) ==
    \/ StartDraining(w) \/ Attach(w) \/ RegisterStream(w)
    \/ Abandon(w) \/ Raise(w) \/ Return(w)

Stream(w) == Finalize(w) \/ StreamDone(w) \/ StreamFails(w)

Faulty(w) ==
    \/ \E i \in Positions : GenerationRaises(w, i)
    \/ \E p \in Prompts : ContextRaises(w, p)
    \/ \E c \in Consumers : TeacherRaises(w, c)
    \/ PostprocessRaises(w)

Caller ==
    \/ BatchFails \/ BatchArrives \/ Resolve \/ ResolveFails
    \/ \E w \in Workers : Redeem(w)

\* Nothing runs any more.
Quiet ==
    /\ outcome # "pending"
    /\ \A w \in Workers :
        /\ phase[w] \in {"returned", "raised"}
        /\ stream[w] \in {"none", "done", "failed"}
        /\ \A c \in Consumers : Ended(consumer[w][c])
        /\ \A i \in Positions : Ended(task[w][i])
        /\ \A p \in Prompts : Ended(context[w][p])
Stop == Quiet /\ UNCHANGED vars

Next ==
    \/ \E w \in Workers :
        Sample(w) \/ Consumer(w) \/ Call(w) \/ Stream(w) \/ Faulty(w)
    \/ Caller \/ Stop

Spec == Init /\ [][Next]_vars

\* The event loop runs every ready coroutine; generations, context preparation
\* and teacher calls end.
Fairness ==
    /\ \A w \in Workers :
        /\ \A i \in Positions :
            WF_vars(Generated(w, i) \/ Request(w, i) \/ NoContext(w, i))
        /\ \A p \in Prompts : WF_vars(ContextReady(w, p))
        /\ \A c \in Consumers : WF_vars(TakeItem(w, c) \/ Answered(w, c))
        /\ WF_vars(Call(w)) /\ WF_vars(Stream(w))
    /\ WF_vars(Caller)

FairSpec == Spec /\ Fairness

-----------------------------------------------------------------------------
\* Properties

TypeOK ==
    /\ mode \in {"blocking", "nonblocking"}
    /\ phase \in [Workers -> {"generating", "draining", "postprocess",
                              "abandoning", "returned", "raised"}]
    /\ task \in [Workers -> [Positions ->
                    {"running", "context", "done", "failed", "cancelled"}]]
    /\ context \in [Workers -> [Prompts ->
                    {"running", "done", "failed", "cancelled"}]]
    /\ queue \in [Workers -> Seq(Positions \cup {None})]
    /\ consumer \in [Workers -> [Consumers ->
                    {"idle", "asking", "returned", "failed", "cancelled"}]]
    /\ item \in [Workers -> [Consumers -> Positions \cup {None}]]
    /\ \A w \in Workers, c \in Consumers :
        consumer[w][c] = "asking" => item[w][c] \in Positions
    /\ results \in [Workers -> [Positions -> Positions \cup {None}]]
    /\ stream \in [Workers -> {"none", "created", "gathering", "done", "failed"}]
    /\ pending \subseteq Workers /\ redeemed \subseteq Workers
    /\ manager \in {"waiting", "resolving", "ended"}
    /\ outcome \in {"pending", "scored", "failed"}
    /\ faults \in Nat

\* When every consumer of a worker has returned, every sample of its chunk has
\* its own result: no request is left behind an end signal, none was overtaken
\* by one, and the "Missing streamed teacher logprob results" error of
\* _finalize_teacher_logprob_stream cannot be raised.
NothingMissing ==
    \A w \in Workers : AllReturned(w) =>
        \A i \in Positions : results[w][i] = i

\* The inductive invariant behind NothingMissing, for one worker: a finished
\* sample is queued, with the teacher or scored, unless a consumer is lost ...
Queued(w, i) == \E k \in 1 .. Len(queue[w]) : queue[w][k] = i
Asking(w, i) == \E c \in Consumers : consumer[w][c] = "asking" /\ item[w][c] = i
Lost(w)      == \E c \in Consumers : consumer[w][c] \in {"failed", "cancelled"}
Returned(w)  == \E c \in Consumers : consumer[w][c] = "returned"

Accounted(w) == \A i \in Positions : task[w][i] = "done" =>
    Queued(w, i) \/ Asking(w, i) \/ results[w][i] = i \/ Lost(w)

OwnResults(w) == \A i \in Positions : results[w][i] \in {None, i}

\* ... end signals are sent after all samples are queued, stay behind them, and
\* the first consumer to take one leaves no request in the queue.
SignalsLast(w) == \A j, k \in 1 .. Len(queue[w]) :
    j < k /\ queue[w][j] = None => queue[w][k] = None

SignalsAfterAll(w) ==
    Queued(w, None) \/ Returned(w) \/ stream[w] # "none" => AllDone(w)

OnlySignalsLeft(w) ==
    Returned(w) => \A k \in 1 .. Len(queue[w]) : queue[w][k] = None

StreamInv(w) ==
    /\ Accounted(w) /\ OwnResults(w) /\ SignalsLast(w) /\ SignalsAfterAll(w)
    /\ OnlySignalsLeft(w)

IInv == TypeOK /\ \A w \in Workers : StreamInv(w)

\* However the call ends, and whichever step raised, no coroutine is left
\* waiting: every sample, context and consumer task ends, and so does every
\* stream that was registered.
NothingLeftRunning == <>[]Quiet

\* A generate_sequences that raised before it registered a stream has stopped
\* everything it started.
CleanedUp ==
    \A w \in Workers : phase[w] = "raised" /\ stream[w] = "none" =>
        /\ \A i \in Positions : Ended(task[w][i])
        /\ \A p \in Prompts : Ended(context[w][p])
        /\ \A c \in Consumers : Ended(consumer[w][c])

\* The trainer gets a complete batch in which each row carries the scores of
\* its own sample, whatever the order in which samples finished, consumers
\* answered and rows were balanced; or it gets an error.  It gets one of them.
Promise == INSTANCE TeacherScores WITH
    batch <- IF outcome = "scored" THEN order ELSE <<>>
DeliversScores == Promise!Spec
=============================================================================
