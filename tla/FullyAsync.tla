----------------------------- MODULE FullyAsync -----------------------------
(***************************************************************************)
(* The fully asynchronous training pipeline of                             *)
(* src/verl/experimental/fully_async_policy: the rollouter (coroutines of  *)
(* one asyncio loop), the message queue actor and the trainer actor.       *)
(*                                                                         *)
(* Samples are indistinguishable to the control code, so they are counted  *)
(* rather than named: a sample is first held by the processor, then a task *)
(* in active_tasks, then an entry of the queue (the version of the rollout *)
(* weights when it was put), then part of the trainer's batch.  Coroutines *)
(* interleave only where the code awaits, so an action is the code between *)
(* two awaits that can suspend.                                            *)
(***************************************************************************)
EXTENDS Integers, Sequences

CONSTANTS
    Total,       \* total_rollout_steps: samples the feeder puts before END
    Required,    \* required_samples of one training step
    Trigger,     \* trigger_parameter_sync_step
    MaxReq,      \* max_required_samples, which is also max_queue_size
    MaxConc,     \* max_concurrent_samples
    MaxFail,     \* bound: generations that may raise
    TestFreq,    \* trainer.test_freq
    SaveFreq,    \* trainer.save_freq
    PromptLoop   \* a training step outlasts whatever the event loop has ready

Window == Required * Trigger   \* samples the trainer uses per weight version

ASSUME Assumption ==
    /\ Total \in Nat \ {0} /\ Required \in Nat \ {0} /\ Trigger \in Nat \ {0}
    /\ MaxReq \in Nat \ {0} /\ MaxConc \in Nat \ {0}
    /\ MaxFail \in Nat /\ TestFreq \in Nat \ {0} /\ SaveFreq \in Nat \ {0}
    /\ MaxReq >= Window           \* int(Window * (staleness_threshold + 1))
    /\ MaxConc <= MaxReq          \* the min() of set_max_required_samples
    /\ PromptLoop \in BOOLEAN

END == -1     \* the None that ends the stream
Entry == Nat \cup {END}

VARIABLES
    \* rollouter
    proc,         \* where _processor_worker is
    seen,         \* queue_size it read for _should_pause_generation
    fed,          \* samples taken from pending_queue
    held,         \* samples taken and not yet submitted (0 or 1)
    generating,   \* tasks of active_tasks still generating
    sent,         \* ... whose put_sample ran and was not yet answered
    finished,     \* ... done, not yet reaped
    broken,       \* ... that raised, not yet reaped
    failures,     \* generations that raised so far
    staleness,    \* staleness_samples
    paused,       \* paused, which is the negation of _resume_event
    lock,         \* asyncio.Lock: who holds it across an await
    mon, monSeen, \* where _async_monitor_loop is, and the queue_size it read
    main,         \* where _streaming_generation_main is
    running,      \* the flag the monitor loop tests
    \* message queue actor
    mq,           \* deque of weight versions and END
    dropped,      \* dropped_samples
    consumed,     \* samples among total_consumed
    \* trainer
    trainer,      \* where fit / fit_step is
    got,          \* samples collected for the batch
    local,        \* local_trigger_step
    version,      \* current_param_version
    weights,      \* version the rollout servers serve
    counted,      \* what reset_staleness has counted so far
    stopping,     \* END was received
    saved         \* last_ckpt_version

procVars    == <<proc, seen, fed, held>>
taskVars    == <<generating, sent, finished, broken, failures>>
monVars     == <<mon, monSeen>>
mainVars    == <<main, running>>
queueVars   == <<mq, dropped, consumed>>
trainerVars == <<trainer, got, local, version, weights, counted, stopping,
                 saved>>
vars == <<procVars, taskVars, staleness, paused, lock, monVars, mainVars,
          queueVars, trainerVars>>

ActiveTasks == generating + sent + finished + broken     \* len(active_tasks)

Init ==
    /\ proc = "top" /\ seen = 0 /\ fed = 0 /\ held = 0
    /\ generating = 0 /\ sent = 0 /\ finished = 0 /\ broken = 0 /\ failures = 0
    /\ staleness = 0 /\ paused = FALSE /\ lock = "free"
    /\ mon = "check" /\ monSeen = 0
    /\ main = "streaming" /\ running = TRUE
    /\ mq = <<>> /\ dropped = 0 /\ consumed = 0
    /\ trainer = "collect" /\ got = 0 /\ local = 1 /\ version = 0
    /\ weights = 0 /\ counted = 0 /\ stopping = FALSE /\ saved = 0

-----------------------------------------------------------------------------
\* Message queue actor

\* put_sample: a full queue loses its oldest entry to the new one.
PutSample(entry) ==
    IF Len(mq) >= MaxReq
      THEN /\ mq' = Append(Tail(mq), entry)
           /\ dropped' = dropped + 1
      ELSE /\ mq' = Append(mq, entry)
           /\ UNCHANGED dropped

-----------------------------------------------------------------------------
\* _processor_worker

\* _should_pause_generation; the queue size was read before the reply came
\* back, staleness_samples is read after it.
MutLateThreshold(size) == size >= MaxReq \/ staleness > MaxReq
MutQueueOnly(size) == size >= MaxReq
ShouldPause(size) == size >= MaxReq \/ staleness >= MaxReq

AskQueue ==
    /\ proc = "top"
    /\ proc' = "decide" /\ seen' = Len(mq)
    /\ UNCHANGED <<fed, held, taskVars, staleness, paused, lock, monVars,
                   mainVars, queueVars, trainerVars>>

DecidePause ==
    /\ proc = "decide" /\ ShouldPause(seen)
    /\ proc' = "pausing" /\ seen' = 0
    /\ UNCHANGED <<fed, held, taskVars, staleness, paused, lock, monVars,
                   mainVars, queueVars, trainerVars>>

SetPaused ==
    /\ proc = "pausing" /\ lock = "free"
    /\ proc' = "drain" /\ paused' = TRUE
    /\ UNCHANGED <<seen, fed, held, taskVars, staleness, lock, monVars,
                   mainVars, queueVars, trainerVars>>

\* The drain loop discards the done tasks it saw, stopping at one that raised.
DrainReap ==
    /\ proc = "drain" /\ lock = "free"
    /\ \E f \in 0 .. finished, b \in {0, 1} :
        /\ f + b > 0 /\ b <= broken
        /\ finished' = finished - f
        /\ broken' = broken - b
        /\ proc' = IF b = 1 THEN "crashed" ELSE "drain"
    /\ UNCHANGED <<seen, fed, held, generating, sent, failures, staleness,
                   paused, lock, monVars, mainVars, queueVars, trainerVars>>

DrainExit ==
    /\ proc = "drain" /\ ~paused
    /\ proc' = "top"
    /\ UNCHANGED <<seen, fed, held, taskVars, staleness, paused, lock, monVars,
                   mainVars, queueVars, trainerVars>>

\* pending_queue.get() returns at once: the feeder refills it at every await.
Take ==
    /\ proc = "decide" /\ ~ShouldPause(seen)
    /\ seen' = 0
    /\ staleness' = staleness + 1

TakeAndSubmit ==
    /\ Take
    /\ fed < Total /\ ActiveTasks < MaxConc /\ lock = "free"
    /\ proc' = "top"
    /\ fed' = fed + 1
    /\ generating' = generating + 1
    /\ UNCHANGED <<held, sent, finished, broken, failures, paused, lock,
                   monVars, mainVars, queueVars, trainerVars>>

\* The concurrency limit or the lock makes the processor wait with the sample.
TakeAndHold ==
    /\ Take
    /\ fed < Total /\ (ActiveTasks >= MaxConc \/ lock # "free")
    /\ proc' = "room"
    /\ fed' = fed + 1
    /\ held' = 1
    /\ UNCHANGED <<taskVars, paused, lock, monVars, mainVars, queueVars,
                   trainerVars>>

\* END is counted in staleness_samples like a sample.
TakeEnd ==
    /\ Take
    /\ fed = Total
    /\ proc' = "final"
    /\ UNCHANGED <<fed, held, taskVars, paused, lock, monVars, mainVars,
                   queueVars, trainerVars>>

\* asyncio.wait(active_tasks, FIRST_COMPLETED) is awaited with the lock held.
LockAndWait(from, to) ==
    /\ proc = from /\ lock = "free"
    /\ proc' = to /\ lock' = "processor"
    /\ UNCHANGED <<seen, fed, held, taskVars, staleness, paused, monVars,
                   mainVars, queueVars, trainerVars>>

\* active_tasks becomes the pending set; awaiting a done task that raised
\* ends the processor, and the sample it holds is lost.
ReapDone(from, to) ==
    /\ proc = from /\ finished + broken > 0
    /\ finished' = 0 /\ broken' = 0 /\ lock' = "free"
    /\ \/ broken = 0 /\ proc' = to /\ UNCHANGED held
       \/ broken > 0 /\ proc' = "crashed" /\ held' = 0
    /\ UNCHANGED <<seen, fed, generating, sent, failures, staleness, paused,
                   monVars, mainVars, queueVars, trainerVars>>

WaitForRoom == ActiveTasks >= MaxConc /\ LockAndWait("room", "roomwait")
ReapForRoom == ReapDone("roomwait", "room")

SubmitHeld ==
    /\ proc = "room" /\ ActiveTasks < MaxConc /\ lock = "free"
    /\ proc' = "top"
    /\ held' = 0
    /\ generating' = generating + 1
    /\ UNCHANGED <<seen, fed, sent, finished, broken, failures, staleness,
                   paused, lock, monVars, mainVars, queueVars, trainerVars>>

WaitForRest == ActiveTasks > 0 /\ LockAndWait("final", "finalwait")
ReapForRest == ReapDone("finalwait", "final")

ProcessorReturns(rest) ==
    /\ proc = "final" /\ rest = 0
    /\ proc' = "done"
    /\ UNCHANGED <<seen, fed, held, taskVars, staleness, paused, lock, monVars,
                   mainVars, queueVars, trainerVars>>

MutNoFinalWait  == ProcessorReturns(0)
FinishProcessor == ProcessorReturns(ActiveTasks)

-----------------------------------------------------------------------------
\* _process_single_sample_streaming

\* The generation returns and the queue actor runs put_sample.
PutResult ==
    /\ generating > 0
    /\ generating' = generating - 1
    /\ sent' = sent + 1
    /\ PutSample(weights)
    /\ UNCHANGED <<procVars, finished, broken, failures, staleness, paused,
                   lock, monVars, mainVars, consumed, trainerVars>>

PutAnswered ==
    /\ sent > 0
    /\ sent' = sent - 1
    /\ finished' = finished + 1
    /\ UNCHANGED <<procVars, generating, broken, failures, staleness, paused,
                   lock, monVars, mainVars, queueVars, trainerVars>>

GenerationRaises ==
    /\ generating > 0 /\ failures < MaxFail
    /\ generating' = generating - 1
    /\ broken' = broken + 1
    /\ failures' = failures + 1
    /\ UNCHANGED <<procVars, sent, finished, staleness, paused, lock, monVars,
                   mainVars, queueVars, trainerVars>>

-----------------------------------------------------------------------------
\* _async_monitor_loop

MonitorCheck ==
    /\ mon = "check" /\ lock = "free"
    /\ mon' = IF running THEN "sleep" ELSE "exited"
    /\ UNCHANGED <<procVars, taskVars, staleness, paused, lock, monSeen,
                   mainVars, queueVars, trainerVars>>

\* After check_interval seconds.
MonitorWake ==
    /\ mon = "sleep"
    /\ \/ ~paused /\ mon' = "check" /\ UNCHANGED monSeen
       \/ paused /\ mon' = "decide" /\ monSeen' = Len(mq)
    /\ UNCHANGED <<procVars, taskVars, staleness, paused, lock, mainVars,
                   queueVars, trainerVars>>

MonitorAnswer(full) ==
    /\ mon = "decide"
    /\ mon' = IF full THEN "check" ELSE "resume"
    /\ monSeen' = 0
    /\ UNCHANGED <<procVars, taskVars, staleness, paused, lock, mainVars,
                   queueVars, trainerVars>>

MutMonitorDeaf == MonitorAnswer(TRUE)
MonitorDecide  == MonitorAnswer(ShouldPause(monSeen))

MonitorResume ==
    /\ mon = "resume" /\ lock = "free"
    /\ mon' = "check" /\ paused' = FALSE
    /\ UNCHANGED <<procVars, taskVars, staleness, lock, monSeen, mainVars,
                   queueVars, trainerVars>>

-----------------------------------------------------------------------------
\* _streaming_generation_main: its finally block, which also cancels the feeder

PutEnd ==
    /\ main = "streaming" /\ proc \in {"done", "crashed"}
    /\ main' = "ended"
    /\ PutSample(END)
    /\ UNCHANGED <<procVars, taskVars, staleness, paused, lock, monVars,
                   running, consumed, trainerVars>>

StopRunning ==
    /\ main = "ended" /\ lock = "free"
    /\ main' = "returned" /\ running' = FALSE
    /\ UNCHANGED <<procVars, taskVars, staleness, paused, lock, monVars,
                   queueVars, trainerVars>>

-----------------------------------------------------------------------------
\* Trainer: fit and fit_step

\* No coroutine of the rollouter is ready to run: what remains is waiting for
\* a generation, for the trainer or for the monitor's timer.
Quiescent ==
    /\ sent = 0 /\ mon \in {"sleep", "exited"} /\ main # "ended"
    /\ \/ proc \in {"roomwait", "finalwait"} /\ finished + broken = 0
       \/ proc = "drain" /\ paused /\ finished + broken = 0
       \/ proc \in {"done", "crashed"} /\ main = "returned"

TrainerGuard == PromptLoop => Quiescent

\* _get_samples_from_queue, one get_sample
GetSample ==
    /\ trainer = "collect" /\ mq # <<>> /\ Head(mq) # END
    /\ mq' = Tail(mq)
    /\ consumed' = consumed + 1
    /\ got' = got + 1
    /\ trainer' = IF got + 1 = Required THEN "train" ELSE "collect"
    /\ UNCHANGED <<procVars, taskVars, staleness, paused, lock, monVars,
                   mainVars, dropped, local, version, weights, counted,
                   stopping, saved>>

\* END: the samples collected for an incomplete batch are thrown away, and fit
\* publishes once more unless a validation already ran for this version.
GetEnd ==
    /\ trainer = "collect" /\ mq # <<>> /\ Head(mq) = END
    /\ mq' = Tail(mq)
    /\ got' = 0
    /\ stopping' = TRUE
    /\ \/ /\ local = 1 /\ version % TestFreq # 0
          /\ trainer' = "publish" /\ UNCHANGED saved
       \/ /\ local # 1 \/ version % TestFreq = 0
          /\ trainer' = "stopped" /\ saved' = version
    /\ UNCHANGED <<procVars, taskVars, staleness, paused, lock, monVars,
                   mainVars, dropped, consumed, local, version, weights,
                   counted>>

MutOneTooMany  == local <= Trigger
MoreLocalSteps == local < Trigger

\* The training step proper, then _fit_update_local_step.
Train ==
    /\ trainer = "train" /\ TrainerGuard
    /\ got' = 0
    /\ \/ /\ MoreLocalSteps
          /\ local' = local + 1 /\ trainer' = "collect" /\ UNCHANGED version
       \/ /\ ~MoreLocalSteps
          /\ local' = 1 /\ version' = version + 1 /\ trainer' = "publish"
    /\ UNCHANGED <<procVars, taskVars, staleness, paused, lock, monVars,
                   mainVars, queueVars, weights, counted, stopping, saved>>

\* checkpoint_manager.update_weights: requests in flight are aborted; with
\* partial_rollout the client sends the rest of the prompt again, without it the
\* partial answer is put as if complete.
UpdateWeights ==
    /\ trainer = "publish" /\ TrainerGuard
    /\ trainer' = "reset"
    /\ weights' = version
    /\ UNCHANGED <<procVars, taskVars, staleness, paused, lock, monVars,
                   mainVars, queueVars, got, local, version, counted,
                   stopping, saved>>

\* reset_staleness: len(active_tasks) is read when the lock is taken, the
\* queue size by a later call, and the sum is stored when its reply arrives.
ResetBegin ==
    /\ trainer = "reset" /\ lock = "free"
    /\ trainer' = "counting"
    /\ lock' = "reset"
    /\ paused' = FALSE
    /\ counted' = ActiveTasks
    /\ UNCHANGED <<procVars, taskVars, staleness, monVars, mainVars, queueVars,
                   got, local, version, weights, stopping, saved>>

CountQueue(size) ==
    /\ trainer = "counting"
    /\ trainer' = "storing"
    /\ counted' = counted + size
    /\ UNCHANGED <<procVars, taskVars, staleness, paused, lock, monVars,
                   mainVars, queueVars, got, local, version, weights, stopping,
                   saved>>

MutQueueForgotten == CountQueue(0)
ResetCount        == CountQueue(Len(mq))

\* ... followed by _fit_save_checkpoint.
ResetEnd ==
    /\ trainer = "storing"
    /\ staleness' = counted
    /\ counted' = 0
    /\ lock' = "free"
    /\ trainer' = IF stopping THEN "stopped" ELSE "collect"
    /\ saved' = IF stopping \/ version % SaveFreq = 0 THEN version ELSE saved
    /\ UNCHANGED <<procVars, taskVars, paused, monVars, mainVars, queueVars,
                   got, local, version, weights, stopping>>

-----------------------------------------------------------------------------
Processor ==
    \/ AskQueue \/ DecidePause \/ SetPaused \/ DrainReap \/ DrainExit
    \/ TakeAndSubmit \/ TakeAndHold \/ TakeEnd
    \/ WaitForRoom \/ ReapForRoom \/ SubmitHeld
    \/ WaitForRest \/ ReapForRest \/ FinishProcessor

Generation == PutResult \/ PutAnswered
Monitor    == MonitorCheck \/ MonitorWake \/ MonitorDecide \/ MonitorResume
Main       == PutEnd \/ StopRunning
Trainer    ==
    \/ GetSample \/ GetEnd \/ Train \/ UpdateWeights
    \/ ResetBegin \/ ResetCount \/ ResetEnd

\* Everything has returned; a run that blocks before this is a deadlock.
Stopped == trainer = "stopped" /\ main = "returned" /\ mon = "exited"
Stop    == Stopped /\ UNCHANGED vars

Next ==
    Processor \/ Generation \/ GenerationRaises \/ Monitor \/ Main \/ Trainer
    \/ Stop

Spec == Init /\ [][Next]_vars

\* The event loop runs every ready coroutine, the lock is granted in order of
\* arrival, generations end (they are bounded in tokens) and so do training
\* steps.  A generation need not fail.
Fairness ==
    /\ SF_vars(Processor)
    /\ WF_vars(PutResult)
    /\ WF_vars(PutAnswered)
    /\ SF_vars(Monitor)
    /\ SF_vars(Main)
    /\ SF_vars(Trainer)

FairSpec == Spec /\ Fairness

-----------------------------------------------------------------------------
\* Properties

\* Every variable keeps its type; the counts of tasks never go negative.
TypeOK ==
    /\ proc \in {"top", "decide", "pausing", "drain", "room", "roomwait",
                 "final", "finalwait", "done", "crashed"}
    /\ seen \in Nat /\ monSeen \in Nat
    /\ generating \in Nat /\ sent \in Nat /\ finished \in Nat /\ broken \in Nat
    /\ failures \in Nat /\ staleness \in Nat /\ counted \in Nat
    /\ dropped \in Nat /\ consumed \in Nat /\ got \in Nat
    /\ version \in Nat /\ weights \in Nat /\ saved \in Nat
    /\ fed \in 0 .. Total /\ held \in {0, 1} /\ local \in 1 .. Trigger
    /\ paused \in BOOLEAN /\ running \in BOOLEAN
    /\ stopping \in BOOLEAN
    /\ lock \in {"free", "processor", "reset"}
    /\ mon \in {"check", "sleep", "decide", "resume", "exited"}
    /\ main \in {"streaming", "ended", "returned"}
    /\ mq \in Seq(Entry)
    /\ trainer \in {"collect", "train", "publish", "reset", "counting",
                    "storing", "stopped"}

EndMarkers == IF main = "streaming" THEN 0 ELSE 1

\* Back pressure: whatever reset_staleness overlooks or overwrites while it
\* awaits, what was taken from the dataset and not yet delivered exceeds
\* max_required_samples by at most the one sample the processor holds (and by
\* the end marker).
OutstandingBound ==
    held + generating + Len(mq) <= MaxReq + 1 + EndMarkers

\* The counter that throttles generation, staleness_samples, is reset from two
\* numbers read at different moments while tasks finish, samples are taken and
\* END is counted; it may count a sample twice, but while samples are still
\* being taken it misses at most the one the processor holds.
StalenessAccount ==
    proc \notin {"done", "crashed"}
        => held + generating + Len(mq) <= staleness + 1

\* The inductive invariant behind the two bounds.
QueueBound == Len(mq) <= MaxReq

LockHolder ==
    /\ lock = "processor" <=> proc \in {"roomwait", "finalwait"}
    /\ lock = "reset" <=> trainer \in {"counting", "storing"}

HeldInRoom == held = 1 <=> proc \in {"room", "roomwait"}

EndIsLast == main = "streaming" \/ proc \in {"done", "crashed"}

\* While reset_staleness awaits, nothing is submitted (it has the lock), so its
\* count covers the tasks still generating and those that reached the queue.
ResetCovers ==
    /\ trainer = "counting" => generating <= counted
    /\ trainer = "storing" /\ proc \notin {"done", "crashed"}
           => generating + Len(mq) <= counted

IInv ==
    /\ TypeOK /\ QueueBound /\ LockHolder /\ HeldInRoom /\ EndIsLast
    /\ ResetCovers /\ StalenessAccount /\ OutstandingBound

\* The sample get_sample is about to deliver to the trainer.
Delivering == trainer = "collect" /\ mq # <<>> /\ Head(mq) # END

\* The staleness threshold bounds how many versions the weights that put a
\* sample into the queue are behind when the trainer takes it: at most
\* MaxReq / Window, that is 1 + staleness_threshold.
Freshness == Delivering => (version - Head(mq)) * Window <= MaxReq

\* staleness_threshold = 0 is synchronous training (README.md): every sample is
\* trained on by the version of the weights that put it into the queue.
SynchronousMode == Delivering /\ MaxReq = Window => version = Head(mq)

\* END reaches the trainer after every sample: if nothing failed, a stopped
\* trainer has left no task and no queue entry behind, and each sample of the
\* dataset was consumed or is counted as dropped.
EndAfterAll ==
    trainer = "stopped" /\ failures = 0
        => /\ ActiveTasks = 0 /\ held = 0 /\ mq = <<>>
           /\ consumed + dropped = Total

\* The run always ends: the trainer stops, the streaming main returns and the
\* monitor exits, whether or not a generation failed.
Termination == <>[]Stopped
=============================================================================
