-------------------------- MODULE FullyAsyncProofs --------------------------
(***************************************************************************)
(* Proofs about the asynchronous pipeline, for every dataset size, batch   *)
(* size, staleness threshold and concurrency limit.  Both bounds follow    *)
(* from the inductive invariant IInv of FullyAsync; the age of what is     *)
(* trained on and what is left at the end from a second one, Account.      *)
(***************************************************************************)
EXTENDS FullyAsync, TLAPS

\* What put_sample does to the length of the queue.
LEMMA PutLength ==
    ASSUME TypeOK, QueueBound, NEW entry \in Entry, PutSample(entry)
    PROVE  /\ mq' \in Seq(Entry)
           /\ dropped' \in Nat
           /\ Len(mq') <= MaxReq
           /\ Len(mq') <= Len(mq) + 1
<1> USE Assumption DEF TypeOK, QueueBound, PutSample, Window
<1>1. CASE Len(mq) >= MaxReq
  <2>1. mq # <<>>
    BY <1>1
  <2>2. Tail(mq) \in Seq(Entry) /\ Len(Tail(mq)) = Len(mq) - 1
    BY <2>1
  <2>. QED  BY <1>1, <2>2
<1>2. CASE Len(mq) < MaxReq
  BY <1>2
<1>. QED  BY <1>1, <1>2

\* What a get_sample does to it.
LEMMA GetLength ==
    ASSUME TypeOK, mq # <<>>
    PROVE  /\ Tail(mq) \in Seq(Entry)
           /\ Len(Tail(mq)) = Len(mq) - 1
           /\ Len(mq) \in Nat
BY DEF TypeOK

LEMMA InitIInv == Init => IInv
<1> USE Assumption DEF Assumption, Init
<1>1. Init => TypeOK
  <2>1. <<>> \in Seq(Entry)
    OBVIOUS
  <2>2. Init => /\ paused \in BOOLEAN /\ running \in BOOLEAN
                /\ stopping \in BOOLEAN
    BY Zenon
  <2>. QED  BY <2>1, <2>2 DEF TypeOK
<1>2. Init => QueueBound /\ LockHolder /\ HeldInRoom /\ EndIsLast /\ ResetCovers
  BY DEF QueueBound, LockHolder, HeldInRoom, EndIsLast, ResetCovers
<1>3. Init => StalenessAccount /\ OutstandingBound
  BY DEF StalenessAccount, OutstandingBound, EndMarkers
<1>. QED  BY <1>1, <1>2, <1>3 DEF IInv

-----------------------------------------------------------------------------
\* The invariant is kept by each part of the system.

LEMMA ProcessorKeeps == ASSUME IInv, Processor PROVE IInv'
<1> USE Assumption
    DEF Assumption, IInv, TypeOK, QueueBound, LockHolder, HeldInRoom, EndIsLast, ResetCovers,
        StalenessAccount, OutstandingBound, EndMarkers, ActiveTasks,
        procVars, taskVars, monVars, mainVars, queueVars, trainerVars
<1>1. CASE AskQueue         BY <1>1 DEF AskQueue
<1>2. CASE DecidePause      BY <1>2 DEF DecidePause
<1>3. CASE SetPaused        BY <1>3 DEF SetPaused
<1>4. CASE DrainReap        BY <1>4 DEF DrainReap
<1>5. CASE DrainExit        BY <1>5 DEF DrainExit
<1>6. CASE TakeAndSubmit    BY <1>6 DEF TakeAndSubmit, Take, ShouldPause
<1>7. CASE TakeAndHold      BY <1>7 DEF TakeAndHold, Take, ShouldPause
<1>8. CASE TakeEnd          BY <1>8 DEF TakeEnd, Take, ShouldPause
<1>9. CASE WaitForRoom      BY <1>9 DEF WaitForRoom, LockAndWait
<1>10. CASE ReapForRoom     BY <1>10 DEF ReapForRoom, ReapDone
<1>11. CASE SubmitHeld      BY <1>11 DEF SubmitHeld
<1>12. CASE WaitForRest     BY <1>12 DEF WaitForRest, LockAndWait
<1>13. CASE ReapForRest     BY <1>13 DEF ReapForRest, ReapDone
<1>14. CASE FinishProcessor BY <1>14 DEF FinishProcessor, ProcessorReturns
<1>. QED
  BY <1>1, <1>2, <1>3, <1>4, <1>5, <1>6, <1>7, <1>8, <1>9, <1>10, <1>11,
     <1>12, <1>13, <1>14 DEF Processor

LEMMA GenerationKeeps ==
    ASSUME IInv, Generation \/ GenerationRaises PROVE IInv'
<1> USE Assumption
    DEF Assumption, IInv, LockHolder, HeldInRoom, EndIsLast, ResetCovers, StalenessAccount,
        OutstandingBound, EndMarkers,
        procVars, taskVars, monVars, mainVars, queueVars, trainerVars
<1>1. CASE PutResult
  <2>1. weights \in Entry
    BY DEF TypeOK, Entry
  <2>2. /\ mq' \in Seq(Entry) /\ dropped' \in Nat
        /\ Len(mq') <= MaxReq /\ Len(mq') <= Len(mq) + 1
    BY <1>1, <2>1, PutLength DEF PutResult
  <2>3. Len(mq) \in Nat /\ Len(mq') \in Nat
    BY <2>2 DEF TypeOK
  <2>4. TypeOK' /\ QueueBound'
    BY <1>1, <2>2 DEF PutResult, TypeOK, QueueBound
  <2>. QED  BY <1>1, <2>2, <2>3, <2>4 DEF PutResult, TypeOK
<1>2. CASE PutAnswered
  BY <1>2 DEF PutAnswered, TypeOK, QueueBound
<1>3. CASE GenerationRaises
  BY <1>3 DEF GenerationRaises, TypeOK, QueueBound
<1>. QED  BY <1>1, <1>2, <1>3 DEF Generation

LEMMA MonitorKeeps == ASSUME IInv, Monitor PROVE IInv'
<1> USE Assumption
    DEF Assumption, IInv, TypeOK, QueueBound, LockHolder, HeldInRoom, EndIsLast, ResetCovers,
        StalenessAccount, OutstandingBound, EndMarkers,
        procVars, taskVars, monVars, mainVars, queueVars, trainerVars
<1>1. CASE MonitorCheck  BY <1>1 DEF MonitorCheck
<1>2. CASE MonitorWake   BY <1>2 DEF MonitorWake
<1>3. CASE MonitorDecide BY <1>3 DEF MonitorDecide, MonitorAnswer
<1>4. CASE MonitorResume BY <1>4 DEF MonitorResume
<1>. QED  BY <1>1, <1>2, <1>3, <1>4 DEF Monitor

LEMMA MainKeeps == ASSUME IInv, Main PROVE IInv'
<1> USE Assumption
    DEF Assumption, IInv, LockHolder, HeldInRoom, EndIsLast, ResetCovers, StalenessAccount,
        OutstandingBound, EndMarkers,
        procVars, taskVars, monVars, mainVars, queueVars, trainerVars
<1>1. CASE PutEnd
  <2>1. END \in Entry
    BY DEF Entry
  <2>2. /\ mq' \in Seq(Entry) /\ dropped' \in Nat
        /\ Len(mq') <= MaxReq /\ Len(mq') <= Len(mq) + 1
    BY <1>1, <2>1, PutLength DEF PutEnd
  <2>3. Len(mq) \in Nat /\ Len(mq') \in Nat
    BY <2>2 DEF TypeOK
  <2>4. TypeOK' /\ QueueBound'
    BY <1>1, <2>2 DEF PutEnd, TypeOK, QueueBound
  <2>. QED  BY <1>1, <2>2, <2>3, <2>4 DEF PutEnd, TypeOK
<1>2. CASE StopRunning
  BY <1>2 DEF StopRunning, TypeOK, QueueBound
<1>. QED  BY <1>1, <1>2 DEF Main

LEMMA TrainerKeeps == ASSUME IInv, Trainer PROVE IInv'
<1> USE Assumption
    DEF Assumption, IInv, TypeOK, QueueBound, LockHolder, HeldInRoom, EndIsLast, ResetCovers,
        StalenessAccount, OutstandingBound, EndMarkers, ActiveTasks,
        procVars, taskVars, monVars, mainVars, queueVars, trainerVars
<1>1. CASE GetSample
  <2>1. mq' \in Seq(Entry) /\ Len(mq') = Len(mq) - 1 /\ Len(mq) \in Nat
    BY <1>1, GetLength DEF GetSample
  <2>. QED  BY <1>1, <2>1 DEF GetSample
<1>2. CASE GetEnd
  <2>1. mq' \in Seq(Entry) /\ Len(mq') = Len(mq) - 1 /\ Len(mq) \in Nat
    BY <1>2, GetLength DEF GetEnd
  <2>. QED  BY <1>2, <2>1 DEF GetEnd
<1>3. CASE Train         BY <1>3 DEF Train, MoreLocalSteps
<1>4. CASE UpdateWeights BY <1>4 DEF UpdateWeights
<1>5. CASE ResetBegin
  <2>1. paused' \in BOOLEAN /\ UNCHANGED <<running, stopping>>
    BY <1>5, Zenon DEF ResetBegin
  <2>. QED  BY <1>5, <2>1 DEF ResetBegin
<1>6. CASE ResetCount    BY <1>6 DEF ResetCount, CountQueue
<1>7. CASE ResetEnd      BY <1>7 DEF ResetEnd
<1>. QED  BY <1>1, <1>2, <1>3, <1>4, <1>5, <1>6, <1>7 DEF Trainer

LEMMA StutterKeeps == ASSUME IInv, UNCHANGED vars PROVE IInv'
BY DEF IInv, TypeOK, QueueBound, LockHolder, HeldInRoom, EndIsLast, ResetCovers,
       StalenessAccount, OutstandingBound, EndMarkers, vars,
       procVars, taskVars, monVars, mainVars, queueVars, trainerVars

\* The counters of rollouter, queue and trainer stay in the relation IInv of
\* FullyAsync, whichever coroutine or actor moves.
THEOREM Inductive == Spec => []IInv
<1>1. IInv /\ [Next]_vars => IInv'
  BY ProcessorKeeps, GenerationKeeps, MonitorKeeps, MainKeeps, TrainerKeeps,
     StutterKeeps DEF Next, Stop
<1>. QED  BY InitIInv, <1>1, PTL DEF Spec

-----------------------------------------------------------------------------
\* Type correctness: every count stays a natural number, so no handler
\* discards a task or takes a sample that is not there.
THEOREM TypeCorrect == Spec => []TypeOK
BY Inductive, PTL DEF IInv

\* _should_pause_generation and reset_staleness together keep what is held, in
\* generation or queued within one sample of max_required_samples.
THEOREM BackPressure == Spec => []OutstandingBound
BY Inductive, PTL DEF IInv

\* staleness_samples never misses more than one outstanding sample.
THEOREM StalenessNeverLow == Spec => []StalenessAccount
BY Inductive, PTL DEF IInv

-----------------------------------------------------------------------------
\* The second inductive invariant: where every sample is, and what the trainer
\* has used of them.

Alive == proc \notin {"done", "crashed"}

\* Samples used since the last reset_staleness.
Publishing == trainer \in {"publish", "reset", "counting", "storing"}
InVersion  == (local - 1) * Required + got
SinceReset == IF Publishing THEN Window ELSE InVersion

\* Entries of the queue that are samples: all of them but END.
EndQueued == IF main # "streaming" /\ ~stopping THEN 1 ELSE 0
Samples   == Len(mq) - EndQueued

TrainerAccount ==
    /\ trainer = "collect" => got < Required
    /\ trainer = "train" => got = Required
    /\ trainer \in {"collect", "train"} => ~stopping
    /\ trainer = "stopped" => stopping
    /\ Publishing => got = 0 /\ local = 1
    /\ ~stopping => consumed = version * Window + InVersion
    /\ ~stopping => weights = IF trainer = "publish" THEN version - 1 ELSE version

TaskAccount ==
    /\ ActiveTasks <= MaxConc
    /\ broken <= failures
    /\ proc \in {"final", "finalwait", "done"} => fed = Total
    /\ proc = "done" => ActiveTasks = 0
    /\ proc = "crashed" => generating < MaxConc /\ failures > 0

EndAccount ==
    /\ stopping => main # "streaming" /\ (failures = 0 => Len(mq) = 0)
    /\ \A i \in 1 .. Len(mq) : mq[i] = END =>
          /\ main # "streaming" /\ ~stopping
          /\ failures = 0 => i = Len(mq)
          /\ Len(mq) - i + generating < MaxConc
          /\ \A j \in 1 .. Len(mq) : mq[j] = END => j = i
    /\ main # "streaming" /\ ~stopping => \E i \in 1 .. Len(mq) : mq[i] = END

SampleAccount ==
    failures = 0 => fed = held + generating + Samples + consumed + dropped

Outstanding == held + generating + Samples + SinceReset

FreshAccount ==
    ~stopping =>
        /\ Outstanding <= MaxReq + 1
        /\ Alive => Outstanding <= staleness + 1
        /\ \A i \in 1 .. Len(mq) :
              (\A j \in 1 .. i : mq[j] # END)
                  => consumed + i <= mq[i] * Window + MaxReq + 1

SyncAccount ==
    MaxReq = Window /\ ~stopping =>
        /\ Outstanding <= Window
        /\ Alive => Outstanding <= staleness
        /\ \A i \in 1 .. Len(mq) : mq[i] # END => mq[i] = version

Account ==
    /\ TrainerAccount /\ TaskAccount /\ EndAccount /\ SampleAccount
    /\ FreshAccount /\ SyncAccount

\* put_sample entry by entry: the new one is last, and a full queue has moved up
\* by one.
LEMMA PutEntries ==
    ASSUME TypeOK, QueueBound, NEW entry \in Entry, PutSample(entry)
    PROVE  \E d \in {0, 1} :
              /\ d = 1 <=> Len(mq) = MaxReq
              /\ dropped' = dropped + d
              /\ Len(mq') = Len(mq) + 1 - d
              /\ \A i \in 1 .. Len(mq') :
                    mq'[i] = IF i = Len(mq') THEN entry ELSE mq[i + d]
<1> USE Assumption DEF TypeOK, QueueBound, PutSample, Window
<1>1. CASE Len(mq) >= MaxReq
  <2>1. mq # <<>>
    BY <1>1
  <2>2. /\ Tail(mq) \in Seq(Entry) /\ Len(Tail(mq)) = Len(mq) - 1
        /\ \A i \in 1 .. Len(Tail(mq)) : Tail(mq)[i] = mq[i + 1]
    BY <2>1
  <2>3. /\ mq' = Append(Tail(mq), entry) /\ dropped' = dropped + 1
        /\ Len(mq) = MaxReq
    BY <1>1
  <2>. QED  BY <2>2, <2>3
<1>2. CASE Len(mq) < MaxReq
  <2>1. mq' = Append(mq, entry) /\ dropped' = dropped /\ Len(mq) # MaxReq
    BY <1>2
  <2>. QED  BY <2>1
<1>. QED  BY <1>1, <1>2

\* get_sample entry by entry.
LEMMA GetEntries ==
    ASSUME TypeOK, mq # <<>>
    PROVE  /\ Head(mq) = mq[1] /\ 1 \in 1 .. Len(mq)
           /\ \A i \in 1 .. Len(Tail(mq)) : Tail(mq)[i] = mq[i + 1]
BY DEF TypeOK

\* The products of constants and counters the accounts compare.
LEMMA Products ==
    ASSUME TypeOK
    PROVE  /\ Window \in Nat \ {0} /\ version * Window \in Nat
           /\ weights * Window \in Nat
           /\ (version + 1) * Window = version * Window + Window
           /\ (version - 1) * Window = version * Window - Window
           /\ (Trigger - 1) * Required = Window - Required
           /\ (local - 1) * Required \in Nat
           /\ ((local + 1) - 1) * Required = (local - 1) * Required + Required
           /\ (1 - 1) * Required = 0
           /\ local < Trigger => (local - 1) * Required <= Window - Required - Required
BY Assumption DEF Assumption, TypeOK, Window

LEMMA InitAccount == Init => Account
<1> USE Assumption DEF Assumption, Init
<1>1. Init => TypeOK
  BY InitIInv DEF IInv
<1>2. Init => TrainerAccount /\ TaskAccount /\ EndAccount
  BY DEF TrainerAccount, TaskAccount, EndAccount, Publishing, InVersion,
         ActiveTasks, Window
<1>3. Init => Samples = 0 /\ SinceReset = 0
  BY DEF Samples, EndQueued, SinceReset, Publishing, InVersion
<1>4. Init => SampleAccount /\ FreshAccount /\ SyncAccount
  BY <1>3, Products DEF SampleAccount, FreshAccount, SyncAccount, Outstanding,
     Window
<1>. QED  BY <1>2, <1>4 DEF Account

\* The accounts read the trainer and the queue only through these quantities.
LEMMA Quantities ==
    ASSUME TypeOK
    PROVE  /\ SinceReset \in Nat /\ InVersion \in Nat /\ Len(mq) \in Nat
           /\ Samples \in Int /\ EndQueued \in {0, 1}
           /\ Samples + EndQueued = Len(mq)
           /\ main = "streaming" => EndQueued = 0
<1>1. (local - 1) * Required \in Nat /\ Window \in Nat
  BY Products
<1>2. InVersion \in Nat
  BY <1>1 DEF TypeOK, InVersion
<1>. QED  BY <1>1, <1>2 DEF TypeOK, SinceReset, Samples, EndQueued

\* A step of the rollouter that leaves the queue alone leaves those alone.
LEMMA Frame ==
    ASSUME UNCHANGED <<queueVars, trainerVars, main>>
    PROVE  /\ UNCHANGED <<TrainerAccount, SinceReset, EndQueued, Samples>>
           /\ UNCHANGED <<mq, consumed, dropped, version, weights, stopping>>
BY DEF TrainerAccount, SinceReset, EndQueued, Samples, Publishing, InVersion,
       queueVars, trainerVars

LEMMA ProcessorAccount == ASSUME IInv, Account, Processor PROVE Account'
<1> USE Assumption
    DEF Assumption, IInv, LockHolder, HeldInRoom, EndIsLast,
        Account, TaskAccount, EndAccount, SampleAccount,
        FreshAccount, SyncAccount, Alive, Outstanding
<1>a. UNCHANGED <<main, queueVars, trainerVars>>
  BY DEF Processor, AskQueue, DecidePause, SetPaused, DrainReap,
     DrainExit, TakeAndSubmit, TakeAndHold, TakeEnd, Take, WaitForRoom,
     ReapForRoom, SubmitHeld, WaitForRest, ReapForRest, FinishProcessor,
     LockAndWait, ReapDone, ProcessorReturns, mainVars, queueVars, trainerVars
<1>b. Window \in Nat
  BY Products
<1>c. /\ generating \in Nat /\ finished \in Nat /\ sent \in Nat
      /\ broken \in Nat /\ fed \in Nat /\ held \in {0, 1} /\ staleness \in Nat
      /\ MaxReq \in Nat /\ MaxConc \in Nat /\ failures \in Nat
      /\ Window <= MaxReq
      /\ consumed \in Nat /\ dropped \in Nat
  BY <1>b DEF TypeOK, Window
<1> USE <1>a, <1>b, <1>c, Frame, Quantities DEF ActiveTasks, procVars, taskVars
<1>1. CASE AskQueue         BY <1>1 DEF AskQueue
<1>2. CASE DecidePause      BY <1>2 DEF DecidePause
<1>3. CASE SetPaused        BY <1>3 DEF SetPaused
<1>4. CASE DrainReap        BY <1>4 DEF DrainReap
<1>5. CASE DrainExit        BY <1>5 DEF DrainExit
<1>6. CASE TakeAndSubmit
  <2>. USE <1>6 DEF TakeAndSubmit, Take, ShouldPause
  <2>1. TrainerAccount' /\ TaskAccount'
    OBVIOUS
  <2>2. EndAccount'
    OBVIOUS
  <2>3. SampleAccount'
    <3>1. /\ Samples' = Samples /\ fed' = fed + 1 /\ failures' = failures
          /\ held' + generating' = held + generating + 1
          /\ UNCHANGED <<consumed, dropped>>
      OBVIOUS
    <3>2. failures = 0 => fed = held + generating + Samples + consumed + dropped
      BY DEF SampleAccount
    <3>3. /\ fed \in Nat /\ held \in Nat /\ generating \in Nat /\ Samples \in Int
          /\ consumed \in Nat /\ dropped \in Nat
      OBVIOUS
    <3>. QED  BY ONLY <3>1, <3>2, <3>3 DEF SampleAccount
  <2>4. FreshAccount'
    OBVIOUS
  <2>5. SyncAccount'
    OBVIOUS
  <2>. QED  BY <2>1, <2>2, <2>3, <2>4, <2>5, Zenon
<1>7. CASE TakeAndHold
  <2>. USE <1>7 DEF TakeAndHold, Take, ShouldPause
  <2>1. TrainerAccount' /\ TaskAccount'
    OBVIOUS
  <2>2. EndAccount'
    OBVIOUS
  <2>3. SampleAccount'
    <3>1. /\ Samples' = Samples /\ fed' = fed + 1 /\ failures' = failures
          /\ held' + generating' = held + generating + 1
          /\ UNCHANGED <<consumed, dropped>>
      OBVIOUS
    <3>2. failures = 0 => fed = held + generating + Samples + consumed + dropped
      BY DEF SampleAccount
    <3>3. /\ fed \in Nat /\ held \in Nat /\ generating \in Nat /\ Samples \in Int
          /\ consumed \in Nat /\ dropped \in Nat
      OBVIOUS
    <3>. QED  BY ONLY <3>1, <3>2, <3>3 DEF SampleAccount
  <2>4. FreshAccount'
    OBVIOUS
  <2>5. SyncAccount'
    OBVIOUS
  <2>. QED  BY <2>1, <2>2, <2>3, <2>4, <2>5, Zenon
<1>8. CASE TakeEnd          BY <1>8 DEF TakeEnd, Take, ShouldPause
<1>9. CASE WaitForRoom      BY <1>9 DEF WaitForRoom, LockAndWait
<1>10. CASE ReapForRoom     BY <1>10 DEF ReapForRoom, ReapDone
<1>11. CASE SubmitHeld      BY <1>11 DEF SubmitHeld
<1>12. CASE WaitForRest     BY <1>12 DEF WaitForRest, LockAndWait
<1>13. CASE ReapForRest     BY <1>13 DEF ReapForRest, ReapDone
<1>14. CASE FinishProcessor BY <1>14 DEF FinishProcessor, ProcessorReturns
<1>. QED
  BY <1>1, <1>2, <1>3, <1>4, <1>5, <1>6, <1>7, <1>8, <1>9, <1>10, <1>11,
     <1>12, <1>13, <1>14 DEF Processor

LEMMA MonitorAccount == ASSUME IInv, Account, Monitor PROVE Account'
<1> USE Frame
    DEF Account, TaskAccount, EndAccount, SampleAccount, FreshAccount, SyncAccount,
        Alive, Outstanding, ActiveTasks,
        procVars, taskVars, monVars, mainVars, queueVars, trainerVars
<1>1. CASE MonitorCheck  BY <1>1 DEF MonitorCheck
<1>2. CASE MonitorWake   BY <1>2 DEF MonitorWake
<1>3. CASE MonitorDecide BY <1>3 DEF MonitorDecide, MonitorAnswer
<1>4. CASE MonitorResume BY <1>4 DEF MonitorResume
<1>. QED  BY <1>1, <1>2, <1>3, <1>4 DEF Monitor

LEMMA GenerationAccount ==
    ASSUME IInv, Account, Generation \/ GenerationRaises PROVE Account'
<1> USE Assumption
    DEF Assumption, IInv, EndIsLast, Account, Alive
<1>a. /\ generating \in Nat /\ finished \in Nat /\ sent \in Nat
      /\ broken \in Nat /\ fed \in Nat /\ held \in {0, 1} /\ staleness \in Nat
      /\ MaxReq \in Nat /\ MaxConc \in Nat /\ failures \in Nat
      /\ consumed \in Nat /\ dropped \in Nat /\ Len(mq) \in Nat
      /\ SinceReset \in Nat /\ Window \in Nat /\ Samples \in Int
      /\ weights \in Nat /\ version \in Nat
  BY Quantities, Products DEF TypeOK
<1>1. CASE PutResult
  <2>. USE <1>1, <1>a
  <2>1. PICK d \in {0, 1} :
            /\ d = 1 <=> Len(mq) = MaxReq
            /\ dropped' = dropped + d
            /\ Len(mq') = Len(mq) + 1 - d
            /\ \A i \in 1 .. Len(mq') :
                  mq'[i] = IF i = Len(mq') THEN weights ELSE mq[i + d]
    BY PutEntries DEF PutResult, TypeOK, Entry
  <2>2. /\ generating > 0 /\ generating' = generating - 1
        /\ UNCHANGED <<proc, fed, held, finished, broken, failures, staleness,
                       main, consumed, trainer, got, local, version, weights,
                       stopping>>
        /\ sent' = sent + 1
    BY DEF PutResult, procVars, taskVars, mainVars, trainerVars
  <2>3. TrainerAccount' /\ TaskAccount'
    BY <2>2 DEF TrainerAccount, TaskAccount, Publishing, InVersion, ActiveTasks
  <2>a. main # "streaming" => failures # 0
    BY <2>2 DEF TaskAccount, ActiveTasks
  <2>4. \A i \in 1 .. Len(mq) : mq[i] = END => i > d /\ failures # 0
    <3>1. MaxConc <= MaxReq
      OBVIOUS
    <3>. QED  BY <2>1, <2>2, <2>a, <3>1 DEF EndAccount
  <2>5. EndAccount'
    <3>1. \A i \in 1 .. Len(mq') : mq'[i] = END
             => i + d \in 1 .. Len(mq) /\ mq[i + d] = END
      BY <2>1 DEF END
    <3>2. \A i \in 1 .. Len(mq') : mq'[i] = END =>
             /\ main' # "streaming" /\ ~stopping'
             /\ failures' = 0 => i = Len(mq')
             /\ Len(mq') - i + generating' < MaxConc
             /\ \A j \in 1 .. Len(mq') : mq'[j] = END => j = i
      BY <2>1, <2>2, <2>4, <3>1 DEF EndAccount
    <3>3. ASSUME main # "streaming", ~stopping
          PROVE  \E i \in 1 .. Len(mq') : mq'[i] = END
      <4>1. PICK i \in 1 .. Len(mq) : mq[i] = END
        BY <3>3 DEF EndAccount
      <4>2. i - d \in 1 .. Len(mq') /\ mq'[i - d] = mq[i]
        BY <2>1, <2>4, <4>1
      <4>. QED  BY <4>1, <4>2
    <3>. QED  BY <2>2, <2>a, <3>2, <3>3 DEF EndAccount
  <2>6. /\ SinceReset' = SinceReset /\ Samples' = Samples + 1 - d
        /\ ~stopping => Samples >= 0
        /\ main = "streaming" => Samples = Len(mq)
    BY <2>1, <2>2
       DEF SinceReset, Samples, EndQueued, Publishing, InVersion, EndAccount
  <2>7. SampleAccount'
    BY <2>1, <2>2, <2>6 DEF SampleAccount
  <2>8. FreshAccount'
    <3>1. ~stopping => consumed <= weights * Window + SinceReset
      BY Products, Quantities DEF TrainerAccount, SinceReset, InVersion, Publishing
    <3>2. weights * Window \in Nat
      BY Products
    <3>3. ASSUME ~stopping, NEW i \in 1 .. Len(mq'),
                 \A j \in 1 .. i : mq'[j] # END
          PROVE  consumed + i <= mq'[i] * Window + MaxReq + 1
      <4>1. CASE i = Len(mq')
        <5>1. main = "streaming"
          BY <2>2, <2>5, <3>3, <4>1 DEF EndAccount
        <5>2. mq'[i] = weights /\ i <= Samples + generating
          BY <2>1, <2>2, <2>6, <4>1, <5>1
        <5>. QED  BY <3>1, <3>2, <3>3, <5>2 DEF FreshAccount, Outstanding
      <4>2. CASE i # Len(mq')
        <5>1. i + d \in 1 .. Len(mq) /\ mq'[i] = mq[i + d]
          BY <2>1, <4>2
        <5>2. \A j \in 1 .. i + d : mq[j] # END
          <6>. SUFFICES ASSUME NEW j \in 1 .. i + d, mq[j] = END PROVE FALSE
            OBVIOUS
          <6>1. j - d \in 1 .. i
            BY <2>1, <2>4, <5>1
          <6>2. j - d \in 1 .. Len(mq') /\ j - d # Len(mq') /\ (j - d) + d = j
            BY <2>1, <4>2, <6>1
          <6>3. mq'[j - d] = mq[j]
            BY <2>1, <6>2
          <6>. QED  BY <3>3, <6>1, <6>3
        <5>3. consumed + (i + d) <= mq[i + d] * Window + MaxReq + 1
          BY <3>3, <5>1, <5>2 DEF FreshAccount
        <5>4. mq[i + d] * Window \in Int
          BY <5>1, <5>2 DEF TypeOK, Entry
        <5>. QED  BY <5>1, <5>3, <5>4
      <4>. QED  BY <4>1, <4>2
    <3>. QED  BY <2>2, <2>6, <3>3 DEF FreshAccount, Outstanding
  <2>9. SyncAccount'
    <3>1. MaxReq = Window /\ ~stopping => weights = version
      <4>1. MaxReq = Window /\ ~stopping => SinceReset < Window
        BY <2>2, <2>6 DEF SyncAccount, Outstanding
      <4>. QED  BY <4>1 DEF TrainerAccount, SinceReset, Publishing
    <3>. QED  BY <2>1, <2>2, <2>6, <3>1 DEF SyncAccount, Outstanding
  <2>. QED  BY <2>3, <2>5, <2>7, <2>8, <2>9
<1>2. CASE PutAnswered
  BY <1>2, <1>a, Frame DEF PutAnswered, TaskAccount, EndAccount, SampleAccount,
     FreshAccount, SyncAccount, Outstanding, ActiveTasks, procVars, mainVars
<1>3. CASE GenerationRaises
  BY <1>3, <1>a, Frame DEF GenerationRaises, TaskAccount, EndAccount,
     SampleAccount, FreshAccount, SyncAccount, Outstanding, ActiveTasks,
     procVars, mainVars
<1>. QED  BY <1>1, <1>2, <1>3 DEF Generation

LEMMA MainAccount == ASSUME IInv, Account, Main PROVE Account'
<1> USE Assumption
    DEF Assumption, IInv, EndIsLast, Account, Alive
<1>a. /\ generating \in Nat /\ held \in {0, 1} /\ MaxReq \in Nat
      /\ MaxConc \in Nat \ {0} /\ consumed \in Nat /\ dropped \in Nat
      /\ Len(mq) \in Nat /\ SinceReset \in Nat /\ Samples \in Int
  BY Quantities DEF TypeOK
<1>1. CASE PutEnd
  <2>. USE <1>1, <1>a
  <2>1. PICK d \in {0, 1} :
            /\ d = 1 <=> Len(mq) = MaxReq
            /\ dropped' = dropped + d
            /\ Len(mq') = Len(mq) + 1 - d
            /\ \A i \in 1 .. Len(mq') :
                  mq'[i] = IF i = Len(mq') THEN END ELSE mq[i + d]
    BY PutEntries DEF PutEnd, Entry
  <2>2. /\ main = "streaming" /\ main' = "ended" /\ ~Alive /\ ~stopping
        /\ generating < MaxConc
        /\ UNCHANGED <<procVars, taskVars, staleness, consumed, trainerVars>>
    BY DEF PutEnd, EndAccount, TaskAccount, ActiveTasks, TypeOK
  <2>3. TrainerAccount' /\ TaskAccount'
    BY <2>2 DEF TrainerAccount, TaskAccount, Publishing, InVersion, ActiveTasks,
       procVars, taskVars, trainerVars
  <2>4. /\ SinceReset' = SinceReset /\ Samples' = Samples - d
        /\ UNCHANGED <<proc, held, generating, fed, failures, stopping, version>>
    BY <2>1, <2>2 DEF SinceReset, Samples, EndQueued, Publishing, InVersion,
       procVars, taskVars, trainerVars
  <2>5. \A i \in 1 .. Len(mq) : mq[i] # END
    BY <2>2 DEF EndAccount
  <2>6. EndAccount'
    <3>0. Len(mq') \in Nat \ {0} /\ \A i \in 1 .. Len(mq') :
              i # Len(mq') => i + d \in 1 .. Len(mq)
      BY <2>1
    <3>1. /\ Len(mq') \in 1 .. Len(mq') /\ mq'[Len(mq')] = END
          /\ \A i \in 1 .. Len(mq') : i # Len(mq') => mq'[i] # END
      <4>1. Len(mq') \in 1 .. Len(mq')
        BY <3>0
      <4>2. mq'[Len(mq')] = END
        BY <2>1, <4>1
      <4>3. ASSUME NEW i \in 1 .. Len(mq'), i # Len(mq') PROVE mq'[i] # END
        <5>1. mq'[i] = mq[i + d]
          BY <2>1, <4>3
        <5>. QED  BY <2>5, <3>0, <4>3, <5>1
      <4>. QED  BY <4>1, <4>2, <4>3
    <3>2. /\ main' # "streaming" /\ ~stopping' /\ generating' < MaxConc
          /\ Len(mq') - Len(mq') + generating' = generating'
      BY <2>1, <2>2, <2>4
    <3>. QED  BY <3>1, <3>2 DEF EndAccount
  <2>7. SampleAccount'
    BY <2>1, <2>2, <2>4 DEF SampleAccount
  <2>8. FreshAccount'
    <3>1. ASSUME NEW i \in 1 .. Len(mq'), \A j \in 1 .. i : mq'[j] # END
          PROVE  consumed + i <= mq'[i] * Window + MaxReq + 1
      <4>1. i + d \in 1 .. Len(mq) /\ mq'[i] = mq[i + d]
        BY <2>1, <3>1
      <4>2. consumed + (i + d) <= mq[i + d] * Window + MaxReq + 1
        BY <2>2, <2>5, <4>1 DEF FreshAccount
      <4>3. mq[i + d] \in Nat /\ Window \in Nat
        <5>1. mq[i + d] \in Entry /\ mq[i + d] # END
          BY <2>5, <4>1 DEF TypeOK
        <5>. QED  BY <5>1, Products DEF Entry
      <4>4. mq[i + d] * Window \in Nat
        BY <4>3
      <4>. QED  BY <4>1, <4>2, <4>4
    <3>. QED  BY <2>2, <2>4, <3>1 DEF FreshAccount, Outstanding
  <2>9. SyncAccount'
    BY <2>1, <2>2, <2>4 DEF SyncAccount, Outstanding
  <2>. QED  BY <2>3, <2>6, <2>7, <2>8, <2>9
<1>2. CASE StopRunning
  BY <1>2 DEF StopRunning, TrainerAccount, TaskAccount, EndAccount, SampleAccount,
     FreshAccount, SyncAccount, Outstanding, ActiveTasks, SinceReset, Samples,
     EndQueued, Publishing, InVersion, procVars, taskVars, queueVars, trainerVars
<1>. QED  BY <1>1, <1>2 DEF Main

LEMMA TrainerAccountKept == ASSUME IInv, Account, Trainer PROVE Account'
<1> USE Assumption
    DEF Assumption, IInv, EndIsLast, Account, Alive
<1>a. /\ generating \in Nat /\ held \in {0, 1} /\ MaxReq \in Nat
      /\ MaxConc \in Nat \ {0} /\ consumed \in Nat /\ dropped \in Nat
      /\ Len(mq) \in Nat /\ SinceReset \in Nat /\ Samples \in Int
      /\ InVersion \in Nat /\ Window \in Nat \ {0} /\ version \in Nat
      /\ version * Window \in Nat /\ staleness \in Nat /\ counted \in Nat
      /\ got \in Nat /\ Required \in Nat \ {0} /\ local \in 1 .. Trigger
      /\ Trigger \in Nat \ {0} /\ (local - 1) * Required \in Nat
      /\ fed \in Nat /\ failures \in Nat
  BY Quantities, Products DEF TypeOK
<1>b. /\ UNCHANGED <<procVars, taskVars, main>>
      /\ UNCHANGED <<proc, fed, held, generating, failures, broken, ActiveTasks>>
      /\ TaskAccount'
  BY DEF Trainer, GetSample, GetEnd, Train, UpdateWeights, ResetBegin,
     ResetCount, CountQueue, ResetEnd, TaskAccount, ActiveTasks,
     procVars, taskVars, mainVars
<1> USE <1>a, <1>b
<1>1. CASE GetSample
  <2>. USE <1>1
  <2>1. /\ mq # <<>> /\ mq' = Tail(mq) /\ Len(mq') = Len(mq) - 1
        /\ mq[1] # END /\ 1 \in 1 .. Len(mq)
        /\ \A i \in 1 .. Len(mq') : mq'[i] = mq[i + 1]
    BY GetLength, GetEntries DEF GetSample
  <2>2. /\ trainer = "collect" /\ ~stopping /\ got < Required
        /\ consumed' = consumed + 1 /\ got' = got + 1
        /\ trainer' = IF got + 1 = Required THEN "train" ELSE "collect"
        /\ UNCHANGED <<stopping, version, weights, local, dropped, staleness>>
    BY DEF GetSample, TrainerAccount, trainerVars
  <2>3. TrainerAccount' /\ SinceReset' = SinceReset + 1
    BY <2>2 DEF TrainerAccount, Publishing, InVersion, SinceReset
  <2>4. Samples' = Samples - 1
    BY <2>1, <2>2 DEF Samples, EndQueued
  <2>5. EndAccount'
    <3>1. \A i \in 1 .. Len(mq') : mq'[i] = END =>
             /\ main' # "streaming" /\ ~stopping'
             /\ failures' = 0 => i = Len(mq')
             /\ Len(mq') - i + generating' < MaxConc
             /\ \A j \in 1 .. Len(mq') : mq'[j] = END => j = i
      <4>. SUFFICES ASSUME NEW i \in 1 .. Len(mq'), mq'[i] = END
                    PROVE  /\ main # "streaming"
                           /\ failures = 0 => i = Len(mq')
                           /\ Len(mq') - i + generating < MaxConc
                           /\ \A j \in 1 .. Len(mq') : mq'[j] = END => j = i
        BY <2>2
      <4>1. i + 1 \in 1 .. Len(mq) /\ mq[i + 1] = END
        BY <2>1
      <4>2. /\ main # "streaming"
            /\ failures = 0 => i + 1 = Len(mq)
            /\ Len(mq) - (i + 1) + generating < MaxConc
            /\ \A j \in 1 .. Len(mq) : mq[j] = END => j = i + 1
        BY <4>1 DEF EndAccount
      <4>3. ASSUME NEW j \in 1 .. Len(mq'), mq'[j] = END PROVE j = i
        <5>1. j + 1 \in 1 .. Len(mq) /\ mq[j + 1] = END
          BY <2>1, <4>3
        <5>. QED  BY <4>2, <5>1
      <4>4. Len(mq') = Len(mq) - 1 /\ i \in Nat /\ failures' = failures
        BY <2>1
      <4>5. failures' = 0 => i = Len(mq')
        BY <4>2, <4>4
      <4>6. Len(mq') - i + generating < MaxConc
        BY <4>2, <4>4
      <4>. QED  BY <4>2, <4>3, <4>5, <4>6
    <3>2. ASSUME main # "streaming"
          PROVE  \E i \in 1 .. Len(mq') : mq'[i] = END
      <4>1. PICK i \in 1 .. Len(mq) : mq[i] = END
        BY <2>2, <3>2 DEF EndAccount
      <4>2. i - 1 \in 1 .. Len(mq') /\ mq'[i - 1] = mq[i]
        BY <2>1, <4>1
      <4>. QED  BY <4>1, <4>2
    <3>. QED  BY <2>2, <3>1, <3>2 DEF EndAccount
  <2>6. SampleAccount'
    BY <2>2, <2>4 DEF SampleAccount
  <2>7. FreshAccount'
    <3>1. ASSUME NEW i \in 1 .. Len(mq'), \A j \in 1 .. i : mq'[j] # END
          PROVE  consumed + 1 + i <= mq'[i] * Window + MaxReq + 1
      <4>1. i + 1 \in 1 .. Len(mq) /\ mq'[i] = mq[i + 1]
        BY <2>1
      <4>2. \A j \in 1 .. i + 1 : mq[j] # END
        <5>. SUFFICES ASSUME NEW j \in 1 .. i + 1, mq[j] = END PROVE FALSE
          OBVIOUS
        <5>1. j - 1 \in 1 .. i /\ mq'[j - 1] = mq[j]
          BY <2>1, <4>1
        <5>. QED  BY <3>1, <5>1
      <4>3. consumed + (i + 1) <= mq[i + 1] * Window + MaxReq + 1
        BY <2>2, <4>1, <4>2 DEF FreshAccount
      <4>. QED  BY <4>1, <4>3
    <3>. QED  BY <2>2, <2>3, <2>4, <3>1 DEF FreshAccount, Outstanding
  <2>8. SyncAccount'
    BY <2>1, <2>2, <2>3, <2>4 DEF SyncAccount, Outstanding
  <2>. QED  BY <2>3, <2>5, <2>6, <2>7, <2>8
<1>2. CASE GetEnd
  <2>. USE <1>2
  <2>1. /\ mq # <<>> /\ mq' = Tail(mq) /\ Len(mq') = Len(mq) - 1
        /\ mq[1] = END /\ 1 \in 1 .. Len(mq)
        /\ \A i \in 1 .. Len(mq') : mq'[i] = mq[i + 1]
    BY GetLength, GetEntries DEF GetEnd
  <2>2. /\ stopping' /\ got' = 0 /\ UNCHANGED <<consumed, dropped, local>>
        /\ trainer' \in {"stopped", "publish"}
        /\ trainer' = "publish" => local = 1
    BY DEF GetEnd
  <2>3. ~stopping /\ main # "streaming"
    BY <2>1 DEF EndAccount
  <2>4. TrainerAccount'
    BY <2>2 DEF TrainerAccount, Publishing
  <2>5. Samples' = Samples
    BY <2>1, <2>2, <2>3 DEF Samples, EndQueued
  <2>6. \A i \in 1 .. Len(mq') : mq'[i] # END
    <3>. SUFFICES ASSUME NEW i \in 1 .. Len(mq'), mq'[i] = END PROVE FALSE
      OBVIOUS
    <3>1. i + 1 \in 1 .. Len(mq) /\ mq[i + 1] = END /\ i + 1 # 1
      BY <2>1
    <3>. QED  BY <2>1, <3>1 DEF EndAccount
  <2>7. EndAccount'
    <3>1. failures' = 0 => Len(mq') = 0
      <4>1. failures = 0 => 1 = Len(mq)
        BY <2>1 DEF EndAccount
      <4>2. failures' = failures /\ Len(mq') = Len(mq) - 1
        BY <2>1
      <4>. QED  BY <4>1, <4>2
    <3>. QED  BY <2>2, <2>3, <2>6, <3>1 DEF EndAccount
  <2>. QED  BY <2>2, <2>4, <2>5, <2>7 DEF SampleAccount, FreshAccount, SyncAccount
<1>3. CASE Train
  <2>. USE <1>3
  <2>1. /\ trainer = "train" /\ ~stopping /\ got = Required /\ got' = 0
        /\ UNCHANGED <<queueVars, weights, stopping, staleness, EndQueued, Samples>>
        /\ UNCHANGED <<mq, consumed, dropped>>
    BY DEF Train, TrainerAccount, queueVars, EndQueued, Samples
  <2>2. /\ UNCHANGED SinceReset /\ TrainerAccount'
        /\ version' # version => SinceReset = Window
    <3>1. CASE local < Trigger
      <4>1. /\ local' = local + 1 /\ trainer' = "collect" /\ version' = version
        BY <3>1 DEF Train, MoreLocalSteps
      <4>2. InVersion' = InVersion /\ ~Publishing /\ ~Publishing'
        BY <2>1, <4>1, Products DEF InVersion, Publishing
      <4>3. SinceReset' = SinceReset
        BY <4>2 DEF SinceReset
      <4>4. TrainerAccount'
        <5>1. /\ consumed' = version' * Window + InVersion'
              /\ weights' = version' /\ trainer' = "collect" /\ got' < Required
          BY <2>1, <4>1, <4>2 DEF TrainerAccount
        <5>2. ~stopping'
          BY <2>1
        <5>. QED  BY <4>2, <5>1, <5>2 DEF TrainerAccount
      <4>. QED  BY <4>1, <4>3, <4>4
    <3>2. CASE ~(local < Trigger)
      <4>1. /\ local' = 1 /\ trainer' = "publish" /\ version' = version + 1
            /\ local = Trigger
        BY <3>2 DEF Train, MoreLocalSteps
      <4>. QED  BY <2>1, <4>1, Products
                DEF TrainerAccount, SinceReset, InVersion, Publishing
    <3>. QED  BY <3>1, <3>2
  <2>3. SyncAccount'
    <3>1. ASSUME MaxReq = Window, SinceReset = Window, NEW i \in 1 .. Len(mq)
          PROVE  mq[i] = END
      <4>1. Len(mq) <= EndQueued
        BY <2>1, <3>1 DEF SyncAccount, Outstanding, Samples, EndQueued
      <4>. QED  BY <2>1, <4>1 DEF EndQueued, EndAccount
    <3>. QED  BY <2>1, <2>2, <3>1 DEF SyncAccount, Outstanding
  <2>. QED  BY <2>1, <2>2, <2>3
            DEF EndAccount, SampleAccount, FreshAccount, Outstanding
<1>4. CASE UpdateWeights
  <2>1. /\ UNCHANGED <<SinceReset, EndQueued, Samples, staleness, queueVars>>
        /\ UNCHANGED <<mq, consumed, dropped, version, stopping>>
        /\ TrainerAccount'
    BY <1>4 DEF UpdateWeights, queueVars, TrainerAccount, SinceReset, EndQueued,
       Samples, Publishing, InVersion
  <2>. QED  BY <2>1 DEF EndAccount, SampleAccount, FreshAccount, SyncAccount,
            Outstanding
<1>5. CASE ResetBegin \/ ResetCount
  <2>1. /\ UNCHANGED <<SinceReset, EndQueued, Samples, staleness, queueVars>>
        /\ UNCHANGED <<mq, consumed, dropped, version, stopping>>
        /\ TrainerAccount'
    BY <1>5 DEF ResetBegin, ResetCount, CountQueue, queueVars, TrainerAccount,
       SinceReset, EndQueued, Samples, Publishing, InVersion
  <2>. QED  BY <2>1 DEF EndAccount, SampleAccount, FreshAccount, SyncAccount,
            Outstanding
<1>6. CASE ResetEnd
  <2>. USE <1>6
  <2>1. /\ UNCHANGED <<EndQueued, Samples, queueVars>>
        /\ UNCHANGED <<mq, consumed, dropped, version, stopping>>
        /\ TrainerAccount' /\ SinceReset = Window
        /\ ~stopping => SinceReset' = 0
    BY Products DEF ResetEnd, queueVars, TrainerAccount, SinceReset, EndQueued,
       Samples, Publishing, InVersion
  <2>2. /\ staleness' = counted
        /\ Alive => generating + Len(mq) <= counted
        /\ Samples <= Len(mq)
        /\ ~stopping => Samples >= 0
    BY DEF ResetEnd, ResetCovers, Samples, EndQueued, EndAccount
  <2>. QED  BY <2>1, <2>2 DEF EndAccount, SampleAccount, FreshAccount,
            SyncAccount, Outstanding
<1>. QED  BY <1>1, <1>2, <1>3, <1>4, <1>5, <1>6 DEF Trainer

LEMMA StutterAccount == ASSUME Account, UNCHANGED vars PROVE Account'
BY DEF Account, TrainerAccount, TaskAccount, EndAccount, SampleAccount,
       FreshAccount, SyncAccount, Alive, Outstanding, ActiveTasks, SinceReset,
       Samples, EndQueued, Publishing, InVersion, vars,
       procVars, taskVars, monVars, mainVars, queueVars, trainerVars

\* Every sample is accounted for, whichever coroutine or actor moves.
THEOREM Accounts == Spec => []Account
<1>1. IInv /\ Account /\ [Next]_vars => Account'
  BY ProcessorAccount, GenerationAccount, MonitorAccount, MainAccount,
     TrainerAccountKept, StutterAccount DEF Next, Stop
<1>. QED  BY InitAccount, Inductive, <1>1, PTL DEF Spec

-----------------------------------------------------------------------------
\* The staleness threshold bounds how old the weights of a training sample are.
THEOREM SamplesFresh == Spec => []Freshness
<1>1. IInv /\ Account => Freshness
  <2>. SUFFICES ASSUME IInv, Account, Delivering
                PROVE  (version - Head(mq)) * Window <= MaxReq
    BY DEF Freshness
  <2>. DEFINE used == version * Window
  <2>1. Head(mq) = mq[1] /\ 1 \in 1 .. Len(mq) /\ mq[1] # END
    BY GetEntries DEF IInv, Delivering
  <2>2. ~stopping /\ consumed = used + InVersion
    BY DEF Account, TrainerAccount, Delivering
  <2>3. consumed + 1 <= mq[1] * Window + MaxReq + 1
    BY <2>1, <2>2 DEF Account, FreshAccount
  <2>4. mq[1] \in Nat /\ version \in Nat /\ Window \in Nat /\ InVersion \in Nat
        /\ consumed \in Nat /\ MaxReq \in Nat
    <3>1. Window \in Nat /\ InVersion \in Nat
      BY Products, Quantities DEF IInv
    <3>. QED  BY <2>1, <3>1, Assumption DEF Assumption, IInv, TypeOK, Entry
  <2>5. (version - mq[1]) * Window = used - mq[1] * Window
        /\ used \in Nat /\ mq[1] * Window \in Nat
    BY <2>4
  <2>. HIDE DEF used
  <2>. QED  BY <2>1, <2>2, <2>3, <2>4, <2>5
<1>. QED  BY Inductive, Accounts, <1>1, PTL

\* With staleness_threshold = 0 training is synchronous, at any speed of the
\* trainer.
THEOREM ZeroStalenessIsSynchronous == Spec => []SynchronousMode
<1>1. IInv /\ Account => SynchronousMode
  <2>. SUFFICES ASSUME IInv, Account, Delivering, MaxReq = Window
                PROVE  version = Head(mq)
    BY DEF SynchronousMode
  <2>1. Head(mq) = mq[1] /\ 1 \in 1 .. Len(mq) /\ mq[1] # END
    BY GetEntries DEF IInv, Delivering
  <2>. QED  BY <2>1 DEF Account, TrainerAccount, SyncAccount, Delivering
<1>. QED  BY Inductive, Accounts, <1>1, PTL

\* END is behind every sample: a trainer that stopped without a failed
\* generation has left nothing behind.
THEOREM NothingLeftBehind == Spec => []EndAfterAll
<1>1. IInv /\ Account => EndAfterAll
  <2>. SUFFICES ASSUME IInv, Account, trainer = "stopped", failures = 0
                PROVE  /\ ActiveTasks = 0 /\ held = 0 /\ mq = <<>>
                       /\ consumed + dropped = Total
    BY DEF EndAfterAll
  <2>1. stopping /\ main # "streaming" /\ proc = "done"
    BY DEF Account, TrainerAccount, EndAccount, TaskAccount, IInv, EndIsLast
  <2>2. ActiveTasks = 0 /\ fed = Total /\ held = 0
    BY <2>1 DEF Account, TaskAccount, IInv, HeldInRoom, TypeOK
  <2>3. generating = 0 /\ EndQueued = 0
    BY <2>1, <2>2 DEF IInv, TypeOK, ActiveTasks, EndQueued
  <2>4. mq = <<>>
    BY <2>1 DEF Account, EndAccount, IInv, TypeOK
  <2>. QED  BY <2>2, <2>3, <2>4 DEF Account, SampleAccount, Samples, IInv, TypeOK
<1>. QED  BY Inductive, Accounts, <1>1, PTL
=============================================================================
