----------------------------- MODULE Utilities -----------------------------
(***************************************************************************)
(* Seven parts that share nothing, checked in one state graph: a behaviour *)
(* is a behaviour of one of them, the others stay in their initial state.  *)
(***************************************************************************)
EXTENDS WeightBuckets, FiniteSets, Sequences

CONSTANTS
    NRows, Workers, BatchSize, MaxLives,
    Callers, Demands, Rate, MaxTokens, MaxConcurrent,
    Batch, Lengths, Limits, Worlds,
    PromptLength, ResponseLength, MaxAssistantTurns, MaxUserTurns, MaxParallelCalls, MaxCalls,
    MaxImages,
    LoopWorkers, ValSizes, ValBatches, MaxRaises,
    EpochSteps, TotalEpochs, Totals, SaveEvery, WarmupSteps, MaxKills

ASSUME UtilAssumption ==
    /\ {NRows, Workers, BatchSize, MaxLives, Rate, MaxTokens, MaxConcurrent} \subseteq Nat \ {0}
    /\ IsFiniteSet(Callers)
    /\ Callers \cup Demands \cup Lengths \cup Limits \cup Worlds \cup {Batch} \subseteq Nat \ {0}
    /\ {PromptLength, ResponseLength, MaxParallelCalls} \subseteq Nat \ {0}
    /\ {MaxAssistantTurns, MaxUserTurns, MaxCalls, MaxImages} \subseteq Nat
    /\ ValSizes \cup {LoopWorkers, ValBatches} \subseteq Nat \ {0} /\ MaxRaises \in Nat
    /\ Totals \cup {EpochSteps, TotalEpochs} \subseteq Nat \ {0}
    /\ {SaveEvery, WarmupSteps, MaxKills} \subseteq Nat

VARIABLES
    part,   \* which of them this behaviour is of, see UtilInit
    tool, life, pc, file, open, completed, next, pending, batch, unread, parquet,
    demand, where, sleep, tokens, age, level,
    lens, mode, k, heap, phase, parts, restored,
    agent, promptIds, mask, logprobs, scored, images, turns, calls, messages, output,
    validator, rows, streaming, answering, sent, rewards, raised, records, report,
    lastStep, driver, current, resumed, actor, rollout, reader, ends, future, training,
    saved, kills

Results == INSTANCE ResultFile
Limiter == INSTANCE RateLimiter
Balance == INSTANCE SeqBalance
Tools   == INSTANCE ToolAgent
Validate == INSTANCE Validation
OneStep == INSTANCE OneStepOff

resultVars  == <<tool, life, pc, file, open, completed, next, pending, batch,
                 unread, parquet>>
limiterVars == <<demand, where, sleep, tokens, age, level>>
balanceVars == <<lens, mode, k, heap, phase, parts, restored>>
toolVars    == <<agent, promptIds, mask, logprobs, scored, images, turns, calls,
                 messages, output>>
validVars   == <<validator, rows, streaming, answering, sent, rewards, raised, records,
                 report>>
oneStepVars == <<lastStep, driver, current, resumed, actor, rollout, reader, ends, future,
                 training, saved, kills>>

firstVars  == <<vars, resultVars, limiterVars, balanceVars>>
secondVars == <<toolVars, validVars, oneStepVars>>
all == <<part, firstVars, secondVars>>

UtilInit ==
    /\ part \in {"weights", "results", "rewards", "balance",
                 "tools", "validation", "steps"}
    /\ Init /\ Results!Init /\ Limiter!Init /\ Balance!Init
    /\ Tools!Init /\ Validate!Init /\ OneStep!Init
    /\ part # "steps" => lastStep = CHOOSE total \in Totals : TRUE

In(name) == part = name /\ UNCHANGED part

InWeights == In("weights") /\ UNCHANGED <<resultVars, limiterVars, balanceVars, secondVars>>
InResults == In("results") /\ UNCHANGED <<vars, limiterVars, balanceVars, secondVars>>
InRewards == In("rewards") /\ UNCHANGED <<vars, resultVars, balanceVars, secondVars>>
InBalance == In("balance") /\ UNCHANGED <<vars, resultVars, limiterVars, secondVars>>
InTools   == In("tools") /\ UNCHANGED <<firstVars, validVars, oneStepVars>>
InValid   == In("validation") /\ UNCHANGED <<firstVars, toolVars, oneStepVars>>
InOneStep == In("steps") /\ UNCHANGED <<firstVars, toolVars, validVars>>

\* Nothing is left to do, or, with the weights, two processes wait for each
\* other because one has raised.
Stop ==
    /\ \/ part = "weights" /\ (sender \in {"done", "failed"} \/ receiver = "raised")
       \/ part = "results" /\ pc \in Results!Ended /\ life = MaxLives
       \/ part = "rewards" /\ Limiter!Rewards
       \/ part = "balance" /\ phase = "done"
       \/ part = "tools" /\ Tools!Rests
       \/ part = "validation" /\ validator \in {"done", "raised"}
       \/ part = "steps" /\ driver \in {"done", "failed"}
    /\ UNCHANGED all

UtilNext ==
    \/ InWeights /\ Next
    \/ InResults /\ Results!Next
    \/ InRewards /\ Limiter!Next
    \/ InBalance /\ Balance!Next
    \/ InTools /\ Tools!Next
    \/ InValid /\ Validate!Next
    \/ InOneStep /\ OneStep!Next
    \/ Stop

\* Threads, coroutines and both ends of the transfer go on when they can, and
\* time passes.  (One condition for all parts: a behaviour is of one of them.)
Goes ==
    \/ InWeights /\ Transfer
    \/ InResults /\ Results!Work
    \/ InRewards /\ Limiter!Tick
    \/ InTools /\ Tools!Next
    \/ InValid /\ Validate!Drives
    \/ InOneStep /\ OneStep!Step

FairSpec ==
    /\ UtilInit /\ [][UtilNext]_all
    /\ WF_all(Goes)
    /\ \A c \in Callers : WF_all(InRewards /\ Limiter!Request(c))
    /\ WF_all(InValid /\ Validate!Scores)

-----------------------------------------------------------------------------
\* Types, module by module.
UtilTypeOK ==
    /\ BucketTypeOK /\ Results!TypeOK /\ Limiter!TypeOK /\ Balance!TypeOK
    /\ Tools!TypeOK /\ Validate!TypeOK /\ OneStep!TypeOK

\* See ResultFile.tla: a life that ends without an error leaves every row's
\* record, whatever earlier lives were killed in.
EndsWhole == Results!EndsWhole

\* See RateLimiter.tla: no stretch of time grants more than the bucket allows.
RateBound == Limiter!RateBound

\* Rows come back where they were.  See SeqBalance.tla: the partitions are
\* complete, disjoint, not empty and balanced, and micro-batches are put back
\* in order; and Validation.tla: every row is reported once, in order, with its
\* own answer and score and none of the padding.
RowsInPlace == Balance!Partition /\ Validate!RowsInPlace

\* See ToolAgent.tla: what is trained on is exactly what the model said, with
\* the images of the messages its tokens refer to.
Aligned == Tools!Aligned

\* See OneStepOff.tla: a batch is sampled by one version of the weights, at most
\* one update old, and no batch but those lost to a kill is left out; which runs
\* find too few batches, by their total number of steps and where they resume.
OneStepOff == OneStep!OneStepOff

Begun ==
    \/ part = "weights" /\ sender = "init"
    \/ part = "results" /\ pc = "submit" /\ Results!Sound
    \/ part = "rewards" /\ (\E c \in Callers : where[c] = "acquire")
    \/ part = "tools" /\ agent = "generating"
    \/ part = "validation" /\ validator = "generate"
    \/ part = "steps" /\ driver = "await"

Over ==
    \/ part = "weights" /\ (\/ sender = "done" /\ receiver = "done"
                            \/ sender = "failed" \/ receiver = "raised")
    \/ part = "results" /\ pc \in {"done", "killed"}
    \/ part = "rewards" /\ Limiter!Rewards
    \/ part = "tools" /\ agent \in {"terminated", "raised"}
    \/ part = "validation" /\ validator \in {"done", "raised"}
    \/ part = "steps" /\ driver \in {"done", "failed"}

\* Every request for a reward gets one, whatever the others take first; a
\* transfer ends at both sides unless one of them raises; a life on a result
\* file whose lines are all whole ends without an error, unless it is killed;
\* a trajectory with tools, a validation with streams of rewards, and a run
\* that is killed and resumed end.
EachEnds == Begun ~> Over
=============================================================================
