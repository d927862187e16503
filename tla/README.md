# V-Zero in TLA+

V-Zero (`src/`) is a reinforcement-learning post-training system built on a
fork of `verl`: rollout servers generate answers, agent loops and teachers score
them, a trainer updates the policy and publishes new weights to the servers.
This directory models the parts of it whose correctness depends on the order in
which concurrent actors take their steps, model-checks those models with TLC on
small instances, and proves the central invariants with TLAPS.

All paths below are relative to `src/`.

## 1. Inventory

### 1.1 Fully asynchronous pipeline (`verl/experimental/fully_async_policy`)

Three Ray actors exchange samples.

| part | state | operations |
|---|---|---|
| Rollouter (`fully_async_rollouter.py`) | `staleness_samples`, `paused`/`_resume_event`, `active_tasks`, `lock`, `running`, `pending_queue` | coroutines of one event loop: `_feed_samples`, `_processor_worker`, `_process_single_sample_streaming` (one task per sample), `_async_monitor_loop`, `_streaming_generation_main`; remote call `reset_staleness` |
| MessageQueue (`message_queue.py`) | a bounded deque, counters, a condition variable | `put_sample` (a full queue drops its oldest entry), `get_sample` (waits), `get_statistics`, `get_queue_size`, `clear_queue`, `shutdown` |
| Trainer (`fully_async_trainer.py`) | `local_trigger_step`, `current_param_version`, `last_ckpt_version` | `fit` / `fit_step`: collect a batch, train, publish the weights, reset the rollouter's staleness counter, save |

The rollouter and the trainer share nothing but the queue and the calls
`put_sample`, `get_sample`, `update_weights`, `reset_staleness`.  What is hard:
every counter the rollouter throttles itself by is read in one place and used
after an `await`; `reset_staleness` overwrites `staleness_samples` with a sum of
two numbers read at different moments; the asyncio lock is held by the processor
while it waits for a task and by `reset_staleness` while it waits for the queue;
the end of the dataset is a marker in a lossy queue; a task that raises ends the
processor.  What makes it correct: generation stays within
`max_required_samples` of consumption, a sample is not staler than the
configured threshold when it is trained on, every sample reaches the trainer
before the end marker, and the three actors all stop.

### 1.2 Teacher log-prob streaming (`verl/experimental/agent_loop/agent_loop.py`)

| part | state | operations |
|---|---|---|
| `AgentLoopWorker`, several processes | per call: the sample tasks, the shared crop-context tasks by prompt, `teacher_logprob_queue`, the consumer tasks, `teacher_logprob_results` by sample; `_pending_teacher_logprob_streams` by id | `generate_sequences`, `_run_agent_loop`, `_consume_teacher_logprob_requests`, `_finalize_teacher_logprob_stream`, `get_teacher_logprob_stream` |
| `AgentLoopManager` and trainer | `stream_indices` carried by the rows of the batch | concatenate the workers' results, permute rows (`balance_batch`), redeem the streams, concatenate and permute the scores |

Hard: a sample, a context or a consumer raises while the others are under way,
and each branch has to stop exactly the tasks it did not wait for; one end
signal per consumer travels in the same queue as the requests; scores arrive in
any order and rows are permuted between submission and redemption.  What makes
it correct: every row gets the teacher's answer to its own sample, once and
completely, or the trainer gets an error; nothing is left waiting afterwards.

### 1.3 Rollout servers (`verl/workers/rollout/llm_server.py`, `verl/checkpoint_engine/base.py`, `fully_async_rollouter.py`, `fully_async_trainer.py`)

| part | state | operations |
|---|---|---|
| `GlobalRequestLoadBalancer` (an actor) | requests in flight per server, a bounded cache from session to server | `acquire_server`, `release_server`, `add_servers`, `remove_servers` |
| clients | the server acquired, turns, the partial answer | `generate`; a release is a remote call that is not awaited; an aborted call is retried a second later |
| engines (vLLM) | paused, awake, weights | pause and abort, drain, resume, sleep, wake up |
| trainer | the sequence of awaited calls | `update_weights`, `_trainer_side_validate` with hybrid replicas on the trainer's own GPUs |

Hard: clients acquire, arrive, are aborted and release between any two of the
trainer's calls; a release may arrive after its server left the pool and came
back with its count reset; a session may name a server that is gone; hybrid
servers lose their weights when they sleep.  What makes it correct: counts never
exceed the calls that are open, new work goes only to servers that are awake, a
generation is sampled from one version of the weights, and every conversation
is served.

### 1.4 Checkpoints and resume (`verl/trainer/ppo/ray_trainer.py`, `verl/utils/checkpoint`)

State on disk: shards per role, step and rank, `data.pt` with the position of
the dataloader, the tracker `latest_checkpointed_iteration.txt`.  State in
memory: `global_steps`, the epoch loop, `previous_saved_paths` of rank 0.  The
job may be killed between any two writes and is restarted with
`resume_mode=auto`.  It ends with step `total_training_steps`, which is the number
of batches of all epochs unless it is configured, to less or to more.  What makes
it correct: the tracker always names a complete checkpoint, a resumed run trains
on exactly the batches that were left, the disk stays bounded, and a finished run
has saved the step it ended with.

### 1.5 Replay buffer (`verl/trainer/main_ppo_sync.py`)

Agent-loop tasks put trajectories and prompt marks into the transfer queue (an
external service), a thread copies the queue's metadata into `ReplayBuffer`, and
the trainer marks prompts, dispatches them, waits in `sample` until none is
running, uses the batch and clears it from both.  Hard: the thread lists without
the lock and adds later; sessions of a failed prompt go on; the validation
batches of a step share its `global_steps`.  What makes it correct: the trainer
gets all trajectories of the batch it sent and no others, they are still in the
queue when it reads them, and it is never left waiting.

### 1.6 Launcher of an experiment (`scripts/fa3/launch.py`, `runtime_hooks.py`)

`launch` starts a process per node over ssh and tmux; the nodes check
themselves, meet through files (`claim`, `ready-<rank>`, `head-started`,
`failed-<rank>`, `result-<rank>`, all on a shared disk), start Ray and, on the
head, the driver; hooks in the driver count what the trainer does and certify it
(`complete.json`).  Hard: two hosts may be started with one rank, a node may fail
before the directory exists that its peers watch, or be killed and write nothing,
and the verdict hangs on a chain of counters, receipts and nonces.  What makes it
correct: success is reported only of a run that trained every step and saved what
it had to; nobody starts Ray before all are ready; every launch ends.

### 1.7 Result files (`annotation/label`, `eval/run.py`)

A pool of threads answers rows; the main loop keeps a bounded number pending,
drains what is complete, appends a line for each to a JSON-lines file, reads it
back for the summary.  A process that is killed, also in the middle of a line, is
started again and skips what the file has.  What makes it correct: a life that
ends has the record of every row, and a failed row is tried again by the
evaluation.

### 1.8 Token bucket of the reward limiter (`verl/experimental/reward_loop/reward_manager/limited.py`)

State: tokens, time of the last refill, a lock, a semaphore.  Callers that find
too few tokens sleep without the lock and compete again; a request larger than
the bucket takes its tokens at once and sleeps off the debt.  What makes it
correct: the rate over any stretch of time, and that nobody starves.

### 1.9 Bucketed weight transfer (`verl/workers/rollout/vllm_rollout/bucketed_weight_transfer.py`)

A trainer process packs its weights into a buffer shared with its vLLM server,
hands it over with a description of its contents, and fills it again once the
server has answered; a weight larger than the buffer goes by itself.  The copies
into the buffer are asynchronous.  What makes it correct: what the receiver loads
is what was sent, once and in full.

### 1.10 Sequence-length balancing (`verl/utils/seqlen_balancing.py`)

Pure: the Karmarkar-Karp partition of samples among ranks or micro-batches, the
number of micro-batches, their arrangement and its inverse.  What makes it
correct: every sample is in one part, no part is empty, results return to their
samples.

### 1.11 Tool agent loop (`verl/experimental/agent_loop/tool_agent_loop.py`)

One machine per trajectory: the model answers, its tool calls run in parallel
(create, execute, release), their responses become tokens with mask 0.  What
makes it correct: what is trained on is exactly what the model said, and images
and tokens agree, whichever limit ends the trajectory.

### 1.12 Validation (`_validate` in `verl/trainer/ppo/ray_trainer.py`, `agent_loop.py`, `protocol.py`)

Each batch is padded to a multiple of the workers, generated and cut back, while
the rewards of earlier batches are still being computed by the workers; the
streams are redeemed at the end.  What makes it correct: every row is reported
once with its own answer and score.

### 1.13 One-step-off-policy trainer (`verl/experimental/one_step_off_policy`, `verl/experimental/separation`)

The next batch is generated while the trainer works on the current one, and the
weights are published in between.  State: the task under way, the continuous
iterator, `global_steps`, what is on disk.  What makes it correct: a batch is one
update old at most and sampled by one version, and each batch is trained on once,
also after a restart.

### 1.14 Not modelled

| component | where | why |
|---|---|---|
| Kernel scheduling of the teacher | `scripts/fa3/teacher_scheduler.py`, `packed_boundary.py` | arithmetic inside one call on one device |
| Weight transports | `verl/checkpoint_engine/{nccl,nixl,mooncake}*` | protocols of device and network libraries |
| Single controller | `verl/single_controller` | dispatch and collect by rank, over Ray |
| Rollout skip and replay | `verl/utils/rollout_skip.py` | development aid |
| Models, engines, losses, configs | `verl/models`, `verl/workers`, `verl/trainer/config` | numerics and schemas |

## 2. Modules

| module | what it is | composed of |
|---|---|---|
| `FullyAsync` | rollouter, queue actor and trainer of 1.1 as one specification, since every property relates the counters of two of them | |
| `FullyAsyncProofs` | its theorems | extends `FullyAsync`, `TLAPS` |
| `TeacherScores` | abstract: what streaming promises to the trainer | |
| `TeacherStream` | 1.2 task by task; implements `TeacherScores` | `INSTANCE TeacherScores` |
| `TeacherStreamProofs` | its theorems | extends `TeacherStream`, `TLAPS` |
| `RolloutServers`, `RolloutServersProofs` | balancer, clients, engines and trainer of 1.3, and the theorems | |
| `Checkpoint`, `CheckpointProofs` | 1.4 file by file, with crashes, and its theorems | |
| `ReplayBuffer`, `ReplayBufferProofs` | 1.5 and its theorems | |
| `Launcher`, `LauncherProofs` | 1.6, launcher, nodes, driver and hooks together, and its theorems | |
| `ResultFile` | 1.7, both tools | |
| `RateLimiter` | 1.8 | |
| `WeightBuckets` | 1.9, both ends | |
| `SeqBalance` | 1.10 | |
| `ToolAgent` | 1.11 | |
| `Validation` | 1.12, trainer, manager and workers together | |
| `OneStepOff` | 1.13 | |
| `Utilities` | 1.7 to 1.13 in one state graph | extends `WeightBuckets`; `INSTANCE` of `ResultFile`, `RateLimiter`, `SeqBalance`, `ToolAgent`, `Validation`, `OneStepOff` |
| `UtilitiesProofs` | theorems of the parts `WeightBuckets`, `OneStepOff`, `ResultFile` and `RateLimiter`, and induction and sums | extends `Utilities`, `TLAPS` |
| `UtilitiesDataProofs` | theorems of `ToolAgent`, `Validation` and `SeqBalance`, lemmas about sequences of sequences, and the types of all parts | extends `UtilitiesProofs` |

The parts in `Utilities` share nothing.  Its variable `part` picks one; the others
stay in their initial states, so the state graph is the union of seven, and one
run answers for all.  Everything else that interacts is in one module.

All of them are specifications with their parameters as `CONSTANTS` under a
named `Assumption`, one action per handler or per stretch of code between two
suspensions, and no `RECURSIVE` operator, so that each can be proved about.  The
configurations `<module><variant>.cfg` give the constants small values; the
sets of servers and requests are model values, everything else is a number, so
no separate MC modules are needed.  An operator named `Mut...` is a plausible
bug in the definition that follows it; none is used by a specification.

### 2.1 How the models correspond to the code

**Coroutines.** `asyncio` code runs until it awaits something that is not ready.
An action is therefore the code from one suspension to the next, and everything
it does in between is in one step: `put` on an unbounded `asyncio.Queue`, or
`async with lock` on a free lock, does not suspend and starts no new action.
Remote calls do: the value a remote call returned and the value that is current
when it is used are different variables (`seen`, `monSeen`, `counted`).

**FullyAsync.** Samples are interchangeable for the control code and are
counted, not named: `held` (taken from `pending_queue`, not yet submitted),
`generating`, `sent` (put into the queue, the call not yet answered), `finished`
and `broken` (done, not yet reaped) partition `active_tasks`.  A queue entry is
the version of the weights that was being served when it was put, or `END`.
`proc`, `mon`, `main` and `trainer` say where each coroutine is.  Three facts of
the code are folded in: the feeder refills `pending_queue` at every await, so a
`get` there never blocks before the end; `paused` is set by the processor alone,
at the top of its loop, so the wait at lines 914-916 of
`fully_async_rollouter.py` is never entered; cancelling the feeder in the
`finally` block has no effect once it has put its `None`, and none on any count
before.

**TeacherStream.** A teacher's answer is represented by the sample it is about,
so "row r has the right scores" is `scores[r] = order[r]`.  `phase`, `task`,
`context`, `consumer` and `stream` are the positions of the coroutines of every
worker; `queue` holds sample positions and `None`, the end signal.  The
cancellation of a list of tasks followed by a `gather` of them is one step, as
is the `gather` that ends when all its members have.

**RolloutServers.** The trainer is the sequence of calls it awaits (`plan`);
calls on a group are a `gather` and reach the replicas one by one in any order
(`todo`).  `inflight` is a function whose domain is the pool, as the code's
dictionary is.  The engine is external and modelled by how `vllm_async_server.py`
uses it: pausing aborts what runs and blocks what arrives, resuming admits it.

**Checkpoint.** `shard`, `data` and `tracker` are the disk and survive `Crash`;
the rest is memory and does not.  Files are torn between open and close.  The
files of one rank are one shard, removing a directory is one step, and a restored
dataloader continues at the saved position or, at the end of an epoch, is
exhausted (external: `StatefulDataLoader`, as `ray_trainer.py:1507-1510`
describes it).  Whether the instance is close to expiring is nondeterministic.
`Total` is `total_training_steps`, `Limit` the number of batches of all epochs, and
neither bounds the other.

**ReplayBuffer.** Keys are `<<batch, prompt, 0>>` for the uid of a prompt and
`<<batch, prompt, session>>` for a trajectory.  Put, list and clear are atomic
in the transfer queue; the trainer's clean-up is two steps (`ClearQueue`,
`Remove`) and the poll thread's round is a list and one add per partition.

**Launcher.** A launch is `<<rank, n>>`, the n-th host started with a rank, and
stands for the nonce it was given.  Each kind of file is a variable, a set of the
ranks or launches that have written it.  `wait_for` is a loop over files of
peers: `Look` (at failures first), `Arrive`, `KeepWaiting` and, at the deadline,
`Expire` are steps of their own, so that files appear between them.  Claiming a
rank and creating its directory is one step.  `trouble` bounds exceptions, dead
hosts and notices of expiry; `calm` says that there was none.

**ResultFile.** A line is `<<row, ok>>`, or `Torn`: one that JSON cannot read.
`open` says that the file ends without a newline, after which the next append
glues two records together.  `life` counts the processes.

**RateLimiter.** Time is discrete, in units in which `Rate` tokens flow; sleeps
are rounded up to whole units.  `level` is not in the code: it is a meter that
drains at the same rate and is filled by every grant, so that a bound on it is a
bound on the grants of every stretch of time.

**WeightBuckets.** The buffer is a function from bytes to where their content
comes from, `<<weight, byte>>`; copies are started in one step and land in
others.

**SeqBalance.** Parts are sets of samples.  Where the code's order depends on
comparing lists of tuples, ties are broken in any way.  `BySize` says what
Python's `sorted` returns, and `Sorted` what `_check_and_sort_partitions` makes of
a part.

**TeacherStream** covers both modes of the stream (`Modes`), chosen initially.

**ToolAgent.** A token is where it comes from.  A response of a tool is one token
of text and one place for its images, however many it has; `MaxImages` bounds
them.  An image is the place it was returned for, so that `images` shows both
which responses it has images of, and how many.

**Validation.** A row is `<<batch, place>>` and so are its answer and its score;
the consumers of a stream are one step per score, in any order.  Its queue and
end signals are those of `TeacherStream` and are not repeated.

**OneStepOff.** A batch is its place in the run's stream of batches; weights are
the number of updates they have had.  `lastStep`, `total_training_steps`, is
chosen initially from `Totals` and may be less or more than `Stream`, the batches
of all epochs.  Checkpoints are whole (`Checkpoint` has them file by file).

## 3. Runs

| run | expected | constants | properties |
|---|---|---|---|
| `async_safety` | pass, 513k states | 9 samples, 2 local steps of 1 sample per version, `MaxReq` 5, 2 tasks, 1 failure | `TypeOK`, `OutstandingBound`, `StalenessAccount`, `Freshness`, `EndAfterAll` |
| `async_synchronous` | pass, 4k states | 9 samples in batches of 2, `MaxReq` = 2 = `Window` (threshold 0), fairness, `PromptLoop` | `SynchronousMode`, `Termination` |
| `stream` | pass, 613k states | 2 workers, 2 samples of one prompt, 2 consumers, both modes, 1 fault | `TypeOK`, `NothingMissing`, `CleanedUp`, `DeliversScores`, `NothingLeftRunning` |
| `servers` | pass, 322k states | 1 standalone and 1 hybrid server, 1 training and 1 validation conversation of 2 turns, cache of 1, 2 versions | `TypeOK`, `NoInventedLoad`, `OneVersion`, `GrantsAwake`, `AllServed` |
| `servers_sleep` | violation | the same | `SafeSleep` |
| `checkpoint` | pass, 154k states | 2 ranks, critic, 3 epochs of 2 steps, 5 steps in all, save every 4, warm-up 2, keep 2, expiring, 2 crashes | `TypeOK`, `Resumable`, `DiskBound`, `Aligned`, `FinalCheckpoint` |
| `ckpt_keep_one` | violation | keep 1, 1 crash | `Resumable` |
| `ckpt_sync_resume` | violation | `SkipsAtEpoch = FALSE`, 1 crash | `Aligned` |
| `replay` | pass, 267k states | 2 steps, each followed by 1 validation batch, 1 prompt, 2 sessions, 1 fault | `TypeOK`, `NoneMissed`, `OwnBatch`, `ReadsLive`, `TrainingEnds` |
| `replay_ghosts` | violation | 2 validation batches | `ReadsLive` |
| `launcher` | pass, 134k states | 2 nodes, 2 hosts per rank, 3 steps, save every 2, 1 trouble | `TypeOK`, `EarnedSuccess`, `StartsTogether`, `AllEnd`, `CalmSucceeds` |
| `utilities` | pass, 367k states | see 3.2 | `UtilTypeOK`, `Intact`, `EndsWhole`, `RateBound`, `RowsInPlace`, `Aligned`, `OneStepOff`, `EachEnds` |

Every action of every module fires in a passing run, and deadlock is checked in
all of them: a state with no successor other than the `Stop` of a finished
system is an error.  (`ReplayBuffer` has no `Stop`: its poll thread never ends.)

### 3.1 What the properties say

`FullyAsync`.  `OutstandingBound` is back pressure: samples held, in generation
or queued exceed `max_required_samples` by at most the held sample, and the end
marker.  The slack is real: the sample the processor took before
`reset_staleness` overwrote the counter is counted by nobody.
`StalenessAccount` is why: the counter misses at most that one, although it is
assigned from two numbers read at different moments.  `Freshness` is the purpose
of the counter: no sample the trainer takes is more than
`1 + staleness_threshold` versions old.  `SynchronousMode` is its special case
for threshold 0, where a batch is trained on by the version that generated it.
`EndAfterAll`: nothing is behind the end marker, and nothing is lost
unaccounted.  `Termination`: trainer, streaming main and monitor all end.

`TeacherStream`.  `DeliversScores` is the refinement of `TeacherScores`: one
batch, complete, each row with its own sample's scores, or an error, and one of
the two in the end.  `NothingMissing` is the safety fact behind it,
`NothingLeftRunning` and `CleanedUp` are about the tasks left behind by whatever
raised.

`RolloutServers`.  `NoInventedLoad`: the balancer's count of a server never
exceeds the calls still open on it, so an idle server counts zero again after
any sequence of leaving, rejoining and late releases (it may count too low after
a rejoin: the releases of the earlier membership are subtracted).
`GrantsAwake`: a request is only given to a server that is in the pool and has its
weights.
`OneVersion`: a standalone server is never updated under a generation.
`AllServed`: every training conversation ends, as long as no call is let onto a
sleeping engine; `servers_sleep` shows that the code does let one on.

`Checkpoint`.  `Resumable`: the checkpoint the tracker names is complete and
carries the position it was saved at, whenever the job is killed.  `Aligned`:
`global_steps`, the epoch and the dataloader agree, so that across all restarts
step s trains on batch s.  `DiskBound`: each life leaves at most
`max_ckpt_to_keep` checkpoints.  `FinalCheckpoint`: a run ends after its last step
or when its epochs are over; if they are enough for `total_training_steps`, the
tracker names the step it ends with, which is the last one, or one more for each
restart between the save of a last step and the end of the job.

`ReplayBuffer`.  `NoneMissed`: no trajectory is overtaken by the mark of its
prompt.  `OwnBatch`: none of an earlier batch, and none put late for a prompt
that had failed, is sampled.  `ReadsLive`: what was sampled is still in the
queue when it is read.  `TrainingEnds`: the wait in `sample` ends.

`Launcher`.  `EarnedSuccess`: a launch that reports success has a run behind it
that trained every step on every rank and saved every scheduled checkpoint whole,
whoever else was started with its rank.  `StartsTogether`: Ray starts when every
rank is ready, on workers after the head.  `AllEnd`: every launch ends, whatever
dies without a word.  `CalmSucceeds`: without trouble all succeed (nobody waits
for somebody who waits for him).

`Utilities`.  `Intact`: what the receiver has loaded of a weight is its bytes.
`EndsWhole`: a life that ends without an error leaves a record of every row, the
annotator exactly one, and the exported set is that of the good ones.
`RateBound`: no stretch of time grants more than flows in it plus the bucket,
oversized requests apart.  `RowsInPlace`: partitions cover the batch, none is
empty, equal ones are equal, results return to their samples; and validation
reports every row once, in order, with its own answer and score and without the
padding.  `Aligned`: mask and log-probs mark the model's own tokens, the prompt is
the prompt, and the images are those of the responses that have a place among the
tokens, at least one for each place, in their order, and no others.
`OneStepOff`: a batch is sampled by one version of the weights, trained on by an
actor at most one update ahead, and at most one batch is lost with each kill; the
iterator runs dry only in runs that are to take more steps than their epochs have,
or are resumed inside their first epoch.  `EachEnds`: each
of the seven ends once begun (a reward is given, the transfer is over at both ends
or raised at one, a life on a readable file ends without an error or is killed,
...).

### 3.2 Bounds

- `async_safety`: nine samples are four versions and a remainder, so the
  counter is reset with the queue full, half full and empty, and `MaxReq` 5 is no
  multiple of `Window`.  Two tasks make `active_tasks` full while the processor
  holds a sample.  One failure is enough to reach every failure path (a second
  one finds the processor already gone).
- `stream`: two workers, because the concatenation and the permutation relate
  rows of different workers; two samples and two consumers, so that samples
  finish, are asked for and are answered in either order, with a crop context
  that both share, whether the worker or the trainer waits for the scores. One
  fault reaches every failure branch; it can hit any call at any time.
- `servers`: with one server of each kind the pool shrinks to one and grows
  again; a cache of one session makes it evict; two turns make a session sticky;
  two versions let releases of the first be late for the second validation.
- `checkpoint`: an epoch end on and off the save frequency, a last step off it and
  inside an epoch, saves before and after warm-up, and a second crash while
  resuming from the first one's checkpoint, overwriting a torn one, or behind the
  save of the last step, after which the run goes on to step 6.  A `Total` of 6 or
  more adds no kind of step: the epochs end the run (section 5 has every `Total`).
- `replay`: the second step meets what the first left behind; a session that
  raises leaves a sibling that puts late.  `replay_ghosts` needs a second
  validation batch of the same step, which is exactly what `replay` has not: with
  one, which is what the data loader gives unless a validation batch size is
  configured (`main_ppo_sync.py:544`), `ReadsLive` holds, and section 5 proves it.
- `launcher`: two nodes are a head and a worker, the least that wait for each
  other; the second host of each rank is the duplicate launch; three steps with a
  save every two have a step that is saved, one that is not and the last, which
  is saved off the schedule.
- `utilities`, part by part.  Weights: three of 1, 2, 4 or 6 bytes with items of 1
  or 2 through 4 bytes: a weight that fits behind others, one that does not, one
  that fills the bucket and one that exceeds it, in every order.  Result file:
  three rows, two threads, summaries every two rows, three lives.  Rewards: three
  requests of 1 to 3 tokens through a bucket of 2 at 1 per unit, one computing at
  a time, so some are oversized, some wait and are overtaken.  Balancing: every
  batch of 4 samples of lengths 1 to 3, 1, 2 or 4 ranks, micro-batches of 3, 4 or
  6 tokens.  Tools: prompts of up to 2 tokens, responses of 6, 3 model turns, 2
  tool turns, 2 calls at once of 3 asked for: each limit ends some trajectory, and
  responses of tools fit, fit exactly and do not fit, with none, one or two images.
  Validation: two batches of
  1 to 3 rows on 2 workers (padded or not, also by more than their own length of
  one), one reward that raises, both modes.  One-step-off: two epochs of 3 steps,
  a total of 5, 6 or 7, saves every 2 (on and off epoch boundaries) or at any step
  when expiring, warm-up of 2 steps, two kills.

### 3.3 Fairness

- `FullyAsync`: the event loop runs every ready coroutine (weak fairness would do
  for most), and `asyncio.Lock` is granted in order of arrival, which is why the
  four actors that take it have strong fairness.  Generations and training steps
  end; a generation need not fail.  `PromptLoop = TRUE` states that a training
  step, which takes minutes, does not start and end between two turns of the
  rollouter's event loop.  Without it `reset_staleness` can count tasks that are
  done but not reaped once as active and once as queued, and with a threshold of
  zero the pipeline can come to a halt.  `async_safety` does without it.
- `TeacherStream`: every ready coroutine runs; generations, crop contexts and
  teacher calls end, with an answer or an exception.
- `RolloutServers`: remote calls are delivered, generations on an engine that is
  awake end, the trainer goes on when its calls return.  Nothing is assumed of an
  engine that sleeps.
- `ReplayBuffer`: agent loops end, their event loop, the poll thread and the
  trainer go on.
- `Launcher`: processes go on, and so does the driver, whose run is limited by a
  timeout anyway.  Deadlines pass (strong fairness of `Expire`: a wait polls, and
  its clock does not stand still because a file appears and disappears).
- `Utilities`: threads, coroutines and both ends of the transfer go on; time
  passes; scores are computed; tools and generations end.  One condition covers
  the parts together, since a behaviour is of one of them; callers of the limiter
  and the computation of scores have their own.

## 4. Disagreements between code and text

| run | the text | the code |
|---|---|---|
| `servers_sleep` | `vllm_async_server.py:1053` drains "for safe sleep" | `_trainer_side_validate` puts hybrid servers to sleep and then resumes them, which admits the calls that had arrived while they were paused |
| `ckpt_keep_one` | `checkpoint_manager.py:148-149`: the old checkpoint is kept until the new save completes | it is removed when the actor is written; critic, `data.pt` and tracker follow, and a crash in between leaves a tracker that names a checkpoint without actor |
| `ckpt_sync_resume` | `ray_trainer.py:1507-1510` explains why the dataloader is not restored at the end of an epoch | `main_ppo_sync.py:763` restores it there too, and the resumed run skips an epoch |
| `replay_ghosts` | `main_ppo_sync.py:937`: clean up queue and replay buffer | the poll thread brings back what was cleared between its list and its add, and the next validation batch samples it |

Noticed while reading and not given a run of their own:

- Checkpoints.  `previous_saved_paths` starts empty, so checkpoints of an earlier
  life are never rotated out (`DiskBound` counts lives for this reason).  The
  tracker is opened with `"w"` and a crash before it is closed leaves it empty
  (`LoadRaises`).
- The end of a run.  `ppo_trainer.yaml:121-122` lets `total_training_steps` be set.
  Above `len(train_dataloader) * total_epochs` no step is the last one
  (`ray_trainer.py:1883`): the epochs end, `fit` returns without a final save or
  validation, and the steps since the last multiple of `save_freq` are lost
  (`FinalCheckpoint` is about totals the epochs are enough for).  The one-step
  trainer fails then: its iterator ends and it unpacks `None`.  A job that is
  killed between the save of its last step and its end trains one step more when
  it is restarted, as long as an epoch has a batch left.
- Rollout.  `fully_async_policy/README.md:216` says that without partial rollout a
  parameter sync waits for ongoing tasks; `update_weights` aborts them, and what
  they had generated is put into the queue as if complete.
  `get_active_server_count` adds two lists that overlap.  A caller cancelled
  between the acquire call and its answer (`llm_server.py:201`) never releases its
  server.  If a whole training step fits between two turns of the rollouter's
  event loop, `reset_staleness` (`fully_async_rollouter.py:573`) counts finished
  tasks twice, and a small threshold can leave rollouter and trainer waiting for
  each other; 3.3 says where this is assumed away.
- Streams.  If `_postprocess` raises (`agent_loop.py:1590`) the stream registered
  just before is never returned to anybody; a redemption that raises leaves the
  other streams of the batch, and of later batches, registered.
- Replay buffer.  The entries of prompts are never cleared from the transfer queue
  (`main_ppo_sync.py:1566`).
- Launcher.  A second launch of a rank writes a failure that ends the running
  job's nodes; on the same host the tmux session of that name prevents it.  A
  failure recorded in `output` because `execution` does not exist yet is not seen
  by peers that watch `execution`: deadlines end their waits.  A save at an
  unscheduled step, when the instance expires, makes the hook raise.  With a budget
  smaller than the distance to the next boundary, `teacher_scheduler.py:68`
  schedules nothing.
- Result files.  A torn last line is skipped by `load_completed_indices`
  (`output.py:56`), but `summarize_results` (`output.py:68`) raises on it, so no
  later life of the annotator ends without an error; the evaluation raises when it
  starts (`summary.py:107`).  A row whose record was glued to a torn line is called
  again although `annotation/README.md:71` says every recorded index is skipped.
  `--limit` is per life.
- Reward limiter.  After a timeout the executor's thread runs on, so
  `max_concurrent` is exceeded.
- Weight transfer.  A view at an offset its item size does not divide raises in the
  receiver, and the sender's `recv` has no timeout; a shared-memory buffer that is
  too small stops the sender and leaves the receiver waiting.
- Balancing.  The docstring of `rearrange_micro_batches` bounds the tokens of a
  micro-batch by the limit; lengths 3, 3, 2 with a limit of 4 give one of 5.
- Tool agent.  `tools/schemas.py:112` offers `{'image': [img1, img2, ...]}`.  All
  images of the list are added (`tool_agent_loop.py:324-328`), but the response has
  one place whatever their number (line 309), so a processor that takes one image
  per place does not find as many places as images.  `Aligned` states what holds of
  lists: the places stand for the images of their responses, in order.  An entry
  that is `None` is dropped while the place stays; that is not modelled.  A release
  that raises ends the trajectory while sibling calls go on.  With no generated
  token at all, which only an aborted call can give, the slice
  `prompt_ids[-len(response_mask):]` is the whole prompt.
- Data protocol.  Automatic padding changes the caller's object (`protocol.py:849`)
  and `DP_COMPUTE_METRIC` would drop outputs of whole workers
  (`single_controller/ray/base.py:57-62`); nothing enables either.
- One-step-off.  `data.pt` is saved after the prefetch, so each resume skips a
  batch, and one at an epoch boundary, where the position is not restored, repeats
  what a skip had moved.  The continuous iterator starts again with `total_epochs`
  epochs; a run resumed inside its first epoch has too few batches, and its last
  step unpacks `None`.  With one epoch, no resumed run can finish, although
  `ppo_trainer.yaml:162` resumes by default.  An exception while loading a batch is
  swallowed and ends the same way.  Validation at step s measures the weights
  published before that step's update; with a colocated reward model it would put
  servers to sleep while they generate the next batch.

## 5. Proofs

13917 obligations, checked by `tlapm` with Z3, Zenon and LS4, for every value of
the constants that satisfies the module's `Assumption`.  The few theorems that
need more say so in an `ASSUME`; section 4 says how the code fails without it, and
each has a run whose expected violation shows that.

**FullyAsyncProofs** proves `Spec => []TypeOK` (`TypeCorrect`),
`[]OutstandingBound` (`BackPressure`) and `[]StalenessAccount`
(`StalenessNeverLow`).  Neither bound is inductive.  What is submitted is bounded
by what the counter says when it is submitted, so `OutstandingBound` needs
`StalenessAccount`; that one is disturbed by `reset_staleness`, which stores a
number counted earlier, so it needs `ResetCovers`: what has been counted so far
covers what is still generating and, in the end, what is queued.  `ResetCovers`
holds because submissions need the lock that `reset_staleness` holds
(`LockHolder`) and a sample is held only where the processor waits for room
(`HeldInRoom`).  `QueueBound` and `EndIsLast` take care of the queue's overflow
and of the end marker.  `IInv` is their conjunction; one lemma per actor
(`ProcessorKeeps`, `GenerationKeeps`, `MonitorKeeps`, `MainKeeps`,
`TrainerKeeps`) has one step per action.  The assumptions used are the ranges of
the constants and `MaxReq >= Window`, which the code computes it from.

A second invariant, `Account`, inductive relative to `IInv`, says where every
sample is, and gives `[]Freshness` (`SamplesFresh`), `[]SynchronousMode`
(`ZeroStalenessIsSynchronous`) and `[]EndAfterAll` (`NothingLeftBehind`).

- Freshness is about the moment the trainer takes a sample, but it is decided
  when the sample enters the queue.  What the trainer has used since the last
  reset and what is held, generating or queued never exceed `MaxReq + 1`
  together.  Hence the entry at position i was put by a version v with
  `consumed + i <= v * Window + MaxReq + 1` (`FreshAccount`).  This is kept by a
  `get`, which moves i down and `consumed` up, and by an overflow, which only
  moves i down.  At the head, with `consumed >= version * Window`
  (`TrainerAccount`), it is the bound.
- The slack of one sample would make threshold 0 useless.  `SyncAccount` shows
  that there it is not used: with `MaxReq = Window` the processor cannot hold a
  sample while `reset_staleness` overwrites the counter, because all of a
  version's samples have been used.  The theorem does not assume `PromptLoop`:
  the pipeline may come to a halt without it, but it does not mix versions.
- `EndAccount`: there is one end marker, last in the queue as long as nothing
  failed, and fewer entries than `MaxConc` behind it otherwise; that is why an
  overflow cannot drop it.  With `TaskAccount` (a processor that is done has no
  task) and `SampleAccount` (fed = held + generating + queued + consumed +
  dropped) nothing is left behind.

**TeacherStreamProofs** proves `Spec => []TypeOK` (`StreamTypeCorrect`) and
`Spec => []NothingMissing` (`NoScoreIsMissing`).  The invariant is one of each
worker (`StreamInv`): a finished sample is queued, with the teacher or scored
unless a consumer is lost (`Accounted`); results are of their own sample
(`OwnResults`); end signals stay behind requests (`SignalsLast`) and are only
sent when all samples are done (`SignalsAfterAll`); once a consumer has returned
only signals are left (`OnlySignalsLeft`).  When all consumers have returned,
none is lost or asking and no request is queued, so every sample is scored.
`NoRequestMoves` disposes of all actions that touch neither queue nor results,
`OneWorkerMoves` and `OthersInv` of the other workers, and one lemma per group
of actions (`SampleKeeps`, `ConsumerKeeps`, `CallKeeps`, `StreamKeeps`,
`FaultKeeps`) of the worker that moves.

A second invariant, `EndInv`, follows a call to its end: which coroutines each
`phase` has waited for or cancelled (`EndsBehind`), and how far the trainer is
(`CallerInv`).  It gives `[]CleanedUp` (`NothingIsLeaked`), whichever coroutine
raised and whatever the others were waiting for.  `ScoresAreOwn` is the step
simulation of the abstract specification: `Spec` implies `Promise!Init` and
`[][Promise!Next]_(Promise!vars)`, where `Promise` is `TeacherScores` under the
refinement mapping.  A `Resolve` of the last stream maps to the delivery, and is
one only because every row's scores are there (`NothingMissing`) and are those
of its own sample (`OwnResults`); a raised stream or call maps to the error; all
other steps stutter.

**RolloutServersProofs** proves `Spec => []TypeOK` (`TypeCorrect`),
`[]NoInventedLoad` (`LoadIsReal`), `[]OneVersion` (`SampledFromOneVersion`) and
the action property `GrantsAwake` (`GrantedServersAreAwake`), for any servers,
conversations, cache size and number of versions.  The trainer runs through a
fixed sequence of calls, so `PlanInv` says that what is left of it is a piece of
`Sync \o Validate` up to its end, and states for each position what the calls
before it have done: which standalone servers are paused and drained (`QuietAt`),
which hybrid ones are in the pool (`AliveAt`) and awake (`AwakeAt`).  Weights of
a standalone server change only at a position where `QuietAt` says that nobody
runs on it, hence `OneVersion`; a server in the pool is standalone or alive
(`PoolInv`), hence awake, hence `GrantsAwake`, since the balancer forgets the
sessions of a server it removes or finds gone.  `NoInventedLoad` is inductive by
itself given that the calls holding a server are finitely many (`FewHolders`).

**CheckpointProofs** proves `Spec => []TypeOK` (`TypeCorrect`) and
`[]DiskBound` (`DiskIsBounded`); `[]Resumable` (`AlwaysResumable`) for every
`MaxKeep # 1`; and, for a trainer that does not restore the dataloader at the end
of an epoch (`SkipsAtEpoch`), `[]Aligned` (`StepsAligned`) and `[]FinalCheckpoint`
(`EndsWithCheckpoint`).  `ckpt_keep_one` and `ckpt_sync_resume` show that the
hypotheses are needed: both are what the code does in other configurations, and
both fail there.  The invariant relates what a life has in memory to what all
lives have left on disk.  `SavedInv`: the saves rank 0 remembers ascend to the
current step.  `WrittenInv`: what the writing ranks have closed is whole.
`TrackerInv`: the checkpoint the tracker names is whole, carries its position and
is older than the one being written, and nothing rank 0 remembers lies between
the two, so a rotation, which removes the oldest, reaches it only if it is the
only one kept.  `LoopInv` is the arithmetic of step, epoch and position; `EndInv`
says how far beyond `Total` the restarts may have got, and that after a last
step the tracker names that step.  `SpaceInv` counts, per life, what is remembered
and what is not.

**LauncherProofs** proves `Spec => []TypeOK` (`LauncherTypes`),
`[]StartsTogether` (`RayStartsTogether`) and `[]EarnedSuccess`
(`SuccessIsEarned`), for any number of nodes, hosts, steps and troubles. Success
is judged by a file at the end of a chain, so the invariant follows the chain:
only waits look for failures (`Looking`), one launch owns a rank and only it goes
on (`Owned`), files appear in the order of the rendezvous and Ray starts once
(`Rendezvous`, `StartsOnce`), the hooks' counters stay in step with what the
trainer has done (`InStep`), and a receipt or certificate that exists tells the
truth (`Certified`). One lemma per invariant for the steps of nodes and one for
those of the driver.

**ReplayBufferProofs** proves `Spec => []TypeOK` (`ReplayTypes`) and
`[]NoneMissed` (`NoTrajectoryMissed`).  A batch that was not sent has no session
(`Idle`); a prompt is marked by what its sessions came to (`Marks`); the mark is
final, and what the thread and the buffer hold of a prompt is that mark or older
(`Copies`), with the trajectories if it is the mark (`Listed`); and the prompts
the trainer waits for are in the buffer (`Awaiting`).  `Place`, `Moves` and
`Onward` are the arithmetic of batches.

For `ValBatches <= 1` it proves `[]OwnBatch` (`SampleIsOwn`) and `[]ReadsLive`
(`SampleStaysInQueue`).  The hypothesis is the default configuration: without a
validation batch size the whole validation set is one batch
(`main_ppo_sync.py:544`), and `replay_ghosts` shows that two are too many.  The
invariant `OwnInv` allows the poll thread to bring back anything that was
cleared, but only of batches the trainer will not ask for again (`Uncleared`); of
all others, what was listed or is in the buffer is in the queue (`Intact`), and
what the trainer holds is of its batch or of the training batch whose validation
it runs (`Held`).

**UtilitiesProofs** and **UtilitiesDataProofs** prove every safety property of the
seven parts of `Utilities`.  A step of the composition is a step of one part, or
leaves that part alone; so each part has an invariant of its own.

- Weights: `Spec => []BucketTypeOK` (`BucketTypes`: nothing is written past the
  end of the buffer) and `[]Intact` (`TransferIntact`), of `WeightBuckets`
  itself, for any number and sizes of weights and any bucket.  The weights in
  the bucket lie one behind the other in its filled part (`Packed`), its bytes
  are theirs unless the copy is still under way (`Copied`), sender and receiver
  own the buffer by turns (`Turns`), and what was loaded and what is packed make
  up what was sent (`Progress`).
- One-step trainer: `FairSpec => []OneStepOff` (`OneStepBehind`), for any
  epochs, total of steps, save frequency, warm-up and number of kills.  `StepInv`
  has a distance
  d between step and batch that is constant in a life and at most the number of
  kills (`BatchInv`), the versions in the servers, the actor and the batch under
  way (`WeightInv`), and how far `data.pt` is ahead of the saved step
  (`SavedInv`), which is what makes d grow by at most one with a kill.
- Result files: `FairSpec => []EndsWhole` (`ResultsEndWhole`), for any dataset,
  pool, batch size and number of lives.  `LatestIsOk`: no record follows one
  that is complete.  `LivesOn`: the rows this life has still to answer
  (`Remaining`) have no record that completes them, and on a file that can be
  read all others have one.  The invariant holds of torn lines anywhere in the
  file.  `LifeInv` adds the limit on pending rows, which a life respects because
  it drains whenever it reaches it.
- Rate of rewards: `FairSpec => []RateBound` (`RewardsAtRate`), for any finite
  set of callers, any demands, rate and bucket.  The bound is not inductive: the
  bucket may be in debt.  `RateInv` says that the tokens owed are at most the
  demands of the oversized callers that have taken theirs (`Taken`), and that
  what the bucket holds and what was granted make up at most its size and the
  demands of those that have slept their debt off (`Woken`).  Between taking and
  waking, an oversized caller is in the first sum and not in the second.
- Tool agent: `FairSpec => []Aligned` (`TrainedOnWhatWasSaid`), for any limits
  on tokens, turns and calls and any number of images in a response.  `ToolInv`:
  after the prompt, mask and log-probs go with the tokens one to one (`Tracked`),
  the places of images among the tokens stand for `image_data`, in order (`Shows`);
  a trajectory that goes on is below the limit of its response and, when its
  tools run, has answered at least one token, without which the slice that cuts
  the prompt off would cut nothing.  Places and images grow together
  (`ShowsConcat`), message by message (`ImagesOfFlat`), and what the end cuts off
  has none.
- Validation and balancing: `FairSpec => []RowsInPlace` (`RowsComeBack`).
  `ValidInv` follows the rows of each batch through padding, chunks, workers,
  streams and cutting: a score that is there is that of its own row (`Scored`,
  `Streams`), and the report, the records and the streams left are the batches
  in order (`Redeemed`).  It rests on facts about padding and cutting
  (`BatchIs`), and about chunks and their concatenation (`Flat`).  `BalanceInv`:
  the states in the heap have every sample exactly once among them (`Heaped`);
  in each, the partitions are in order of weight (`Falling`), none is heavier
  than another by more than one sample, with equal sizes all have equally many
  samples, and without none is empty unless all have at most one (`Even`).
  Merging two states heaviest with lightest keeps all of this (`MergeHeaped`).
  With no fewer samples than partitions, that leaves none empty when one state
  is left (`Divided`), and the sorted parts one after the other are a
  permutation, whose inverse restores the order.
- `FairSpec => []UtilTypeOK` (`UtilTypes`): the types of all seven parts.

The library's induction theorems take an operator as a parameter and cannot be
used.  What these proofs need of induction is got from the well-foundedness of `<`:
a set of numbers that is not empty has a least element (`Least`), so a set with 0
and the successor of each of its members has all of them (`Induction`).  From this
follow the sums of `MapThenSumSet` (`PartialIs`, `SumOf`) and the folds behind
`FlattenSeq`, whose defining functions have to be shown to exist.

**Only model-checked**: all liveness (`Termination`, `NothingLeftRunning`,
`AllServed`, `TrainingEnds`, `AllEnd`, `CalmSucceeds`, `EachEnds`), including the
part of `DeliversScores` that says that the trainer gets its answer in the end:
liveness under fairness and `ENABLED` are out of the prover's reach.  Every safety
property of every passing run is proved.  `SafeSleep`, and the properties above
outside their hypotheses, do not hold (section 4).

## 6. Plan

To be proved: that the replay buffer implements an abstract specification, as the
streams implement `TeacherScores`.

To be modelled: asynchronous Megatron saves in `Checkpoint`; the batch path of the
evaluation; dispatch and collect of the single controller; the arithmetic of
`teacher_scheduler.py`.

## 7. Not modelled

The map covers a few percent of the repository's code.  Most of it is numerical:
models, kernels, engines, losses and advantages, their configuration schemas,
checkpoint formats, data sets and reward functions.  It has no state a model
checker could explore beyond tensors, and transcribing it would show nothing.

Also left out: Ray's and vLLM's own failures (a lost actor ends the job); the
NCCL, NIXL and Mooncake transports; tensors, padding tokens and masks in
messages; the greedy and group-wise balancing; statistics, logging and profiling;
inventories, ssh and tmux of the launcher; HDFS copies; the SFT trainer's
checkpoint handler; `resume_mode=resume_path`; a `TypeError` of `json.dumps` on a
record that holds image bytes (`label/run.py:105`); the options of
`rearrange_micro_batches` that make the number of micro-batches equal over ranks,
at least a minimum or a multiple; exceptions before the `try` of the launcher's
`node()`, and its death between the claim of a rank and the directory it makes;
`None` entries in a tool's list of images; a kill of the one-step trainer between
the save of its last step and its return (`Checkpoint` has it for the others).
