----------------------------- MODULE OneStepOff -----------------------------
(***************************************************************************)
(* one_step_off_policy/ray_trainer.py: the batch of the next step is       *)
(* generated while the trainer works on the current one; weights are       *)
(* published between the two.  The job may be killed and resumes from the  *)
(* last checkpoint (whole here, Checkpoint.tla has it file by file).       *)
(*                                                                         *)
(* A batch is its place in the run's stream of batches, epoch after epoch; *)
(* weights are the number of updates in them.                              *)
(***************************************************************************)
EXTENDS Integers, FiniteSets

CONSTANTS
    EpochSteps,    \* len(train_dataloader)
    TotalEpochs,   \* total_epochs
    Totals,        \* what total_training_steps may be set to
    SaveEvery,     \* save_freq
    WarmupSteps,   \* critic_warmup
    MaxKills       \* bound: times the job is killed

Stream  == EpochSteps * TotalEpochs    \* batches of all epochs
Missing == [batch |-> 0, by |-> {}, ready |-> TRUE]   \* the task returned None

VARIABLES
    lastStep,  \* total_training_steps of this run, which never changes
    driver,    \* "load", "await", "train", "save", "done" or "failed"
    current,   \* global_steps, of the step under way
    resumed,   \* the step this life resumed from
    actor,     \* updates of the actor
    rollout,   \* updates in the weights of the rollout servers
    reader,    \* batches the continuous iterator is past
    ends,      \* the batch it ends with
    future,    \* batch_data_future: batch, the weights it is sampled by, ready
    training,  \* the batch being trained on, the same way
    saved,     \* on disk: step, position and updates of the last checkpoint
    kills

vars == <<lastStep, driver, current, resumed, actor, rollout, reader, ends, future,
          training, saved, kills>>

Init ==
    /\ lastStep \in Totals
    /\ driver = "load" /\ current = 0 /\ resumed = 0 /\ actor = 0 /\ rollout = 0
    /\ reader = 0 /\ ends = 0 /\ future = Missing /\ training = Missing
    /\ saved = [step |-> 0, reader |-> 0, actor |-> 0] /\ kills = 0

\* next(continuous_iterator), and the call to the agent loops
Prefetch(position, weights, last) ==
    IF position < last
    THEN /\ reader' = position + 1
         /\ future' = [batch |-> position + 1, by |-> {weights}, ready |-> FALSE]
    ELSE reader' = position /\ future' = Missing

Published(step, updates) == IF WarmupSteps <= step THEN updates ELSE rollout

\* The epoch the position lies in; an exhausted dataloader is at its end.
EpochOf(position) == IF position = 0 THEN 0 ELSE (position - 1) \div EpochSteps

\* _load_checkpoint, the first weights, and the first task.  At an epoch
\* boundary the dataloader is not restored.  The iterator goes through
\* total_epochs epochs from wherever the dataloader stands.
Resume ==
    /\ driver = "load" /\ driver' = "await"
    /\ LET from     == saved.step
           restored == IF from % EpochSteps = 0 THEN from ELSE saved.reader
           begins   == IF from % EpochSteps = 0 THEN from
                       ELSE EpochOf(restored) * EpochSteps
       IN  /\ resumed' = from /\ current' = from + 1
           /\ rollout' = Published(from, saved.actor)
           /\ ends' = begins + Stream
           /\ Prefetch(restored, rollout', ends')
    /\ actor' = saved.actor
    /\ UNCHANGED <<lastStep, training, saved, kills>>

\* The agent loops answer, with what the servers' weights are by then.
Generated ==
    /\ ~future.ready
    /\ future' = [future EXCEPT !.ready = TRUE, !.by = @ \cup {rollout}]
    /\ UNCHANGED <<lastStep, driver, current, resumed, actor, rollout, reader, ends,
                   training, saved, kills>>

IsLastStep == current >= lastStep

MutPrefetchesFirst(updates) == rollout
PrefetchedBy(updates)       == updates

\* _fit_generate, up to the first sleep(0) after the next task is created:
\* update_weights blocks the event loop, and the task runs to its first await.
Collect ==
    /\ driver = "await" /\ future.ready /\ future # Missing
    /\ training' = future /\ driver' = "train"
    /\ rollout' = Published(current, actor)
    /\ IF IsLastStep THEN future' = Missing /\ UNCHANGED reader
       ELSE Prefetch(reader, PrefetchedBy(rollout'), ends)
    /\ UNCHANGED <<lastStep, current, resumed, actor, ends, saved, kills>>

\* The iterator had ended: None cannot be unpacked.
CollectRaises ==
    /\ driver = "await" /\ future = Missing
    /\ driver' = "failed"
    /\ UNCHANGED <<lastStep, current, resumed, actor, rollout, reader, ends, future,
                   training, saved, kills>>

\* Rewards to _fit_update_actor
Train ==
    /\ driver = "train" /\ driver' = "save"
    /\ actor' = IF WarmupSteps <= current THEN actor + 1 ELSE actor
    /\ UNCHANGED <<lastStep, current, resumed, rollout, reader, ends, future, training,
                   saved, kills>>

\* _fit_save_checkpoint, at any step when the instance is close to expiration,
\* and _fit_postprocess_step.  data.pt has the position the prefetch left.  (What a
\* kill between the two costs after the last step is in Checkpoint.tla.)
Save ==
    /\ driver = "save"
    /\ \E expiring \in BOOLEAN :
         saved' = IF SaveEvery > 0 /\ (IsLastStep \/ current % SaveEvery = 0 \/ expiring)
                  THEN [step |-> current, reader |-> reader, actor |-> actor]
                  ELSE saved
    /\ current' = current + 1
    /\ driver' = IF IsLastStep THEN "done" ELSE "await"
    /\ training' = Missing
    /\ UNCHANGED <<lastStep, resumed, actor, rollout, reader, ends, future, kills>>

\* The job is killed and started again; the servers start with the base model.
Kill ==
    /\ driver \in {"await", "train", "save"} /\ kills < MaxKills
    /\ kills' = kills + 1
    /\ driver' = "load" /\ current' = 0 /\ resumed' = 0 /\ actor' = 0 /\ rollout' = 0
    /\ reader' = 0 /\ ends' = 0 /\ future' = Missing /\ training' = Missing
    /\ UNCHANGED <<lastStep, saved>>

Step == Resume \/ Generated \/ Collect \/ CollectRaises \/ Train \/ Save
Next == Step \/ Kill

-----------------------------------------------------------------------------
TypeOK ==
    /\ lastStep \in Totals
    /\ driver \in {"load", "await", "train", "save", "done", "failed"}
    /\ current \in 0 .. lastStep + 1 /\ resumed \in 0 .. lastStep
    /\ actor \in 0 .. lastStep /\ rollout \in 0 .. actor
    /\ ends \in 0 .. lastStep + Stream + kills /\ reader \in 0 .. ends
    /\ future.by \subseteq 0 .. lastStep /\ training.by \subseteq 0 .. lastStep
    /\ saved.step \in 0 .. lastStep /\ saved.actor \in 0 .. saved.step
    /\ kills \in 0 .. MaxKills

\* A batch is sampled by one version of the weights, and trained on by an actor
\* at most one update ahead of it.  A step's batch is the step's own, or later
\* by one for each time the job was killed: the prefetch is in data.pt, and the
\* resumed run skips its batch.  The stream of batches is too short only for a
\* run that is to take more steps than its epochs have, or is resumed inside its
\* first epoch.
OneStepOff ==
    /\ driver = "train" =>
         /\ \E v \in {actor - 1, actor} : training.by = {v}
         /\ training.batch \in current .. current + kills
    /\ driver = "failed" => lastStep > Stream \/ resumed \in 1 .. EpochSteps - 1
=============================================================================
