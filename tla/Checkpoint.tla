----------------------------- MODULE Checkpoint -----------------------------
(***************************************************************************)
(* Checkpoints of the synchronous trainers: the saves of fit in            *)
(* src/verl/trainer/ppo/ray_trainer.py and                                 *)
(* src/verl/trainer/main_ppo_sync.py, each a sequence of files written by  *)
(* all ranks of a worker group, the rotation of old checkpoints in         *)
(* src/verl/utils/checkpoint, and the resume of a job that crashed.        *)
(*                                                                         *)
(* The shards of one rank (model, optimizer, extra state) are one file: it *)
(* is torn while it is being written.  Removing a directory is one step.   *)
(***************************************************************************)
EXTENDS Integers, Sequences, FiniteSets

CONSTANTS
    NumRanks,      \* ranks of a worker group; rank 1 is the code's rank 0
    UseCritic,     \* a critic is saved after the actor
    StepsPerEpoch, \* len(train_dataloader)
    Epochs,        \* total_epochs
    Total,         \* total_training_steps: the configured number, or Limit
    SaveFreq,      \* save_freq
    Warmup,        \* critic_warmup: no save before this step
    MaxKeep,       \* max_actor_ckpt_to_keep and max_critic_ckpt_to_keep, 0: None
    Expiring,      \* the elastic server instance may be close to expiration
    SkipsAtEpoch,  \* _load_checkpoint skips the dataloader at an epoch boundary:
                   \* TRUE in ray_trainer.py, FALSE in main_ppo_sync.py
    MaxCrashes     \* bound: crashes of the job

ASSUME Assumption ==
    /\ NumRanks \in Nat \ {0} /\ StepsPerEpoch \in Nat \ {0}
    /\ Epochs \in Nat \ {0} /\ Total \in Nat \ {0}
    /\ SaveFreq \in Nat /\ Warmup \in Nat
    /\ MaxKeep \in Nat /\ MaxCrashes \in Nat
    /\ UseCritic \in BOOLEAN /\ Expiring \in BOOLEAN /\ SkipsAtEpoch \in BOOLEAN

Ranks == 1 .. NumRanks
Roles == IF UseCritic THEN {"actor", "critic"} ELSE {"actor"}
Limit == StepsPerEpoch * Epochs      \* the steps there are batches for
Steps == 1 .. Limit

\* Contents of data.pt and of the tracker that are no position and no step.
Absent == -2
Torn   == -1

VARIABLES
    shard,    \* on disk: per role, step and rank "absent", "torn" or "whole"
    data,     \* on disk, per step: the batches served when data.pt was written
    tracker,  \* on disk: latest_checkpointed_iteration.txt
    pc,       \* where fit is
    role,     \* the worker group being saved
    file,     \* per rank: "unopened", "open" or "closed" in this save
    step,     \* the last step trained
    epoch, pos,  \* the loop over epochs and the position of the dataloader
    saved,    \* per role: previous_saved_paths of rank 0
    crashes

disk   == <<shard, data, tracker>>
loop   == <<step, epoch, pos>>
vars   == <<disk, pc, role, file, loop, saved, crashes>>

Nothing  == [ro \in Roles |-> <<>>]
Unopened == [r \in Ranks |-> "unopened"]

Init ==
    /\ shard = [ro \in Roles |-> [s \in Steps |-> [r \in Ranks |-> "absent"]]]
    /\ data = [s \in Steps |-> Absent] /\ tracker = Absent
    /\ pc = "load" /\ role = "actor" /\ file = Unopened
    /\ step = 0 /\ epoch = 0 /\ pos = 0
    /\ saved = Nothing /\ crashes = 0

-----------------------------------------------------------------------------
\* _load_checkpoint with resume_mode "auto", and find_latest_ckpt_path

FolderExists(s) == data[s] # Absent \/
                   \E ro \in Roles, r \in Ranks : shard[ro][s][r] # "absent"
Readable(s)     == data[s] # Torn /\
                   \A ro \in Roles, r \in Ranks : shard[ro][s][r] = "whole"

AtEpochEnd(s)  == s % StepsPerEpoch = 0
Restored(s, skip) == IF data[s] = Absent \/ skip THEN 0 ELSE data[s]

\* The loop over the epochs is empty once all have passed.
InEpoch == pc' = IF epoch' < Epochs THEN "train" ELSE "done"

MutCountsTwice(s, position) ==
    /\ step' = s + 1 /\ epoch' = s \div StepsPerEpoch /\ pos' = position
    /\ InEpoch
ResumeAt(s, position) ==
    /\ step' = s /\ epoch' = s \div StepsPerEpoch /\ pos' = position
    /\ InEpoch

FromScratch ==
    /\ pc = "load"
    /\ tracker = Absent \/ (tracker \in Steps /\ ~FolderExists(tracker))
    /\ ResumeAt(0, 0)
    /\ UNCHANGED <<disk, role, file, saved, crashes>>

Load(skip) ==
    /\ pc = "load" /\ tracker \in Steps /\ FolderExists(tracker)
    /\ Readable(tracker)
    /\ ResumeAt(tracker, Restored(tracker, skip))
    /\ UNCHANGED <<disk, role, file, saved, crashes>>

MutAlwaysSkips == Load(TRUE)
Resume         == Load(SkipsAtEpoch /\ AtEpochEnd(tracker))

\* The tracker is no number, or a file of the checkpoint cannot be loaded.
LoadRaises ==
    /\ pc = "load"
    /\ \/ tracker = Torn
       \/ tracker \in Steps /\ FolderExists(tracker) /\ ~Readable(tracker)
    /\ pc' = "failed"
    /\ UNCHANGED <<disk, role, file, loop, saved, crashes>>

-----------------------------------------------------------------------------
\* fit

IsLast(s) == s >= Total

MutOnlyMultiples(s, expiring) == SaveFreq > 0 /\ s % SaveFreq = 0
Saves(s, expiring) ==
    /\ SaveFreq > 0 /\ Warmup <= s
    /\ IsLast(s) \/ s % SaveFreq = 0 \/ expiring

Train ==
    /\ pc = "train" /\ pos < StepsPerEpoch
    /\ step' = step + 1 /\ pos' = pos + 1
    /\ \E expiring \in {FALSE, Expiring} :
        pc' = IF Saves(step', expiring) THEN "prepare" ELSE "after"
    /\ UNCHANGED <<disk, role, file, epoch, saved, crashes>>

\* Behind the save come the rollout's weights, the validation and the logs.
\* Only the last step ends the run.
EndStep ==
    /\ pc = "after" /\ pc' = IF IsLast(step) THEN "done" ELSE "train"
    /\ UNCHANGED <<disk, role, file, loop, saved, crashes>>

\* The dataloader is exhausted.
NextEpoch ==
    /\ pc = "train" /\ pos = StepsPerEpoch
    /\ epoch' = epoch + 1 /\ pos' = 0 /\ InEpoch
    /\ UNCHANGED <<disk, role, file, step, saved, crashes>>

-----------------------------------------------------------------------------
\* save_checkpoint of the worker group: rank 0 makes room, every rank writes
\* its shard, all meet at a barrier, and rank 0 registers the checkpoint.

\* remove_previous_save_local_path on the n oldest checkpoints
Drop(paths, n) == SubSeq(paths, n + 1, Len(paths))
Without(n)     == {saved[role][k] : k \in 1 .. n}
Removed(steps) == [shard EXCEPT ![role] = [s \in Steps |->
    IF s \in steps THEN [r \in Ranks |-> "absent"] ELSE @[s]]]

\* ensure_checkpoint_capacity
MutNoRoom(n) == 0
Excess(n)    == IF MaxKeep > 1 /\ n >= MaxKeep THEN n - MaxKeep + 1 ELSE 0

EnsureCapacity ==
    /\ pc = "prepare" /\ pc' = "write" /\ file' = Unopened
    /\ LET n == Excess(Len(saved[role]))
       IN  /\ shard' = Removed(Without(n))
           /\ saved' = [saved EXCEPT ![role] = Drop(@, n)]
    /\ UNCHANGED <<data, tracker, role, loop, crashes>>

\* A rank writes over whatever an earlier life of the job left in its file.
Write(r, from, to, content) ==
    /\ pc = "write" /\ file[r] = from
    /\ file' = [file EXCEPT ![r] = to]
    /\ shard' = [shard EXCEPT ![role][step][r] = content]
    /\ UNCHANGED <<data, tracker, pc, role, loop, saved, crashes>>

OpenShard(r)  == Write(r, "unopened", "open", "torn")
CloseShard(r) == Write(r, "open", "closed", "whole")

\* register_checkpoint, and on to the next worker group
MutRankZero == file[1] = "closed"
AllWritten  == \A r \in Ranks : file[r] = "closed"

Register ==
    /\ pc = "write" /\ AllWritten
    /\ LET paths == Append(saved[role], step)
           n     == IF MaxKeep > 0 /\ Len(paths) > MaxKeep
                    THEN Len(paths) - MaxKeep ELSE 0
       IN  /\ saved' = [saved EXCEPT ![role] = Drop(paths, n)]
           /\ shard' = Removed({paths[k] : k \in 1 .. n})
    /\ IF UseCritic /\ role = "actor"
       THEN role' = "critic" /\ pc' = "prepare"
       ELSE role' = "actor" /\ pc' = "data"
    /\ UNCHANGED <<data, tracker, file, loop, crashes>>

-----------------------------------------------------------------------------
\* _save_checkpoint: the dataloader, then the tracker

OpenData ==
    /\ pc = "data" /\ pc' = "served"
    /\ data' = [data EXCEPT ![step] = Torn]
    /\ UNCHANGED <<shard, tracker, role, file, loop, saved, crashes>>

WriteData ==
    /\ pc = "served" /\ pc' = "tracker"
    /\ data' = [data EXCEPT ![step] = pos]
    /\ UNCHANGED <<shard, tracker, role, file, loop, saved, crashes>>

\* open(..., "w") truncates the file; the step is in it once it is closed.
OpenTracker ==
    /\ pc = "tracker" /\ pc' = "latest"
    /\ tracker' = Torn
    /\ UNCHANGED <<shard, data, role, file, loop, saved, crashes>>

WriteTracker ==
    /\ pc = "latest" /\ pc' = "after"
    /\ tracker' = step
    /\ UNCHANGED <<shard, data, role, file, loop, saved, crashes>>

-----------------------------------------------------------------------------
\* The job is killed and started again: memory is lost, the disk is not.
Crash ==
    /\ pc \notin {"load", "done", "failed"} /\ crashes < MaxCrashes
    /\ crashes' = crashes + 1
    /\ pc' = "load" /\ role' = "actor" /\ file' = Unopened
    /\ step' = 0 /\ epoch' = 0 /\ pos' = 0 /\ saved' = Nothing
    /\ UNCHANGED disk

Stop == pc \in {"done", "failed"} /\ UNCHANGED vars

Next ==
    \/ FromScratch \/ Resume \/ LoadRaises
    \/ Train \/ EndStep \/ NextEpoch
    \/ EnsureCapacity \/ (\E r \in Ranks : OpenShard(r) \/ CloseShard(r))
    \/ Register \/ OpenData \/ WriteData \/ OpenTracker \/ WriteTracker
    \/ Crash \/ Stop

Spec == Init /\ [][Next]_vars

-----------------------------------------------------------------------------
\* Properties

TypeOK ==
    /\ shard \in [Roles -> [Steps -> [Ranks -> {"absent", "torn", "whole"}]]]
    /\ data \in [Steps -> {Absent, Torn} \cup 0 .. StepsPerEpoch]
    /\ tracker \in {Absent, Torn} \cup Steps
    /\ pc \in {"load", "train", "prepare", "write", "data", "served", "tracker",
               "latest", "after", "done", "failed"}
    /\ role \in Roles /\ file \in [Ranks -> {"unopened", "open", "closed"}]
    /\ step \in 0 .. Limit /\ epoch \in 0 .. Epochs /\ pos \in 0 .. StepsPerEpoch
    /\ saved \in [Roles -> Seq(Steps)]
    /\ crashes \in 0 .. MaxCrashes

\* The checkpoint the tracker names can always be resumed from, at the position
\* of the dataloader it was saved at: whenever the job is killed while a newer
\* one is saved, old ones are rotated out or another rank lags behind.
Resumable == tracker \in Steps =>
    Readable(tracker) /\ data[tracker] = ((tracker - 1) % StepsPerEpoch) + 1

\* Across all restarts, global step s trains on batch s of the run: no batch is
\* skipped or trained twice by the life that reaches the end.
Aligned == pc \notin {"load", "failed"} => step = epoch * StepsPerEpoch + pos

\* A run ends after its last step, or when its epochs are over.  If they are
\* enough for total_training_steps, the tracker names the step it ends with: the
\* last step, or one more for each restart behind the save of a last step.
FinalCheckpoint == pc = "done" =>
    /\ step >= Total \/ step = Limit
    /\ step <= Total + crashes
    /\ SaveFreq > 0 /\ Warmup <= Total /\ Total <= Limit => tracker = step

\* Each life of the job leaves at most max_ckpt_to_keep checkpoints of a worker
\* group on disk, two while it keeps one, as the new one is written first.
OnDisk(ro) == {s \in Steps : \E r \in Ranks : shard[ro][s][r] # "absent"}
DiskBound == MaxKeep > 0 => \A ro \in Roles :
    Cardinality(OnDisk(ro)) <= (crashes + 1) * (IF MaxKeep = 1 THEN 2 ELSE MaxKeep)
=============================================================================
