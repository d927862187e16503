---------------------------- MODULE ReplayBuffer ----------------------------
(***************************************************************************)
(* The rollouts of src/verl/trainer/main_ppo_sync.py: agent loops put      *)
(* their trajectories into the transfer queue as they finish, a thread     *)
(* copies the queue's metadata into the replay buffer, and the trainer     *)
(* waits there for the batch of its step, uses it and cleans up.           *)
(*                                                                         *)
(* The transfer queue is external: put, list and clear are atomic in it.   *)
(* A session's outputs are one trajectory.                                 *)
(***************************************************************************)
EXTENDS Integers

CONSTANTS
    NumSteps,    \* training steps, each followed by a validation
    ValBatches,  \* len(val_dataloader)
    NumPrompts,  \* prompts of a batch
    NumSessions, \* rollout.n
    MaxFaults    \* bound: sessions that raise

ASSUME Assumption ==
    /\ NumSteps \in Nat \ {0} /\ ValBatches \in Nat
    /\ NumPrompts \in Nat \ {0} /\ NumSessions \in Nat \ {0} /\ MaxFaults \in Nat

\* The batches in the order in which the trainer asks for them: the one of a
\* step, then those of its validation, which carry the same global_steps.
Batches    == 1 .. NumSteps * (1 + ValBatches)
StepOf(b)  == ((b - 1) \div (1 + ValBatches)) + 1
IsTrain(b) == (b - 1) % (1 + ValBatches) = 0
Partition(b) == IF IsTrain(b) THEN "train" ELSE "val"
Partitions == {"train", "val"}
TrainOf(b) == (StepOf(b) - 1) * (1 + ValBatches) + 1
LastOf(b)  == b = TrainOf(b) + ValBatches

\* Keys: <<batch, prompt, 0>> for a uid, <<batch, prompt, session>> for a
\* trajectory.
Uids     == Batches \X (1 .. NumPrompts) \X {0}
Sessions == Batches \X (1 .. NumPrompts) \X (1 .. NumSessions)
Keys     == Uids \cup Sessions
SessionsOf(u) == {k \in Sessions : k[1] = u[1] /\ k[2] = u[2]}
UidsOf(b)     == {u \in Uids : u[1] = b}

VARIABLES
    tq,       \* the transfer queue: the status tag of each key, or "none"
    buffer,   \* the replay buffer: likewise
    session,  \* per session: where _run_agent_loop is
    listed,   \* the answer of kv_list that the poll thread holds
    adding,   \* ... and the partitions of it that it has still to add
    batch,    \* the batch of the trainer
    pc,       \* where the trainer is with it
    sampled,  \* per partition: the keys sample returned last
    faults

agentVars   == <<session, faults>>
pollVars    == <<listed, adding>>
trainerVars == <<batch, pc, sampled>>
vars == <<tq, buffer, agentVars, pollVars, trainerVars>>

Empty == [k \in Keys |-> "none"]

Init ==
    /\ tq = Empty /\ buffer = Empty
    /\ session = [k \in Sessions |-> "idle"] /\ faults = 0
    /\ listed = Empty /\ adding = {}
    /\ batch = 1 /\ pc = "mark" /\ sampled = [p \in Partitions |-> {}]

-----------------------------------------------------------------------------
\* _run_agent_loop and _agent_loop_postprocess

SetSession(k, state) == session' = [session EXCEPT ![k] = state]

Put(k, status) ==
    /\ session[k] = "running"
    /\ SetSession(k, "done")
    /\ tq' = [tq EXCEPT ![k] = status]
    /\ UNCHANGED <<buffer, faults, pollVars, trainerVars>>

MutPutRunning(k) == Put(k, "running")
PutOutput(k)     == Put(k, "success")

\* The agent loop has no output: there is nothing to put.
NoOutput(k) ==
    /\ session[k] = "running"
    /\ SetSession(k, "done")
    /\ UNCHANGED <<tq, buffer, faults, pollVars, trainerVars>>

SessionRaises(k) ==
    /\ session[k] = "running" /\ faults < MaxFaults
    /\ SetSession(k, "raised") /\ faults' = faults + 1
    /\ UNCHANGED <<tq, buffer, pollVars, trainerVars>>

\* _run_prompt: gather returns when all sessions are done and raises with the
\* first that does; the others go on.
MutFirstDone(u)  == \E k \in SessionsOf(u) : session[k] = "done"
AllDone(u)       == \A k \in SessionsOf(u) : session[k] = "done"
SomeRaised(u)    == \E k \in SessionsOf(u) : session[k] = "raised"

EndPrompt(u, status) ==
    /\ tq[u] = "none"
    /\ tq' = [tq EXCEPT ![u] = status]
    /\ UNCHANGED <<buffer, agentVars, pollVars, trainerVars>>

Finish(u) == AllDone(u) /\ EndPrompt(u, "finished")
MutFailSilently(u) == SomeRaised(u) /\ EndPrompt(u, "none")
Fail(u)   == SomeRaised(u) /\ EndPrompt(u, "failure")

-----------------------------------------------------------------------------
\* _poll_from_transfer_queue

\* Partition by partition and under the lock, add updates the entries it finds
\* in the answer.
PollList ==
    /\ adding = {}
    /\ listed' = tq /\ adding' = Partitions
    /\ UNCHANGED <<tq, buffer, agentVars, trainerVars>>

PollAdd(p) ==
    /\ p \in adding
    /\ adding' = adding \ {p}
    /\ listed' = IF adding' = {} THEN Empty ELSE listed
    /\ buffer' = [k \in Keys |-> IF Partition(k[1]) = p /\ listed[k] # "none"
                                 THEN listed[k] ELSE buffer[k]]
    /\ UNCHANGED <<tq, agentVars, trainerVars>>

-----------------------------------------------------------------------------
\* The trainer: generate_sequences, sample, cleanup

Mine == Partition(batch)

\* AgentLoopManagerTQ.generate_sequences marks the prompts as running ...
Mark ==
    /\ pc = "mark" /\ pc' = "dispatch"
    /\ buffer' = [k \in Keys |->
                    IF k \in UidsOf(batch) THEN "running" ELSE buffer[k]]
    /\ UNCHANGED <<tq, agentVars, pollVars, batch, sampled>>

\* ... and sends them to the workers, which start a task for each.
Dispatch ==
    /\ pc = "dispatch" /\ pc' = "sample"
    /\ session' = [k \in Sessions |->
                    IF k[1] = batch THEN "running" ELSE session[k]]
    /\ UNCHANGED <<tq, buffer, faults, pollVars, batch, sampled>>

\* ReplayBuffer.sample
MutAnyStep(k) == Partition(k[1]) = Mine
Asked(k)      == Partition(k[1]) = Mine /\ StepOf(k[1]) = StepOf(batch)

Waited    == \A k \in Keys : Asked(k) => buffer[k] # "running"

Sample ==
    /\ pc = "sample" /\ Waited
    /\ sampled' = [sampled EXCEPT ![Mine] =
                    {k \in Keys : Asked(k) /\ buffer[k] = "success"}]
    /\ pc' = "use"
    /\ UNCHANGED <<tq, buffer, agentVars, pollVars, batch>>

\* A training batch is cleaned up after the validation of its step.
Use ==
    /\ pc = "use"
    /\ IF IsTrain(batch) /\ ValBatches > 0
       THEN batch' = batch + 1 /\ pc' = "mark"
       ELSE pc' = "clear" /\ UNCHANGED batch
    /\ UNCHANGED <<tq, buffer, agentVars, pollVars, sampled>>

\* kv_clear, then remove.
ClearQueue ==
    /\ pc = "clear" /\ pc' = "remove"
    /\ tq' = [k \in Keys |-> IF k \in sampled[Mine] THEN "none" ELSE tq[k]]
    /\ UNCHANGED <<buffer, agentVars, pollVars, batch, sampled>>

Remove ==
    /\ pc = "remove"
    /\ buffer' = [k \in Keys |->
                    IF k \in sampled[Mine] THEN "none" ELSE buffer[k]]
    /\ sampled' = [sampled EXCEPT ![Mine] = {}]
    /\ CASE ~IsTrain(batch) /\ ~LastOf(batch) ->
              batch' = batch + 1 /\ pc' = "mark"
         [] ~IsTrain(batch) /\ LastOf(batch) ->
              batch' = TrainOf(batch) /\ pc' = "clear"
         [] IsTrain(batch) ->
              /\ batch' = IF StepOf(batch) < NumSteps
                          THEN batch + 1 + ValBatches ELSE batch
              /\ pc' = IF StepOf(batch) < NumSteps THEN "mark" ELSE "done"
    /\ UNCHANGED <<tq, agentVars, pollVars>>

-----------------------------------------------------------------------------
Agents ==
    \/ \E k \in Sessions : PutOutput(k) \/ NoOutput(k) \/ SessionRaises(k)
    \/ \E u \in Uids : Finish(u) \/ Fail(u)
Poll    == PollList \/ \E p \in Partitions : PollAdd(p)
Trainer == Mark \/ Dispatch \/ Sample \/ Use \/ ClearQueue \/ Remove

Next == Agents \/ Poll \/ Trainer
Spec == Init /\ [][Next]_vars

\* Agent loops end, the event loop runs their prompts, the poll thread and the
\* trainer go on.
Fairness ==
    /\ \A k \in Sessions : WF_vars(PutOutput(k) \/ NoOutput(k))
    /\ \A u \in Uids : WF_vars(Finish(u) \/ Fail(u))
    /\ WF_vars(Poll) /\ WF_vars(Trainer)
FairSpec == Spec /\ Fairness

-----------------------------------------------------------------------------
\* Properties

TypeOK ==
    /\ \A f \in {tq, buffer, listed} :
        /\ f \in [Keys -> {"none", "running", "success", "finished", "failure"}]
        /\ \A k \in Sessions : f[k] \in {"none", "success"}
    /\ session \in [Sessions -> {"idle", "running", "done", "raised"}]
    /\ adding \subseteq Partitions
    /\ batch \in Batches
    /\ pc \in {"mark", "dispatch", "sample", "use", "clear", "remove", "done"}
    /\ sampled \in [Partitions -> SUBSET Sessions]
    /\ faults \in 0 .. MaxFaults

\* The trainer goes on only when every prompt of its batch has ended, with all
\* trajectories of those that finished: none is overtaken by the mark of its
\* prompt, whatever the poll thread has copied when.
NoneMissed == pc = "use" => \A u \in UidsOf(batch) :
    /\ tq[u] \in {"finished", "failure"}
    /\ tq[u] = "finished" =>
        \A k \in SessionsOf(u) : tq[k] = "success" => k \in sampled[Mine]

\* It gets trajectories of the prompts it has just sent, none left behind by an
\* earlier batch or put late by a session of a prompt that had failed.
OwnBatch == pc = "use" => \A k \in sampled[Mine] : k[1] = batch

\* Until they are cleared, the trajectories of a sampled batch, read again
\* after the validation, are in the transfer queue.
ReadsLive == \A p \in Partitions : \A k \in sampled[p] :
    tq[k] = "success" \/ (pc = "remove" /\ p = Mine)

\* Every step gets its batch, though sessions raise or have no output.
TrainingEnds == <>(pc = "done")

\* The inductive invariant behind TypeOK and NoneMissed.  A batch the trainer
\* has not sent yet has no session under way ...
NotSent(b) ==
    CASE pc \in {"mark", "dispatch"} -> b >= batch
      [] pc \in {"sample", "use"}    -> b > batch
      [] OTHER -> b > batch /\ (IsTrain(batch) => b > batch + ValBatches)

Idle == \A k \in Sessions : NotSent(k[1]) => session[k] = "idle"

\* ... a prompt is marked by what its sessions came to ...
Marks == \A u \in Uids :
    /\ tq[u] \in {"none", "finished", "failure"}
    /\ tq[u] = "finished" => AllDone(u)
    /\ tq[u] = "failure" => SomeRaised(u)

\* ... the mark is final, and what the thread and the buffer hold of a prompt
\* is that mark or older ...
Copies == \A u \in Uids :
    /\ listed[u] \in {"none", tq[u]}
    /\ buffer[u] \in {"none", "running", tq[u]}

\* ... a copy of the mark comes with the trajectories, and the prompts the
\* trainer waits for are in the buffer.
Listed == \A u \in Uids : listed[u] = "finished" =>
    \A k \in SessionsOf(u) : tq[k] = "success" => listed[k] = "success"

Awaiting == pc \in {"dispatch", "sample"} => \A u \in UidsOf(batch) :
    /\ buffer[u] # "none"
    /\ buffer[u] = "finished" =>
         \A k \in SessionsOf(u) : tq[k] = "success" => buffer[k] = "success"

IInv ==
    /\ TypeOK /\ Idle /\ Marks /\ Copies /\ Listed /\ Awaiting /\ NoneMissed
=============================================================================
