------------------------------ MODULE Launcher ------------------------------
(***************************************************************************)
(* The launcher of src/scripts/fa3: one `launch` per node starts a `node`  *)
(* process; the nodes find each other only through files in a shared       *)
(* output directory, start Ray together, and rank 0 runs the training      *)
(* driver, whose hooks (runtime_hooks.py) count every teacher result,      *)
(* update, checkpoint and log line before they certify the run.            *)
(*                                                                         *)
(* A launch is <<rank, n>>, the n-th host told to be that rank; it stands  *)
(* for its nonce.  Nothing bounds a deadline from below, so a wait may     *)
(* expire at any moment, except in a calm behaviour, where nothing fails.  *)
(***************************************************************************)
EXTENDS Integers, FiniteSets, Sequences

CONSTANTS
    NNodes,        \* NNODES
    Steps,         \* total training steps
    SaveFreq,
    MaxHosts,      \* bound: hosts launched with the same rank
    MaxTroubles    \* bound: calls that raise, hosts that die, expiry notices

ASSUME Assumption ==
    /\ NNodes \in Nat \ {0} /\ MaxHosts \in Nat \ {0} /\ MaxTroubles \in Nat
    /\ Steps \in Nat \ {0} /\ SaveFreq \in 1 .. Steps

Ranks    == 0 .. NNodes - 1
Launches == Ranks \X (1 .. MaxHosts)
Rank(p)  == p[1]
None     == <<>>    \* no such file yet

\* checkpoint_steps: those of the trainer's schedule, and the last.
CheckpointSteps == {s \in 1 .. Steps : s % SaveFreq = 0} \cup {Steps}

VARIABLES
    verdict,    \* per launch: "idle", "running", "ok" or "failed"
    node,       \* per launch: where node() is
    looked,     \* launches whose wait_for has just seen no failed-*.json
    claims,     \* node-claim-<rank>.json: the launch that wrote it
    execution,  \* the directory output/execution exists
    failures,   \* failed-*.json in it
    strays,     \* failed-*.json in output itself
    ready,      \* ready-<rank>.json
    head,       \* head-started.json
    complete,   \* complete.json
    result,     \* node-result-<rank>.json: the launch that wrote it
    ray,        \* ranks whose Ray daemon is in the cluster
    driver,     \* where the driver process is
    step,       \* global_steps
    counts,     \* counts["teacher"], ["update"], ["logged_steps"], ["checkpoints"]
    calls,      \* training_calls in the evidence of each rank's actors
    shards,     \* per step: the ranks whose model shards are on disk
    trained,    \* training_complete.json
    calm,       \* nothing goes wrong in this behaviour
    troubles

launchVars == <<verdict, node, looked>>
fileVars   == <<claims, execution, failures, strays, ready, head, complete, result>>
driverVars == <<driver, step, counts, calls, shards, trained>>
vars == <<launchVars, fileVars, ray, driverVars, calm, troubles>>

Init ==
    /\ verdict = [p \in Launches |-> "idle"]
    /\ node = [p \in Launches |-> "none"] /\ looked = {}
    /\ claims = [r \in Ranks |-> None] /\ execution = FALSE
    /\ failures = {} /\ strays = {} /\ ready = {}
    /\ head = FALSE /\ complete = FALSE /\ result = [r \in Ranks |-> None]
    /\ ray = {} /\ driver = "none" /\ step = 1
    /\ counts = [teacher |-> 0, update |-> 0, logged |-> <<>>, saved |-> {}]
    /\ calls = [r \in Ranks |-> 0] /\ shards = [s \in 1 .. Steps |-> {}]
    /\ trained = FALSE
    /\ calm \in BOOLEAN /\ troubles = 0

Trouble == ~calm /\ troubles < MaxTroubles /\ troubles' = troubles + 1

-----------------------------------------------------------------------------
\* launch

\* A second host with the same rank is a mistake of whoever starts the job.
Launch(p) ==
    /\ verdict[p] = "idle"
    /\ p[2] > 1 => ~calm /\ verdict[<<p[1], p[2] - 1>>] # "idle"
    /\ verdict' = [verdict EXCEPT ![p] = "running"]
    /\ node' = [node EXCEPT ![p] = "claim"]
    /\ UNCHANGED <<looked, fileVars, ray, driverVars, calm, troubles>>

\* pty.spawn has returned; the result counts only with this launch's nonce.
Judge(p) ==
    /\ verdict[p] = "running" /\ node[p] \in {"failed", "exited"}
    /\ verdict' = [verdict EXCEPT ![p] =
                     IF result[Rank(p)] = p THEN "ok" ELSE "failed"]
    /\ UNCHANGED <<node, looked, fileVars, ray, driverVars, calm, troubles>>

-----------------------------------------------------------------------------
\* node

At(p, place)   == verdict[p] = "running" /\ node[p] = place
Goto(p, place) == node' = [node EXCEPT ![p] = place]

\* except BaseException: the record goes where the peers may be looking.
Record(p) ==
    /\ IF execution THEN failures' = failures \cup {p} /\ UNCHANGED strays
                    ELSE strays' = strays \cup {p} /\ UNCHANGED failures
    /\ UNCHANGED <<verdict, claims, execution, ready, head, complete, result>>

Fail(p) ==
    /\ Goto(p, "failed") /\ Record(p) /\ looked' = looked \ {p}

Unclaimed(r) == claims[r] = None

\* open(..., "x") and, for rank 0, mkdir(exist_ok=False), in one step: between
\* the two a peer sees what it saw before, that there is no directory.
Claim(p) ==
    /\ At(p, "claim") /\ Unclaimed(Rank(p))
    /\ claims' = [claims EXCEPT ![Rank(p)] = p]
    /\ IF Rank(p) = 0 THEN ~execution /\ execution' = TRUE /\ Goto(p, "checks")
                      ELSE UNCHANGED execution /\ Goto(p, "directory")
    /\ UNCHANGED <<verdict, looked, failures, strays, ready, head, complete,
                   result, ray, driverVars, calm, troubles>>

ClaimRefused(p) ==
    /\ At(p, "claim") /\ ~Unclaimed(Rank(p))
    /\ Fail(p)
    /\ UNCHANGED <<ray, driverVars, calm, troubles>>

\* wait_for: one round is a look for failures and then the condition.
Waits == {"directory", "ready", "head", "complete"}

MutAnyReady == ready # {}
AllReady    == ready = Ranks

Awaited(p) ==
    CASE node[p] = "directory" -> execution
      [] node[p] = "ready"     -> AllReady
      [] node[p] = "head"      -> head
      [] node[p] = "complete"  -> complete

\* The failures the wait looks at: those of the directory it was given.
Seen(p) == IF node[p] = "directory" THEN strays ELSE failures

MutHeadWaits(p) == "head"
AfterReady(p)   == IF Rank(p) = 0 THEN "ray" ELSE "head"

After(p) ==
    CASE node[p] = "directory" -> "checks"
      [] node[p] = "ready"     -> AfterReady(p)
      [] node[p] = "head"      -> "ray"
      [] node[p] = "complete"  -> "result"

Look(p) ==
    /\ verdict[p] = "running" /\ node[p] \in Waits /\ p \notin looked
    /\ Seen(p) = {}
    /\ looked' = looked \cup {p}
    /\ UNCHANGED <<verdict, node, fileVars, ray, driverVars, calm, troubles>>

PeerFailed(p) ==
    /\ verdict[p] = "running" /\ node[p] \in Waits /\ p \notin looked
    /\ Seen(p) # {}
    /\ Fail(p)
    /\ UNCHANGED <<ray, driverVars, calm, troubles>>

Arrive(p) ==
    /\ p \in looked /\ Awaited(p)
    /\ looked' = looked \ {p} /\ Goto(p, After(p))
    /\ UNCHANGED <<verdict, fileVars, ray, driverVars, calm, troubles>>

KeepWaiting(p) ==
    /\ p \in looked /\ ~Awaited(p)
    /\ looked' = looked \ {p}
    /\ UNCHANGED <<verdict, node, fileVars, ray, driverVars, calm, troubles>>

MutEndlessWait == Waits \ {"complete"}
HaveDeadline   == Waits

Expire(p) ==
    /\ ~calm /\ p \in looked /\ ~Awaited(p) /\ node[p] \in HaveDeadline
    /\ Fail(p)
    /\ UNCHANGED <<ray, driverVars, calm, troubles>>

\* Inventories, inputs and CUDA runtime agree with what was prepared.
ChecksPass(p) ==
    /\ At(p, "checks")
    /\ ready' = ready \cup {Rank(p)} /\ Goto(p, "ready")
    /\ UNCHANGED <<verdict, looked, claims, execution, failures, strays, head,
                   complete, result, ray, driverVars, calm, troubles>>

\* ray start, and on rank 0 the driver process.
StartRay(p) ==
    /\ At(p, "ray")
    /\ ray' = ray \cup {Rank(p)}
    /\ IF Rank(p) = 0
         THEN head' = TRUE /\ driver' = "nodes" /\ Goto(p, "training")
         ELSE UNCHANGED <<head, driver>> /\ Goto(p, "complete")
    /\ UNCHANGED <<verdict, looked, claims, execution, failures, strays, ready,
                   complete, result, step, counts, calls, shards, trained, calm,
                   troubles>>

\* A check or ray start raises.
Raise(p) ==
    /\ At(p, "checks") \/ At(p, "ray")
    /\ Trouble /\ Fail(p)
    /\ UNCHANGED <<ray, driverVars, calm>>

MutAnyExit   == driver \in {"done", "failed"}
DriverProved == driver = "done" /\ trained

DriverReturned(p) ==
    /\ At(p, "training") /\ DriverProved
    /\ complete' = TRUE /\ Goto(p, "result")
    /\ UNCHANGED <<verdict, looked, claims, execution, failures, strays, ready,
                   head, result, ray, driverVars, calm, troubles>>

DriverBroke(p) ==
    /\ At(p, "training") /\ driver = "failed"
    /\ Fail(p)
    /\ UNCHANGED <<ray, driverVars, calm, troubles>>

\* subprocess.run(timeout=...) kills the driver.
DriverTimedOut(p) ==
    /\ ~calm /\ At(p, "training") /\ driver # "done"
    /\ driver' = "failed" /\ Fail(p)
    /\ UNCHANGED <<ray, step, counts, calls, shards, trained, calm, troubles>>

WriteResult(p) ==
    /\ At(p, "result")
    /\ result' = [result EXCEPT ![Rank(p)] = p] /\ Goto(p, "exited")
    /\ UNCHANGED <<verdict, looked, claims, execution, failures, strays, ready,
                   head, complete, ray, driverVars, calm, troubles>>

\* The host is lost: no record, and its Ray daemon and driver go with it.
HostDies(p) ==
    /\ verdict[p] = "running" /\ Trouble
    /\ verdict' = [verdict EXCEPT ![p] = "failed"]
    /\ looked' = looked \ {p}
    /\ IF claims[Rank(p)] = p
         THEN /\ ray' = ray \ {Rank(p)}
              /\ driver' = IF Rank(p) = 0 /\ driver # "none" THEN "failed" ELSE driver
         ELSE UNCHANGED <<ray, driver>>
    /\ UNCHANGED <<node, fileVars, step, counts, calls, shards, trained, calm>>

-----------------------------------------------------------------------------
\* driver, and the hooks around the trainer's steps

Drive(from, to) == driver = from /\ driver' = to

\* wait_for(NNODES alive) in driver(), then run_ppo.
NodesAlive ==
    /\ ray = Ranks /\ failures = {} /\ Drive("nodes", "teacher")
    /\ UNCHANGED <<launchVars, fileVars, ray, step, counts, calls, shards,
                   trained, calm, troubles>>

\* A failure was recorded, or the nodes did not come in time.
NodesMissing ==
    /\ failures # {} \/ (~calm /\ ray # Ranks)
    /\ Drive("nodes", "failed")
    /\ UNCHANGED <<launchVars, fileVars, ray, step, counts, calls, shards,
                   trained, calm, troubles>>

\* attach_teacher_with_timeout
TeacherAnswers ==
    /\ Drive("teacher", "update")
    /\ counts' = [counts EXCEPT !.teacher = @ + 1]
    /\ UNCHANGED <<launchVars, fileVars, ray, step, calls, shards, trained,
                   calm, troubles>>

\* train_mini_batch on the actors of a node, which leave their evidence.
Train(r) ==
    /\ driver = "update" /\ ray = Ranks /\ calls[r] < step
    /\ calls' = [calls EXCEPT ![r] = @ + 1]
    /\ UNCHANGED <<launchVars, fileVars, ray, driver, step, counts, shards,
                   trained, calm, troubles>>

\* The trainer saves at its schedule, or when the instance is to expire.
UpdateReturns(expiring) ==
    /\ \A r \in Ranks : calls[r] = step
    /\ step = counts.update + 1
    /\ Drive("update", IF step \in CheckpointSteps \/ expiring THEN "save" ELSE "log")
    /\ counts' = [counts EXCEPT !.update = @ + 1]
    /\ UNCHANGED <<launchVars, fileVars, ray, step, calls, shards, trained, calm>>

WriteShard(r) ==
    /\ driver = "save" /\ ray = Ranks
    /\ step \in CheckpointSteps \ counts.saved /\ r \notin shards[step]
    /\ shards' = [shards EXCEPT ![step] = @ \cup {r}]
    /\ UNCHANGED <<launchVars, fileVars, ray, driver, step, counts, calls,
                   trained, calm, troubles>>

SaveReturns ==
    /\ Drive("save", "log") /\ shards[step] = Ranks
    /\ counts' = [counts EXCEPT !.saved = @ \cup {step}]
    /\ UNCHANGED <<launchVars, fileVars, ray, step, calls, shards, trained,
                   calm, troubles>>

\* The hook refuses a checkpoint the schedule does not have.
SaveRefused ==
    /\ step \notin CheckpointSteps \ counts.saved /\ Drive("save", "failed")
    /\ UNCHANGED <<launchVars, fileVars, ray, step, counts, calls, shards,
                   trained, calm, troubles>>

MutLateEnd(s) == s > Steps
LastStep(s)   == s >= Steps

Log ==
    /\ driver = "log" /\ step = Len(counts.logged) + 1
    /\ counts' = [counts EXCEPT !.logged = Append(@, step)]
    /\ step' = step + 1
    /\ Drive("log", IF LastStep(step) THEN "certify" ELSE "teacher")
    /\ UNCHANGED <<launchVars, fileVars, ray, calls, shards, trained, calm,
                   troubles>>

\* The end of ExperimentTaskRunner.run.
Complete ==
    counts = [teacher |-> Steps, update |-> Steps,
              logged |-> [s \in 1 .. Steps |-> s], saved |-> CheckpointSteps]

Certify ==
    /\ Complete /\ \A r \in Ranks : calls[r] >= Steps
    /\ trained' = TRUE /\ Drive("certify", "done")
    /\ UNCHANGED <<launchVars, fileVars, ray, step, counts, calls, shards, calm,
                   troubles>>

\* Any call of the driver raises, a node is lost, a teacher is late.
DriverRaises ==
    /\ driver \in {"nodes", "teacher", "update", "save", "log", "certify"}
    /\ \/ ray # Ranks /\ driver # "nodes" /\ UNCHANGED troubles
       \/ Trouble
    /\ driver' = "failed"
    /\ UNCHANGED <<launchVars, fileVars, ray, step, counts, calls, shards,
                   trained, calm>>

-----------------------------------------------------------------------------
Node(p) ==
    \/ Claim(p) \/ ClaimRefused(p) \/ Look(p) \/ PeerFailed(p) \/ Arrive(p)
    \/ ChecksPass(p) \/ StartRay(p) \/ DriverReturned(p) \/ DriverBroke(p)
    \/ WriteResult(p) \/ Judge(p)

Driver ==
    \/ NodesAlive \/ NodesMissing \/ TeacherAnswers \/ SaveReturns
    \/ SaveRefused \/ Log \/ Certify
    \/ UpdateReturns(FALSE) /\ UNCHANGED troubles
    \/ \E r \in Ranks : Train(r) \/ WriteShard(r)

Disturbance ==
    \/ DriverRaises
    \/ UpdateReturns(TRUE) /\ Trouble
    \/ \E p \in Launches : Raise(p) \/ HostDies(p) \/ DriverTimedOut(p)

\* Every launch is over.
Stop ==
    /\ \A p \in Launches : verdict[p] # "running"
    /\ UNCHANGED vars

Next ==
    \/ \E p \in Launches : Launch(p) \/ Node(p) \/ KeepWaiting(p) \/ Expire(p)
    \/ Driver \/ Disturbance \/ Stop

Spec == Init /\ [][Next]_vars

\* Every allocated node runs the command; processes that can go on do; a wait
\* whose condition stays false reaches its deadline, and what a lost node
\* leaves behind makes the driver raise.
FairSpec ==
    /\ Spec
    /\ \A r \in Ranks : WF_vars(Launch(<<r, 1>>))
    /\ \A p \in Launches : WF_vars(Node(p)) /\ SF_vars(Expire(p))
    /\ \A p \in Launches : WF_vars(DriverTimedOut(p))
    /\ WF_vars(Driver)

-----------------------------------------------------------------------------
\* Types.
Flags ==
    /\ execution \in BOOLEAN /\ head \in BOOLEAN /\ complete \in BOOLEAN
    /\ trained \in BOOLEAN /\ calm \in BOOLEAN

Shape ==
    /\ verdict \in [Launches -> {"idle", "running", "ok", "failed"}]
    /\ node \in [Launches -> Waits \cup {"none", "claim", "checks", "ray",
                             "training", "result", "failed", "exited"}]
    /\ looked \subseteq Launches
    /\ claims \in [Ranks -> Launches \cup {None}]
    /\ failures \subseteq Launches /\ strays \subseteq Launches
    /\ ready \subseteq Ranks
    /\ result \in [Ranks -> Launches \cup {None}]
    /\ ray \subseteq Ranks /\ step \in 1 .. Steps + 1
    /\ driver \in {"none", "nodes", "teacher", "update", "save", "log",
                   "certify", "done", "failed"}
    /\ counts \in [teacher : 0 .. Steps, update : 0 .. Steps,
                   logged : Seq(1 .. Steps), saved : SUBSET (1 .. Steps)]
    /\ calls \in [Ranks -> 0 .. Steps]
    /\ shards \in [1 .. Steps -> SUBSET Ranks]
    /\ troubles \in 0 .. MaxTroubles

TypeOK == Flags /\ Shape

\* A launch that reports success belongs to a run that did everything: all
\* steps, trained on every rank, and every scheduled checkpoint whole on disk
\* (src/scripts/README.md:119-120).
EarnedSuccess ==
    \A p \in Launches : verdict[p] = "ok" =>
        /\ trained /\ \A r \in Ranks : calls[r] = Steps
        /\ \A s \in CheckpointSteps : shards[s] = Ranks

\* Ray starts on no node before every rank has passed its checks, and on a
\* worker not before the head; whatever failed or was launched twice.
StartsTogether ==
    /\ ray # {} => ready = Ranks
    /\ \A p \in Launches : Rank(p) # 0 /\ node[p] = "ray" => head

\* Every launch that was started comes to an end: no failure, whether recorded
\* or not and wherever it was recorded, leaves a peer waiting for ever.
AllEnd ==
    \A p \in Launches : verdict[p] = "running" ~> verdict[p] # "running"

\* If nothing goes wrong, the rendezvous comes together without any deadline
\* passing, and all nodes report success.
CalmSucceeds == calm ~> \A r \in Ranks : verdict[<<r, 1>>] = "ok"

\* The inductive invariant behind the three invariants.  Only waits look for
\* failures; one launch owns a rank, and only that one goes on, and leaves a
\* result ...
Looking ==
    /\ \A p \in looked : node[p] \in Waits
    /\ \A p \in Launches : verdict[p] = "idle" => node[p] = "none"

Owned ==
    /\ \A p \in Launches :
         node[p] \notin {"none", "claim", "failed"} => claims[Rank(p)] = p
    /\ \A r \in Ranks : result[r] \in {None, claims[r]}
    /\ \A p \in Launches : verdict[p] = "ok" => result[Rank(p)] = p

Rendezvous ==
    /\ StartsTogether
    /\ \A p \in Launches :
         node[p] \in {"head", "ray", "training", "complete"} => ready = Ranks

\* ... so the driver starts once, from nothing ...
Early == {"directory", "checks", "ready", "head", "ray"}

StartsOnce ==
    /\ driver # "none" =>
         /\ claims[0] # None
         /\ \A p \in Launches : Rank(p) = 0 => node[p] \notin Early
    /\ \A p \in Launches : node[p] = "training" => driver # "none"
    /\ driver \in {"none", "nodes"} =>
         step = 1 /\ counts.teacher = 0 /\ counts.update = 0 /\ counts.saved = {}

\* ... its counts keep up with the step, what it counts as saved is whole ...
InStep ==
    /\ driver \in {"teacher", "update", "save", "log"} => step <= Steps
    /\ driver = "teacher" => counts.teacher < step
    /\ driver \in {"update", "save", "log"} => counts.teacher <= step
    /\ \A s \in counts.saved : shards[s] = Ranks

\* ... and each certificate rests on the one before it.
Certified ==
    /\ trained =>
         /\ driver \in {"done", "failed"} /\ \A r \in Ranks : calls[r] = Steps
         /\ \A s \in CheckpointSteps : shards[s] = Ranks
    /\ complete => trained
    /\ \A p \in Launches : node[p] = "result" => complete
    /\ \A r \in Ranks : result[r] # None => complete

IInv ==
    /\ TypeOK /\ Looking /\ Owned /\ Rendezvous
    /\ StartsOnce /\ InStep /\ Certified
=============================================================================
