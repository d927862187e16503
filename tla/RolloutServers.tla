--------------------------- MODULE RolloutServers ---------------------------
(***************************************************************************)
(* The rollout servers and who shares them: the load balancer and clients  *)
(* of src/verl/workers/rollout/llm_server.py, the retrying client and the  *)
(* hybrid replicas of fully_async_rollouter.py, and the trainer, which     *)
(* aborts, updates and resumes the replicas to publish weights and borrows *)
(* its own GPUs as hybrid replicas for a validation.                       *)
(*                                                                         *)
(* The inference engine is modelled from how vllm_async_server.py uses it: *)
(* pausing it aborts what runs and blocks what arrives until it is resumed.*)
(***************************************************************************)
EXTENDS Integers, Sequences, FiniteSets

CONSTANTS
    Standalone,    \* servers on rollout GPUs, always in the pool
    Hybrid,        \* servers on the trainer's GPUs
    Training,      \* request ids of conversations of the training rollout
    Validation,    \* request ids of conversations of a validation
    Turns,         \* bound: turns per conversation
    CacheSize,     \* max_cache_size of the sticky sessions
    Partial,       \* async_training.partial_rollout
    MaxVersion,    \* bound: weight versions published
    None

ASSUME Assumption ==
    /\ Standalone # {} /\ Standalone \cap Hybrid = {}
    /\ None \notin Standalone \cup Hybrid
    /\ Training \cap Validation = {}
    /\ Turns \in Nat \ {0} /\ CacheSize \in Nat \ {0}
    /\ Partial \in BOOLEAN /\ MaxVersion \in Nat

Servers  == Standalone \cup Hybrid
Requests == Training \cup Validation

\* The calls the trainer awaits one after the other, each on a group of
\* replicas: CheckpointEngineManager.update_weights ...
MutNoAbort == <<
    <<"drain", Standalone>>, <<"transfer", Standalone>>,
    <<"resume", Standalone>> >>
MutNoResume == <<
    <<"abort", Standalone>>, <<"drain", Standalone>>,
    <<"transfer", Standalone>> >>

Sync == <<
    <<"abort", Standalone>>, <<"drain", Standalone>>,
    <<"transfer", Standalone>>, <<"resume", Standalone>> >>

\* ... and _trainer_side_validate, or just do_validate without hybrid replicas.
MutSleepFirst == <<
    <<"wake", Hybrid>>, <<"abort", Standalone>>, <<"abort", Hybrid>>,
    <<"add", Hybrid>>, <<"resume", Standalone>>, <<"resume", Hybrid>>,
    <<"validate", {}>>,
    <<"abort", Standalone>>, <<"abort", Hybrid>>, <<"drain", Hybrid>>,
    <<"sleep", Hybrid>>, <<"remove", Hybrid>>,
    <<"resume", Standalone>>, <<"resume", Hybrid>> >>

TrainerSide == <<
    <<"wake", Hybrid>>, <<"abort", Standalone>>, <<"abort", Hybrid>>,
    <<"add", Hybrid>>, <<"resume", Standalone>>, <<"resume", Hybrid>>,
    <<"validate", {}>>,
    <<"abort", Standalone>>, <<"abort", Hybrid>>, <<"remove", Hybrid>>,
    <<"drain", Hybrid>>, <<"sleep", Hybrid>>,
    <<"resume", Standalone>>, <<"resume", Hybrid>> >>

Validate == IF Hybrid = {} THEN << <<"validate", {}>> >> ELSE TrainerSide

VARIABLES
    \* GlobalRequestLoadBalancer
    inflight,    \* _inflight_requests, whose domain is the pool of servers
    recent,      \* request ids in the sticky-session cache, oldest use first
    route,       \* the server each of them maps to
    \* clients
    client,      \* where generate of the conversation is
    at,          \* the server it acquired
    turn,        \* turns finished
    began,       \* the weights its server had when the engine started on it
    releasing,   \* release_server calls on their way, per server
    \* replicas
    paused, awake, weights,
    \* trainer and FullyAsyncLLMServerManager
    plan,        \* the calls left, the first under way
    todo,        \* replicas the call under way has still to reach
    version,     \* current_param_version
    alive,       \* alive_replicas
    replicas     \* rollout_replicas

balancerVars == <<inflight, recent, route>>
clientVars   == <<client, at, turn, began, releasing>>
engineVars   == <<paused, awake, weights>>
trainerVars  == <<plan, todo, version, alive, replicas>>
vars == <<balancerVars, clientVars, engineVars, trainerVars>>

Init ==
    /\ inflight = [s \in Standalone |-> 0]
    /\ recent = <<>> /\ route = [r \in Requests |-> None]
    /\ client = [r \in Requests |-> "idle"]
    /\ at = [r \in Requests |-> None]
    /\ turn = [r \in Requests |-> 0]
    /\ began = [r \in Requests |-> 0]
    /\ releasing = [s \in Servers |-> 0]
    /\ paused = [s \in Servers |-> FALSE]
    /\ awake = [s \in Servers |-> s \in Standalone]
    /\ weights = [s \in Servers |-> 0]
    /\ plan = <<>> /\ todo = {} /\ version = 0
    /\ alive = {} /\ replicas = Standalone

-----------------------------------------------------------------------------
\* GlobalRequestLoadBalancer

Pool       == DOMAIN inflight
Cached(r)  == \E k \in DOMAIN recent : recent[k] = r
Forget(r)  ==
    IF Cached(r)
      THEN LET k == CHOOSE i \in DOMAIN recent : recent[i] = r
           IN  SubSeq(recent, 1, k - 1) \o SubSeq(recent, k + 1, Len(recent))
      ELSE recent
LeastLoaded == {s \in Pool : \A t \in Pool : inflight[s] <= inflight[t]}

\* acquire_server: a sticky session whose server is still there ...
MutCacheTrusted(r) == Cached(r)
StickyServer(r)    == Cached(r) /\ route[r] \in Pool

Sticky(r) ==
    /\ StickyServer(r)
    /\ at' = [at EXCEPT ![r] = route[r]]
    /\ recent' = Append(Forget(r), r)
    /\ UNCHANGED route

\* ... or a least-loaded server; the session used longest ago is evicted from
\* a full cache.
Select(r) ==
    /\ ~StickyServer(r)
    /\ \E s \in LeastLoaded :
        /\ at' = [at EXCEPT ![r] = s]
        /\ route' = [route EXCEPT ![r] = s]
    /\ recent' = Append(IF Len(Forget(r)) >= CacheSize THEN Tail(Forget(r))
                        ELSE Forget(r), r)

\* release_server: an unknown server, or a count of zero, is left alone.
Count(s, floor) ==
    /\ releasing[s] > 0
    /\ releasing' = [releasing EXCEPT ![s] = @ - 1]
    /\ inflight' = IF s \in Pool /\ inflight[s] > floor
                     THEN [inflight EXCEPT ![s] = @ - 1] ELSE inflight
    /\ UNCHANGED <<recent, route, client, at, turn, began, engineVars,
                   trainerVars>>

MutNoFloor(s) == Count(s, -1)
Release(s)    == Count(s, 0)

-----------------------------------------------------------------------------
\* generate of LLMServerClient and FullyAsyncLLMServerClient

Validating == plan # <<>> /\ Head(plan)[1] = "validate"

Acquire(r) ==
    /\ client[r] \in {"idle", "backoff"}
    /\ (r \in Validation /\ client[r] = "idle") => Validating
    /\ Sticky(r) \/ Select(r)
    /\ inflight' = [inflight EXCEPT ![at'[r]] = @ + 1]
    /\ client' = [client EXCEPT ![r] = "granted"]
    /\ UNCHANGED <<turn, began, releasing, engineVars, trainerVars>>

\* The call reaches the server; a paused engine makes it wait.
Start(r) ==
    /\ client[r] \in {"granted", "blocked"} /\ ~paused[at[r]]
    /\ client' = [client EXCEPT ![r] = "running"]
    /\ began' = [began EXCEPT ![r] = weights[at[r]]]
    /\ UNCHANGED <<balancerVars, at, turn, releasing, engineVars, trainerVars>>

Block(r) ==
    /\ client[r] = "granted" /\ paused[at[r]]
    /\ client' = [client EXCEPT ![r] = "blocked"]
    /\ UNCHANGED <<balancerVars, at, turn, began, releasing, engineVars,
                   trainerVars>>

Complete(r) ==
    /\ client[r] = "running"
    /\ client' = [client EXCEPT ![r] = "completed"]
    /\ UNCHANGED <<balancerVars, at, turn, began, releasing, engineVars,
                   trainerVars>>

\* The call raises.
Fail(r) ==
    /\ client[r] = "running"
    /\ client' = [client EXCEPT ![r] = "failed"]
    /\ UNCHANGED <<balancerVars, at, turn, began, releasing, engineVars,
                   trainerVars>>

\* The answer: release without waiting, whatever came back, then retry the
\* rest of an aborted generation if it is partial, unless its token limit is
\* used up; an exception ends the conversation.
Return(r, released) ==
    /\ client[r] \in {"completed", "aborted", "failed"}
    /\ releasing' = IF client[r] \in released
                      THEN [releasing EXCEPT ![at[r]] = @ + 1] ELSE releasing
    /\ at' = [at EXCEPT ![r] = None]
    /\ began' = [began EXCEPT ![r] = 0]
    /\ \/ /\ client[r] = "aborted" /\ Partial
          /\ client' = [client EXCEPT ![r] = "backoff"]
          /\ UNCHANGED turn
       \/ /\ client[r] # "failed"
          /\ turn' = [turn EXCEPT ![r] = @ + 1]
          /\ client' = [client EXCEPT ![r] =
                          IF turn[r] + 1 = Turns THEN "done" ELSE "idle"]
       \/ /\ client[r] = "failed"
          /\ client' = [client EXCEPT ![r] = "done"]
          /\ UNCHANGED turn
    /\ UNCHANGED <<balancerVars, engineVars, trainerVars>>

MutNoFinally(r) == Return(r, {"completed", "aborted"})
Answer(r)       == Return(r, {"completed", "aborted", "failed"})

-----------------------------------------------------------------------------
\* The trainer's calls

Calling(op) == plan # <<>> /\ Head(plan)[1] = op

\* gather over the replicas of the group.
OnReplica(op, s) ==
    /\ Calling(op) /\ s \in todo
    /\ todo' = todo \ {s}
    /\ UNCHANGED <<plan, version, alive, replicas>>

Quiescent(s) == \A r \in Requests : client[r] = "running" => at[r] # s

Abort(s) ==
    /\ OnReplica("abort", s)
    /\ paused' = [paused EXCEPT ![s] = TRUE]
    /\ client' = [r \in Requests |->
                    IF client[r] = "running" /\ at[r] = s THEN "aborted"
                    ELSE client[r]]
    /\ UNCHANGED <<balancerVars, at, turn, began, releasing, awake, weights>>

Drain(s) ==
    /\ OnReplica("drain", s) /\ Quiescent(s)
    /\ UNCHANGED <<balancerVars, clientVars, engineVars>>

Resume(s) ==
    /\ OnReplica("resume", s)
    /\ paused' = [paused EXCEPT ![s] = FALSE]
    /\ UNCHANGED <<balancerVars, clientVars, awake, weights>>

Sleep(s) ==
    /\ OnReplica("sleep", s)
    /\ awake' = [awake EXCEPT ![s] = FALSE]
    /\ UNCHANGED <<balancerVars, clientVars, paused, weights>>

\* Collective calls reach the whole group at once.
OnGroup(op) ==
    /\ Calling(op) /\ todo # {}
    /\ todo' = {}
    /\ UNCHANGED <<plan, version, clientVars, recent, route, paused>>

Publish(group) ==
    weights' = [s \in Servers |-> IF s \in group THEN version ELSE weights[s]]

Transfer ==
    /\ OnGroup("transfer")
    /\ Publish(todo)
    /\ UNCHANGED <<inflight, awake, alive, replicas>>

\* The naive backend wakes the hybrid servers and updates them in place.
Wake ==
    /\ OnGroup("wake")
    /\ Publish(todo)
    /\ awake' = [s \in Servers |-> s \in todo \/ awake[s]]
    /\ UNCHANGED <<inflight, alive, replicas>>

\* add_replicas: the counts start from zero.
AddReplicas ==
    /\ OnGroup("add")
    /\ inflight' = [s \in Pool \cup (todo \ alive) |->
                      IF s \in todo \ alive THEN 0 ELSE inflight[s]]
    /\ alive' = alive \cup todo
    /\ replicas' = replicas \cup todo
    /\ UNCHANGED <<awake, weights>>

\* remove_replicas: what those servers still serve is forgotten.
RemoveReplicas ==
    /\ OnGroup("remove")
    /\ inflight' = [s \in Pool \ (todo \cap alive) |-> inflight[s]]
    /\ alive' = alive \ todo
    /\ replicas' = replicas \ (todo \cap alive)
    /\ UNCHANGED <<awake, weights>>

\* do_validate returns when its conversations are over.
ValidationEnds ==
    /\ Validating /\ \A r \in Validation : client[r] = "done"
    /\ plan' = Tail(plan)
    /\ todo' = IF Tail(plan) = <<>> THEN {} ELSE Head(Tail(plan))[2]
    /\ client' = [r \in Requests |->
                    IF r \in Validation THEN "idle" ELSE client[r]]
    /\ turn' = [r \in Requests |-> IF r \in Validation THEN 0 ELSE turn[r]]
    /\ UNCHANGED <<balancerVars, at, began, releasing, engineVars, version,
                   alive, replicas>>

NextCall ==
    /\ plan # <<>> /\ todo = {} /\ ~Validating
    /\ plan' = Tail(plan)
    /\ todo' = IF Tail(plan) = <<>> THEN {} ELSE Head(Tail(plan))[2]
    /\ UNCHANGED <<balancerVars, clientVars, engineVars, version, alive,
                   replicas>>

\* A training step made a new version; some versions are also validated.
NewVersion ==
    /\ plan = <<>> /\ version < MaxVersion
    /\ version' = version + 1
    /\ \/ plan' = Sync
       \/ plan' = Sync \o Validate
    /\ todo' = Head(plan')[2]
    /\ UNCHANGED <<balancerVars, clientVars, engineVars, alive, replicas>>

-----------------------------------------------------------------------------
Client(r) ==
    \/ Acquire(r) \/ Start(r) \/ Block(r)
    \/ Complete(r) \/ Fail(r) \/ Answer(r)

Trainer ==
    \/ \E s \in Servers : Abort(s) \/ Drain(s) \/ Resume(s) \/ Sleep(s)
    \/ Transfer \/ Wake \/ AddReplicas \/ RemoveReplicas
    \/ ValidationEnds \/ NextCall \/ NewVersion

Finished ==
    /\ plan = <<>> /\ version = MaxVersion
    /\ \A r \in Training : client[r] = "done"
    /\ \A s \in Servers : releasing[s] = 0
Stop == Finished /\ UNCHANGED vars

Next ==
    \/ \E r \in Requests : Client(r)
    \/ \E s \in Servers : Release(s)
    \/ Trainer \/ Stop

Spec == Init /\ [][Next]_vars

\* Remote calls are delivered, generations are bounded in tokens and the
\* trainer proceeds when its calls return; nothing is assumed of an engine
\* that is asleep.
Fairness ==
    /\ \A r \in Requests :
        /\ WF_vars(Acquire(r) \/ Start(r) \/ Block(r) \/ Answer(r))
        /\ WF_vars(Complete(r) /\ awake[at[r]])
    /\ \A s \in Servers : WF_vars(Release(s))
    /\ WF_vars(Trainer)

FairSpec == Spec /\ Fairness

-----------------------------------------------------------------------------
\* Properties

Busy == {"granted", "blocked", "running", "completed", "failed",
         "aborted"}

TypeOK ==
    /\ DOMAIN inflight \subseteq Servers /\ Standalone \subseteq DOMAIN inflight
    /\ \A s \in Pool : inflight[s] \in Nat
    /\ recent \in Seq(Requests) /\ Len(recent) <= CacheSize
    /\ route \in [Requests -> Servers \cup {None}]
    /\ client \in [Requests -> Busy \cup {"idle", "backoff", "done"}]
    /\ at \in [Requests -> Servers \cup {None}]
    /\ \A r \in Requests : client[r] \in Busy <=> at[r] # None
    /\ turn \in [Requests -> 0 .. Turns] /\ began \in [Requests -> Nat]
    /\ releasing \in [Servers -> Nat]
    /\ paused \in [Servers -> BOOLEAN] /\ awake \in [Servers -> BOOLEAN]
    /\ weights \in [Servers -> Nat]
    /\ todo \subseteq Servers /\ version \in Nat
    /\ alive \subseteq Hybrid /\ replicas \subseteq Servers

\* Calls holding the server, or whose release is on its way.
Open(s) == Cardinality({r \in Requests : at[r] = s}) + releasing[s]

\* The count the balancer selects by never exceeds the calls still open on the
\* server, whenever the server leaves and rejoins the pool and however late the
\* releases come: an idle server counts zero again, and no load is invented.
NoInventedLoad == \A s \in Pool : inflight[s] <= Open(s)

\* A call is never granted a server that left the pool or sleeps, whatever the
\* session cache remembers of earlier turns: hybrid servers are awake from before
\* they join the pool until after they left it.
GrantsAwake == [][\A r \in Requests :
    at[r] = None /\ at'[r] # None => at'[r] \in Pool /\ awake[at'[r]]]_vars

\* No standalone server changes its weights under a generation: what one
\* generate call returns was sampled from a single version, the one reported
\* with it.  (A hybrid server may, once SafeSleep below is broken.)
OneVersion == \A r \in Requests :
    (client[r] = "running" /\ at[r] \in Standalone) => began[r] = weights[at[r]]

\* vllm_async_server.py drains the engines "for safe sleep": an engine that
\* sleeps has no request.  resume_generation_replicas, called after the sleep,
\* lets the calls that arrived while the engine was paused run on it.
SafeSleep == \A r \in Requests : client[r] = "running" => awake[at[r]]

\* As long as no call is let onto a sleeping engine, every training conversation
\* finishes and every release arrives, whatever the trainer aborts in between.
AllServed == []SafeSleep => <>[]Finished
=============================================================================
