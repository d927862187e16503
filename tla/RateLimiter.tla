---------------------------- MODULE RateLimiter ----------------------------
(***************************************************************************)
(* limited.py: requests for rewards take tokens from an AsyncTokenBucket   *)
(* and then wait for a semaphore around the call of the judge.  One bucket *)
(* is modelled (run_single passes two of the same class in a row).  Time   *)
(* is counted in units in which Rate tokens flow; the event loop may be    *)
(* arbitrarily late, and no time is kept that exceeds what can matter.     *)
(***************************************************************************)
EXTENDS Integers, FiniteSets, FiniteSetsExt

CONSTANTS
    Callers,         \* requests
    Demands,         \* tokens a request may need
    Rate,            \* rate_limit
    MaxTokens,       \* max_tokens
    MaxConcurrent    \* max_concurrent

VARIABLES
    demand,     \* per request: num_tokens
    where,      \* per request: "new", "acquire", "sleep", "oversized" (asleep with
                \* its tokens taken), "queue", "computing" or "done"
    sleep,      \* per request: time its sleep still has to last
    tokens,
    age,        \* time since last_update; Never before the first request
    level       \* what a meter that drains Rate per unit reads of the grants

vars == <<demand, where, sleep, tokens, age, level>>

Never  == -1
Ceil(n, d) == (n + d - 1) \div d
Total  == MapThenSumSet(LAMBDA c : demand[c], Callers)
AgeCap == Ceil(MaxTokens - tokens, Rate) + 1   \* the bucket is full before that
Lower(n, by) == Max({0, n - by})

Init ==
    /\ demand = [c \in Callers |-> 0] /\ where = [c \in Callers |-> "new"]
    /\ sleep = [c \in Callers |-> 0]
    /\ tokens = MaxTokens /\ age = Never /\ level = 0

\* Requests are numbered by what they need.
Begin ==
    /\ \A c \in Callers : where[c] = "new"
    /\ demand' \in [Callers -> Demands]
    /\ \A c, d \in Callers : c < d => demand'[c] <= demand'[d]
    /\ where' = [c \in Callers |-> "acquire"]
    /\ UNCHANGED <<sleep, tokens, age, level>>

Tick ==
    /\ \E c \in Callers : where[c] \notin {"new", "done"}
    /\ age' = IF age = Never THEN Never ELSE Min({age + 1, AgeCap})
    /\ sleep' = [c \in Callers |-> Lower(sleep[c], 1)]
    /\ level' = Lower(level, Rate)
    /\ UNCHANGED <<demand, where, tokens>>

-----------------------------------------------------------------------------
\* acquire

Elapsed      == IF age = Never THEN 0 ELSE age
MutUncapped  == tokens + Elapsed * Rate
Refilled     == Min({MaxTokens, tokens + Elapsed * Rate})
SleepFor(c)  == sleep' = [sleep EXCEPT ![c] = Ceil(demand[c] - Refilled, Rate)]
Goto(c, place) == where' = [where EXCEPT ![c] = place]
Granted(c)   == level' = level + demand[c]

\* More than the bucket holds: taken at once, paid for by sleeping.
AcquireOversized(c) ==
    /\ where[c] = "acquire" /\ demand[c] > MaxTokens
    /\ tokens' = Refilled - demand[c] /\ age' = 0
    /\ SleepFor(c) /\ Goto(c, "oversized")
    /\ UNCHANGED <<demand, level>>

OversizedWakes(c) ==
    /\ where[c] = "oversized" /\ sleep[c] = 0
    /\ Granted(c) /\ Goto(c, "queue")
    /\ UNCHANGED <<demand, sleep, tokens, age>>

Acquire(c) ==
    /\ where[c] = "acquire" /\ demand[c] <= MaxTokens
    /\ age' = 0
    /\ IF Refilled >= demand[c]
         THEN /\ tokens' = Refilled - demand[c]
              /\ Granted(c) /\ Goto(c, "queue") /\ UNCHANGED sleep
         ELSE /\ tokens' = Refilled
              /\ SleepFor(c) /\ Goto(c, "sleep") /\ UNCHANGED level
    /\ UNCHANGED demand

MutNeverRetries(c) == where[c] = "sleep" /\ sleep[c] = 0 /\ tokens = MaxTokens
SleepOver(c)       == where[c] = "sleep" /\ sleep[c] = 0

\* The loop of acquire starts again, and others may have been faster.
Wakes(c) ==
    /\ SleepOver(c)
    /\ Goto(c, "acquire")
    /\ UNCHANGED <<demand, sleep, tokens, age, level>>

-----------------------------------------------------------------------------
\* run_single, from the semaphore on

Computing == {c \in Callers : where[c] = "computing"}

Compute(c) ==
    /\ where[c] = "queue" /\ Cardinality(Computing) < MaxConcurrent
    /\ Goto(c, "computing")
    /\ UNCHANGED <<demand, sleep, tokens, age, level>>

\* An answer, an exception or the timeout: each returns a reward.
Rewarded(c) ==
    /\ where[c] = "computing" /\ Goto(c, "done")
    /\ UNCHANGED <<demand, sleep, tokens, age, level>>

Request(c) ==
    \/ AcquireOversized(c) \/ OversizedWakes(c) \/ Acquire(c) \/ Wakes(c)
    \/ Compute(c) \/ Rewarded(c)

Next == Begin \/ Tick \/ \E c \in Callers : Request(c)

TypeOK ==
    /\ demand \in [Callers -> Demands \cup {0}]
    /\ where \in [Callers -> {"new", "acquire", "sleep", "oversized", "queue",
                              "computing", "done"}]
    /\ sleep \in [Callers -> 0 .. Ceil(Total, Rate)]
    /\ tokens \in -Total .. MaxTokens /\ age \in Never .. Ceil(MaxTokens + Total, Rate) + 1
    /\ level \in 0 .. MaxTokens + Total

Oversized == {c \in Callers : demand[c] > MaxTokens}

\* Over no stretch of time, however long, are more tokens granted than flow in
\* it and the bucket holds, except for the requests that exceed the bucket,
\* once each; whoever sleeps, retries or is woken late.
RateBound ==
    level <= MaxTokens + MapThenSumSet(LAMBDA c : demand[c], Oversized)

Rewards == \A c \in Callers : where[c] = "done"
=============================================================================
