------------------------- MODULE ReplayBufferProofs -------------------------
(***************************************************************************)
(* Theorems about ReplayBuffer, for any number of steps, validation        *)
(* batches, prompts, sessions and failures.                                *)
(***************************************************************************)
EXTENDS ReplayBuffer, TLAPS

-----------------------------------------------------------------------------
\* Arithmetic of the order of the batches: Round batches for each step.

Round == 1 + ValBatches

LEMMA Monotonic ==
    ASSUME NEW a \in Nat, NEW b \in Nat, NEW m \in Nat, a <= b
    PROVE  a * m <= b * m
OBVIOUS

LEMMA Division ==
    ASSUME NEW n \in Nat, NEW m \in Nat \ {0}
    PROVE  /\ n \div m \in Nat /\ n % m \in 0 .. m - 1
           /\ n = (n \div m) * m + (n % m)
OBVIOUS

LEMMA Multiple ==
    ASSUME NEW q \in Nat, NEW m \in Nat \ {0}
    PROVE  (q * m) % m = 0
OBVIOUS

LEMMA Place ==
    ASSUME NEW b \in Batches
    PROVE  \E q \in 0 .. NumSteps - 1, r \in 0 .. ValBatches :
              /\ b = q * Round + r + 1 /\ StepOf(b) = q + 1
              /\ TrainOf(b) = q * Round + 1 /\ (IsTrain(b) <=> r = 0)
              /\ q * Round \in Nat /\ q * Round + Round <= NumSteps * Round
<1> DEFINE q == (b - 1) \div Round
           r == (b - 1) % Round
<1>1. Round \in Nat \ {0} /\ NumSteps \in Nat \ {0} /\ NumSteps * Round \in Nat
  BY Assumption DEF Assumption, Round
<1>2. b \in Nat \ {0} /\ b - 1 \in Nat /\ b <= NumSteps * Round
  BY <1>1 DEF Batches, Round
<1>3. q \in Nat /\ r \in 0 .. Round - 1 /\ b - 1 = q * Round + r
  BY <1>1, <1>2, Division
<1> HIDE DEF q, r
<1>4. q < NumSteps
  <2> SUFFICES ASSUME NumSteps <= q PROVE FALSE
    BY <1>1, <1>3
  <2>1. NumSteps * Round <= q * Round /\ q * Round \in Nat
    BY <1>1, <1>3, Monotonic
  <2>. QED  BY <1>1, <1>2, <1>3, <2>1
<1>5. (q + 1) * Round <= NumSteps * Round /\ (q + 1) * Round = q * Round + Round
  BY <1>1, <1>3, <1>4, Monotonic
<1>6. StepOf(b) = q + 1 /\ TrainOf(b) = q * Round + 1 /\ (IsTrain(b) <=> r = 0)
  BY <1>1, <1>3 DEF StepOf, TrainOf, IsTrain, Round, q, r
<1>7. q \in 0 .. NumSteps - 1 /\ r \in 0 .. ValBatches
  BY <1>1, <1>3, <1>4, Assumption DEF Assumption, Round
<1>8. /\ b = q * Round + r + 1
      /\ q * Round \in Nat /\ q * Round + Round <= NumSteps * Round
  BY <1>1, <1>2, <1>3, <1>5
<1>. QED  BY <1>6, <1>7, <1>8

\* Where the trainer goes from a batch.
LEMMA Moves ==
    ASSUME NEW b \in Batches
    PROVE  /\ b \in Nat
           /\ IsTrain(b) /\ ValBatches > 0 => b + 1 \in Batches
           /\ ~IsTrain(b) /\ ~LastOf(b) => b + 1 \in Batches
           /\ TrainOf(b) \in Batches /\ IsTrain(TrainOf(b))
           /\ LastOf(b) => b = TrainOf(b) + ValBatches
           /\ IsTrain(b) /\ StepOf(b) < NumSteps => b + 1 + ValBatches \in Batches
<1>1. PICK q \in 0 .. NumSteps - 1, r \in 0 .. ValBatches :
        /\ b = q * Round + r + 1 /\ StepOf(b) = q + 1
        /\ TrainOf(b) = q * Round + 1 /\ (IsTrain(b) <=> r = 0)
        /\ q * Round \in Nat /\ q * Round + Round <= NumSteps * Round
  BY Place
<1>2. /\ Round \in Nat \ {0} /\ NumSteps \in Nat \ {0} /\ ValBatches \in Nat
      /\ Round = 1 + ValBatches /\ NumSteps * Round \in Nat /\ q \in Nat
      /\ Batches = 1 .. NumSteps * Round
  BY <1>1, Assumption DEF Assumption, Round, Batches
<1>3. b \in Nat
  BY <1>1, <1>2
<1>4. IsTrain(TrainOf(b))
  <2>1. TrainOf(b) - 1 = q * Round
    BY <1>1
  <2>. QED  BY <1>1, <1>2, <2>1, Multiple DEF IsTrain
<1>5. ASSUME StepOf(b) < NumSteps PROVE q * Round + Round + Round <= NumSteps * Round
  <2>1. (q + 2) * Round <= NumSteps * Round
    BY <1>1, <1>2, <1>5, Monotonic
  <2>2. (q + 2) * Round = q * Round + Round + Round
    BY <1>2
  <2>. QED  BY <2>1, <2>2
<1> DEFINE first == q * Round
          end == NumSteps * Round
<1>6. /\ first \in Nat /\ end \in Nat /\ first + Round <= end
      /\ b = first + r + 1 /\ TrainOf(b) = first + 1 /\ Batches = 1 .. end
      /\ StepOf(b) < NumSteps => first + Round + Round <= end
  BY <1>1, <1>2, <1>5
<1> HIDE DEF first, end
<1>7. /\ IsTrain(b) /\ ValBatches > 0 => b + 1 \in Batches
      /\ TrainOf(b) \in Batches
      /\ LastOf(b) => b = TrainOf(b) + ValBatches
      /\ IsTrain(b) /\ StepOf(b) < NumSteps => b + 1 + ValBatches \in Batches
  BY <1>1, <1>2, <1>6 DEF LastOf
<1>8. ~IsTrain(b) /\ ~LastOf(b) => b + 1 \in Batches
  BY <1>1, <1>2, <1>6 DEF LastOf
<1>. QED  BY <1>3, <1>4, <1>7, <1>8

LEMMA FirstBatch == 1 \in Batches
<1>1. 1 * 1 <= NumSteps * Round /\ NumSteps * Round \in Nat
  <2>1. 1 * Round <= NumSteps * Round
    BY Monotonic, Assumption DEF Assumption, Round
  <2>. QED  BY <2>1, Assumption DEF Assumption, Round
<1>. QED  BY <1>1, Assumption DEF Assumption, Round, Batches

-----------------------------------------------------------------------------
\* Keys

LEMMA Kinds ==
    /\ \A k \in Sessions : k \in Keys /\ k \notin Uids /\ k[1] \in Batches
    /\ \A u \in Uids : /\ u \in Keys /\ u \notin Sessions /\ u[1] \in Batches
                       /\ SessionsOf(u) # {}
    /\ \A u \in Uids : \A k \in SessionsOf(u) : k \in Sessions /\ k[1] = u[1]
    /\ \A k \in Keys : k \in Sessions \/ k \in Uids
<1>1. \A u \in Uids : <<u[1], u[2], 1>> \in SessionsOf(u)
  BY Assumption DEF Assumption, Uids, Sessions, SessionsOf
<1>2. \A k \in Sessions : k \in Keys /\ k[1] \in Batches /\ k[3] # 0
  BY DEF Sessions, Keys
<1>3. \A u \in Uids : u \in Keys /\ u[1] \in Batches /\ u[3] = 0
  BY DEF Uids, Keys
<1>4. \A u \in Uids : \A k \in SessionsOf(u) : k \in Sessions /\ k[1] = u[1]
  BY DEF SessionsOf
<1>5. \A k \in Keys : k \in Sessions \/ k \in Uids
  BY DEF Keys
<1>. QED  BY <1>1, <1>2, <1>3, <1>4, <1>5

LEMMA UidsOfBatch ==
    ASSUME NEW b
    PROVE  \A u : u \in UidsOf(b) <=> u \in Uids /\ u[1] = b
BY DEF UidsOf

-----------------------------------------------------------------------------
\* Types

Tags == {"none", "running", "success", "finished", "failure"}

Tagged(f) ==
    /\ f \in [Keys -> Tags]
    /\ \A k \in Sessions : f[k] \in {"none", "success"}

Places ==
    /\ session \in [Sessions -> {"idle", "running", "done", "raised"}]
    /\ adding \subseteq Partitions
    /\ batch \in Batches
    /\ pc \in {"mark", "dispatch", "sample", "use", "clear", "remove", "done"}
    /\ sampled \in [Partitions -> SUBSET Sessions]
    /\ faults \in 0 .. MaxFaults

LEMMA Types == TypeOK <=> Tagged(tq) /\ Tagged(buffer) /\ Tagged(listed) /\ Places
BY DEF TypeOK, Tagged, Tags, Places

LEMMA PrimedTypes ==
    TypeOK' <=> Tagged(tq') /\ Tagged(buffer') /\ Tagged(listed') /\ Places'
BY DEF TypeOK, Tagged, Tags, Places

LEMMA EmptyTagged == Tagged(Empty)
BY Kinds DEF Empty, Tagged, Tags

LEMMA InitHolds == Init => IInv
<1> SUFFICES ASSUME Init PROVE IInv
  OBVIOUS
<1>1. TypeOK
  BY Types, EmptyTagged, FirstBatch, Assumption
     DEF Init, Places, Partitions, Assumption
<1>2. Idle /\ Awaiting /\ NoneMissed
  BY DEF Init, Idle, Awaiting, NoneMissed
<1>3. Marks /\ Copies /\ Listed
  BY Kinds DEF Init, Empty, Marks, Copies, Listed
<1>. QED  BY <1>1, <1>2, <1>3 DEF IInv

-----------------------------------------------------------------------------
\* A session or a prompt moves: only the queue and the sessions change.

LEMMA SessionKeeps ==
    ASSUME IInv, NEW k \in Sessions,
           PutOutput(k) \/ NoOutput(k) \/ SessionRaises(k)
    PROVE  IInv'
<1>1. /\ session[k] = "running"
      /\ \E state \in {"done", "raised"} : session' = [session EXCEPT ![k] = state]
      /\ tq' = tq \/ tq' = [tq EXCEPT ![k] = "success"]
      /\ faults' \in {faults, faults + 1} /\ (faults' # faults => faults < MaxFaults)
      /\ UNCHANGED <<buffer, pollVars, trainerVars>>
  BY DEF PutOutput, Put, NoOutput, SessionRaises, SetSession
<1>2. /\ Tagged(tq) /\ Tagged(buffer) /\ Tagged(listed) /\ Places
      /\ k \in Keys /\ k \notin Uids
  BY Types, Kinds DEF IInv
<1>3. TypeOK'
  <2>1. Tagged(tq')
    BY <1>1, <1>2, Kinds DEF Tagged, Tags
  <2>2. Places'
    BY <1>1, <1>2, Assumption DEF Places, trainerVars, pollVars, Assumption
  <2>. QED  BY <1>1, <1>2, <2>1, <2>2, PrimedTypes DEF pollVars
<1>4. Idle'
  BY <1>1, <1>2 DEF IInv, Idle, NotSent, trainerVars, Places
<1>5. \A u \in Uids : tq'[u] = tq[u]
  BY <1>1, <1>2, Kinds DEF Tagged
<1>6. Marks'
  BY <1>1, <1>2, <1>5, Kinds DEF IInv, Marks, AllDone, SomeRaised, Places
<1>7. \A u \in Uids : tq[u] = "finished" => k \notin SessionsOf(u)
  BY <1>1 DEF IInv, Marks, AllDone
<1>8. \A u \in Uids : tq[u] = "finished" =>
         \A j \in SessionsOf(u) : tq'[j] = tq[j]
  BY <1>1, <1>2, <1>7, Kinds DEF Tagged
<1>9. Copies'
  BY <1>1, <1>5 DEF IInv, Copies, pollVars
<1>10. Listed'
  BY <1>1, <1>8 DEF IInv, Listed, Copies, pollVars
<1>11. Awaiting'
  BY <1>1, <1>8, UidsOfBatch DEF IInv, Awaiting, Copies, trainerVars
<1>12. NoneMissed'
  BY <1>1, <1>5, <1>8, UidsOfBatch DEF IInv, NoneMissed, Mine, trainerVars
<1>. QED  BY <1>3, <1>4, <1>6, <1>9, <1>10, <1>11, <1>12 DEF IInv

LEMMA PromptKeeps ==
    ASSUME IInv, NEW u \in Uids, Finish(u) \/ Fail(u)
    PROVE  IInv'
<1>1. /\ tq[u] = "none"
      /\ \E status \in {"finished", "failure"} :
           /\ tq' = [tq EXCEPT ![u] = status]
           /\ status = "finished" => AllDone(u)
           /\ status = "failure" => SomeRaised(u)
      /\ UNCHANGED <<buffer, agentVars, pollVars, trainerVars>>
  BY DEF Finish, Fail, EndPrompt
<1>2. /\ Tagged(tq) /\ Tagged(buffer) /\ Tagged(listed) /\ Places
      /\ u \in Keys /\ u \notin Sessions
  BY Types, Kinds DEF IInv
<1>3. \A k \in Sessions : tq'[k] = tq[k]
  BY <1>1, <1>2, Kinds DEF Tagged
<1>4. \A v \in Uids : v # u => tq'[v] = tq[v]
  BY <1>1, <1>2, Kinds DEF Tagged
<1>5. tq'[u] \in {"finished", "failure"}
  BY <1>1, <1>2 DEF Tagged
<1>6. TypeOK'
  <2>1. Tagged(tq')
    BY <1>1, <1>2, <1>3 DEF Tagged, Tags
  <2>. QED  BY <1>1, <1>2, <2>1, PrimedTypes DEF Places, agentVars, pollVars, trainerVars
<1>7. Idle'
  BY <1>1 DEF IInv, Idle, NotSent, agentVars, trainerVars
<1>8. Marks'
  <2>1. /\ tq'[u] = "finished" => AllDone(u)
        /\ tq'[u] = "failure" => SomeRaised(u)
    BY <1>1, <1>2 DEF Tagged
  <2>. QED  BY <1>1, <1>4, <1>5, <2>1
         DEF IInv, Marks, AllDone, SomeRaised, agentVars
<1>9. Copies'
  BY <1>1, <1>4 DEF IInv, Copies, pollVars
<1>10. Listed'
  BY <1>1, <1>3, Kinds DEF IInv, Listed, pollVars
<1>11. Awaiting'
  BY <1>1, <1>3, UidsOfBatch, Kinds DEF IInv, Awaiting, trainerVars
<1>12. NoneMissed'
  BY <1>1, <1>3, <1>4, UidsOfBatch, Kinds DEF IInv, NoneMissed, Mine, trainerVars
<1>. QED  BY <1>6, <1>7, <1>8, <1>9, <1>10, <1>11, <1>12 DEF IInv

-----------------------------------------------------------------------------
\* The poll thread moves: only its own copy and the buffer change.

LEMMA PollListKeeps ==
    ASSUME IInv, PollList
    PROVE  IInv'
<1>1. /\ listed' = tq /\ adding' = Partitions
      /\ UNCHANGED <<tq, buffer, agentVars, trainerVars>>
  BY DEF PollList
<1>2. /\ Tagged(tq) /\ Tagged(buffer) /\ Tagged(listed) /\ Places
  BY Types DEF IInv
<1>3. TypeOK'
  BY <1>1, <1>2, PrimedTypes DEF Places, agentVars, trainerVars
<1>4. Idle' /\ Marks'
  BY <1>1 DEF IInv, Idle, NotSent, Marks, AllDone, SomeRaised, agentVars, trainerVars
<1>5. Copies' /\ Listed'
  BY <1>1 DEF IInv, Copies, Listed
<1>6. Awaiting' /\ NoneMissed'
  BY <1>1 DEF IInv, Awaiting, NoneMissed, Mine, trainerVars
<1>. QED  BY <1>3, <1>4, <1>5, <1>6 DEF IInv

LEMMA PollAddKeeps ==
    ASSUME IInv, NEW p \in Partitions, PollAdd(p)
    PROVE  IInv'
<1>1. /\ adding' = adding \ {p} /\ listed' \in {Empty, listed}
      /\ buffer' = [k \in Keys |-> IF Partition(k[1]) = p /\ listed[k] # "none"
                                   THEN listed[k] ELSE buffer[k]]
      /\ UNCHANGED <<tq, agentVars, trainerVars>>
  BY DEF PollAdd
<1>2. /\ Tagged(tq) /\ Tagged(buffer) /\ Tagged(listed) /\ Places
  BY Types DEF IInv
<1>3. \A u \in Uids : listed'[u] \in {"none", listed[u]}
  BY <1>1, Kinds DEF Empty
<1>4. \A k \in Keys :
         buffer'[k] = buffer[k] \/ (listed[k] # "none" /\ buffer'[k] = listed[k])
  BY <1>1
<1>5. \A k \in Keys : Partition(k[1]) = p /\ listed[k] # "none" => buffer'[k] = listed[k]
  BY <1>1
<1>6. TypeOK'
  <2>1. Tagged(buffer')
    BY <1>1, <1>2, Kinds DEF Tagged
  <2>2. Tagged(listed')
    BY <1>1, <1>2, EmptyTagged
  <2>. QED  BY <1>1, <1>2, <2>1, <2>2, PrimedTypes DEF Places, agentVars, trainerVars
<1>7. Idle' /\ Marks'
  BY <1>1 DEF IInv, Idle, NotSent, Marks, AllDone, SomeRaised, agentVars, trainerVars
<1>8. Copies'
  BY <1>1, <1>3, <1>4, Kinds DEF IInv, Copies
<1>9. Listed'
  <2>1. \A u \in Uids : listed'[u] = "finished" => listed' = listed
    BY <1>1, Kinds DEF Empty
  <2>. QED  BY <1>1, <2>1 DEF IInv, Listed
<1>10. Awaiting'
  <2> SUFFICES ASSUME pc \in {"dispatch", "sample"}, NEW u \in UidsOf(batch)
               PROVE  /\ buffer'[u] # "none"
                      /\ buffer'[u] = "finished" => \A k \in SessionsOf(u) :
                           tq[k] = "success" => buffer'[k] = "success"
    BY <1>1 DEF Awaiting, trainerVars
  <2>1. u \in Uids /\ u \in Keys
    BY UidsOfBatch, Kinds
  <2>2. \A k \in SessionsOf(u) : k \in Keys /\ k \in Sessions /\ k[1] = u[1]
    BY <2>1, Kinds
  <2>3. buffer'[u] # "none"
    BY <1>4, <2>1 DEF IInv, Awaiting
  <2>4. CASE Partition(u[1]) = p /\ listed[u] # "none"
    BY <1>5, <2>1, <2>2, <2>3, <2>4 DEF IInv, Listed
  <2>5. CASE ~(Partition(u[1]) = p /\ listed[u] # "none")
    <3>1. buffer'[u] = buffer[u]
      BY <1>1, <2>1, <2>5
    <3>2. \A k \in SessionsOf(u) : buffer[k] = "success" => buffer'[k] = "success"
      BY <1>2, <1>4, <2>2 DEF Tagged
    <3>. QED  BY <2>3, <3>1, <3>2 DEF IInv, Awaiting
  <2>. QED  BY <2>4, <2>5
<1>11. NoneMissed'
  BY <1>1 DEF IInv, NoneMissed, Mine, trainerVars
<1>. QED  BY <1>6, <1>7, <1>8, <1>9, <1>10, <1>11 DEF IInv

-----------------------------------------------------------------------------
\* The trainer moves: no prompt changes its mark.

\* A move that leaves the queue, the buffers of the prompts and the sessions of
\* the batches to come as they are, and neither waits nor uses afterwards.
LEMMA Onward ==
    ASSUME IInv, TypeOK', UNCHANGED <<agentVars, pollVars>>,
           \A b \in Batches : NotSent(b)' => NotSent(b),
           \A u \in Uids : tq'[u] = tq[u] /\ buffer'[u] = buffer[u],
           \A k \in Sessions : tq'[k] = "success" => tq[k] = "success",
           pc' \notin {"dispatch", "sample", "use"}
    PROVE  IInv'
<1>1. Idle'
  BY Kinds DEF IInv, Idle, agentVars
<1>2. Marks'
  BY DEF IInv, Marks, AllDone, SomeRaised, agentVars
<1>3. Copies'
  BY DEF IInv, Copies, pollVars
<1>4. Listed'
  BY Kinds DEF IInv, Listed, pollVars
<1>5. Awaiting' /\ NoneMissed'
  BY DEF Awaiting, NoneMissed
<1>. QED  BY <1>1, <1>2, <1>3, <1>4, <1>5 DEF IInv

LEMMA MarkKeeps ==
    ASSUME IInv, Mark
    PROVE  IInv'
<1>1. /\ pc = "mark" /\ pc' = "dispatch"
      /\ UNCHANGED <<tq, agentVars, pollVars, batch, sampled>>
  BY DEF Mark
<1>2. buffer' = [k \in Keys |->
                   IF k \in UidsOf(batch) THEN "running" ELSE buffer[k]]
  BY DEF Mark
<1>3. /\ Tagged(tq) /\ Tagged(buffer) /\ Tagged(listed) /\ Places
  BY Types DEF IInv
<1>4. /\ \A k \in Sessions : buffer'[k] = buffer[k]
      /\ \A u \in Uids : buffer'[u] \in {"running", buffer[u]}
      /\ \A u \in UidsOf(batch) : buffer'[u] = "running"
  BY <1>2, Kinds, UidsOfBatch
<1>5. TypeOK'
  <2>1. Tagged(buffer')
    BY <1>2, <1>3, <1>4, Kinds DEF Tagged, Tags
  <2>. QED  BY <1>1, <1>3, <2>1, PrimedTypes DEF Places, agentVars, pollVars
<1>6. Idle'
  BY <1>1 DEF IInv, Idle, NotSent, agentVars
<1>7. Marks' /\ Listed'
  BY <1>1 DEF IInv, Marks, AllDone, SomeRaised, Listed, agentVars, pollVars
<1>8. Copies'
  BY <1>1, <1>4 DEF IInv, Copies, pollVars
<1>9. Awaiting' /\ NoneMissed'
  BY <1>1, <1>4 DEF Awaiting, NoneMissed
<1>. QED  BY <1>5, <1>6, <1>7, <1>8, <1>9 DEF IInv

LEMMA DispatchKeeps ==
    ASSUME IInv, Dispatch
    PROVE  IInv'
<1>1. /\ pc = "dispatch" /\ pc' = "sample"
      /\ UNCHANGED <<tq, buffer, faults, pollVars, batch, sampled>>
  BY DEF Dispatch
<1>2. session' = [k \in Sessions |->
                    IF k[1] = batch THEN "running" ELSE session[k]]
  BY DEF Dispatch
<1>3. /\ Tagged(tq) /\ Tagged(buffer) /\ Tagged(listed) /\ Places /\ batch \in Nat
  BY Types, Moves DEF IInv, Places
<1>4. TypeOK'
  <2>1. session' \in [Sessions -> {"idle", "running", "done", "raised"}]
    BY <1>2, <1>3 DEF Places
  <2>. QED  BY <1>1, <1>3, <2>1, PrimedTypes DEF Places, pollVars
<1>5. Idle'
  <2>1. \A b \in Batches : NotSent(b)' => NotSent(b) /\ b # batch
    BY <1>1, <1>3, Moves DEF NotSent
  <2>. QED  BY <1>2, <2>1, Kinds DEF IInv, Idle
<1>6. Marks'
  <2> SUFFICES ASSUME NEW u \in Uids
               PROVE  /\ tq[u] = "finished" => AllDone(u)'
                      /\ tq[u] = "failure" => SomeRaised(u)'
    BY <1>1 DEF IInv, Marks
  <2>1. CASE u[1] = batch
    <3>1. \A k \in SessionsOf(u) : session[k] = "idle"
      BY <1>1, <1>3, <2>1, Kinds DEF IInv, Idle, NotSent
    <3>2. ~AllDone(u) /\ ~SomeRaised(u)
      BY <3>1, Kinds DEF AllDone, SomeRaised
    <3>. QED  BY <3>2 DEF IInv, Marks
  <2>2. CASE u[1] # batch
    <3>1. \A k \in SessionsOf(u) : session'[k] = session[k]
      BY <1>2, <2>2, Kinds
    <3>. QED  BY <3>1 DEF IInv, Marks, AllDone, SomeRaised
  <2>. QED  BY <2>1, <2>2
<1>7. Copies' /\ Listed'
  BY <1>1 DEF IInv, Copies, Listed, pollVars
<1>8. Awaiting' /\ NoneMissed'
  BY <1>1 DEF IInv, Awaiting, NoneMissed
<1>. QED  BY <1>4, <1>5, <1>6, <1>7, <1>8 DEF IInv

LEMMA SampleKeeps ==
    ASSUME IInv, Sample
    PROVE  IInv'
<1> DEFINE got == {k \in Keys : Asked(k) /\ buffer[k] = "success"}
<1>1. /\ pc = "sample" /\ Waited /\ pc' = "use"
      /\ sampled' = [sampled EXCEPT ![Mine] = got]
      /\ UNCHANGED <<tq, buffer, agentVars, pollVars, batch>>
  BY DEF Sample
<1>2. /\ Tagged(tq) /\ Tagged(buffer) /\ Tagged(listed) /\ Places
      /\ Mine \in Partitions
  BY Types DEF IInv, Mine, Partition, Partitions
<1>3. got \subseteq Sessions
  BY Kinds DEF IInv, Copies, Marks
<1>4. sampled' \in [Partitions -> SUBSET Sessions] /\ sampled'[Mine] = got
  BY <1>1, <1>2, <1>3 DEF Places
<1>5. TypeOK'
  BY <1>1, <1>2, <1>4, PrimedTypes DEF Places, agentVars, pollVars
<1>6. Idle'
  BY <1>1 DEF IInv, Idle, NotSent, agentVars
<1>7. Marks' /\ Copies' /\ Listed' /\ Awaiting'
  BY <1>1 DEF IInv, Marks, AllDone, SomeRaised, Copies, Listed, Awaiting,
              agentVars, pollVars
<1>8. NoneMissed'
  <2> SUFFICES ASSUME NEW u \in UidsOf(batch)
               PROVE  /\ tq[u] \in {"finished", "failure"}
                      /\ tq[u] = "finished" => \A k \in SessionsOf(u) :
                           tq[k] = "success" => k \in got
    BY <1>1, <1>4 DEF NoneMissed, Mine
  <2>1. u \in Uids /\ u \in Keys /\ u[1] = batch
    BY UidsOfBatch, Kinds
  <2>2. \A k \in SessionsOf(u) : k \in Keys /\ Asked(k)
    BY <2>1, Kinds DEF Asked, Mine
  <2>3. Asked(u)
    BY <2>1 DEF Asked, Mine
  <2>4. buffer[u] \notin {"none", "running"}
    BY <1>1, <2>1, <2>3 DEF IInv, Waited, Awaiting
  <2>5. buffer[u] = tq[u] /\ tq[u] \in {"finished", "failure"}
    BY <2>1, <2>4 DEF IInv, Copies, Marks
  <2>6. tq[u] = "finished" =>
          \A k \in SessionsOf(u) : tq[k] = "success" => buffer[k] = "success"
    BY <1>1, <2>5 DEF IInv, Awaiting
  <2>. QED  BY <2>2, <2>5, <2>6
<1>. QED  BY <1>5, <1>6, <1>7, <1>8 DEF IInv

LEMMA UseKeeps ==
    ASSUME IInv, Use
    PROVE  IInv'
<1>1. /\ pc = "use" /\ UNCHANGED <<tq, buffer, agentVars, pollVars, sampled>>
      /\ \/ IsTrain(batch) /\ ValBatches > 0 /\ batch' = batch + 1 /\ pc' = "mark"
         \/ batch' = batch /\ pc' = "clear"
  BY DEF Use
<1>2. /\ Tagged(tq) /\ Tagged(buffer) /\ Tagged(listed) /\ Places /\ batch \in Nat
  BY Types, Moves DEF IInv, Places
<1>3. batch' \in Batches
  BY <1>1, <1>2, Moves DEF Places
<1>4. TypeOK'
  BY <1>1, <1>2, <1>3, PrimedTypes DEF Places, agentVars, pollVars
<1>5. \A b \in Batches : NotSent(b)' => NotSent(b)
  BY <1>1, <1>2, Moves DEF NotSent
<1>. QED  BY <1>1, <1>4, <1>5, Onward

LEMMA ClearQueueKeeps ==
    ASSUME IInv, ClearQueue
    PROVE  IInv'
<1>1. /\ pc = "clear" /\ pc' = "remove"
      /\ UNCHANGED <<buffer, agentVars, pollVars, batch, sampled>>
  BY DEF ClearQueue
<1>2. tq' = [k \in Keys |-> IF k \in sampled[Mine] THEN "none" ELSE tq[k]]
  BY DEF ClearQueue
<1>3. /\ Tagged(tq) /\ Tagged(buffer) /\ Tagged(listed) /\ Places
      /\ Mine \in Partitions
  BY Types DEF IInv, Mine, Partition, Partitions
<1>4. sampled[Mine] \subseteq Sessions
  BY <1>3 DEF Places
<1>5. /\ \A u \in Uids : tq'[u] = tq[u]
      /\ \A k \in Sessions : tq'[k] \in {"none", tq[k]}
  BY <1>2, <1>4, Kinds
<1>6. TypeOK'
  <2>1. Tagged(tq')
    BY <1>2, <1>3, <1>5, Kinds DEF Tagged, Tags
  <2>. QED  BY <1>1, <1>3, <2>1, PrimedTypes DEF Places, agentVars, pollVars
<1>7. \A b \in Batches : NotSent(b)' => NotSent(b)
  BY <1>1 DEF NotSent
<1>. QED  BY <1>1, <1>5, <1>6, <1>7, Onward

LEMMA RemoveKeeps ==
    ASSUME IInv, Remove
    PROVE  IInv'
<1>1. pc = "remove" /\ UNCHANGED <<tq, agentVars, pollVars>>
  BY DEF Remove
<1>2. buffer' = [k \in Keys |->
                   IF k \in sampled[Mine] THEN "none" ELSE buffer[k]]
  BY DEF Remove
<1>3. sampled' = [sampled EXCEPT ![Mine] = {}]
  BY DEF Remove
<1>4. \/ ~IsTrain(batch) /\ ~LastOf(batch) /\ batch' = batch + 1 /\ pc' = "mark"
      \/ ~IsTrain(batch) /\ LastOf(batch) /\ batch' = TrainOf(batch) /\ pc' = "clear"
      \/ /\ IsTrain(batch) /\ StepOf(batch) < NumSteps
         /\ batch' = batch + 1 + ValBatches /\ pc' = "mark"
      \/ batch' = batch /\ pc' = "done"
  BY DEF Remove
<1>5. /\ Tagged(tq) /\ Tagged(buffer) /\ Tagged(listed) /\ Places
      /\ Mine \in Partitions /\ batch \in Nat
  BY Types, Moves DEF IInv, Mine, Partition, Partitions, Places
<1>6. sampled[Mine] \subseteq Sessions
  BY <1>5 DEF Places
<1>7. /\ \A u \in Uids : buffer'[u] = buffer[u]
      /\ \A k \in Sessions : buffer'[k] \in {"none", buffer[k]}
  BY <1>2, <1>6, Kinds
<1>8. batch' \in Batches
  BY <1>4, <1>5, Moves DEF Places
<1>9. TypeOK'
  <2>1. Tagged(buffer')
    BY <1>2, <1>5, <1>7, Kinds DEF Tagged, Tags
  <2>2. sampled' \in [Partitions -> SUBSET Sessions]
    BY <1>3, <1>5 DEF Places
  <2>. QED  BY <1>1, <1>4, <1>5, <1>8, <2>1, <2>2, PrimedTypes
         DEF Places, agentVars, pollVars
<1>10. \A b \in Batches : NotSent(b)' => NotSent(b)
  <2> SUFFICES ASSUME NEW b \in Batches, NotSent(b)' PROVE NotSent(b)
    OBVIOUS
  <2>1. b \in Nat /\ batch' \in Nat /\ ValBatches \in Nat
    BY <1>8, Moves, Assumption DEF Assumption
  <2>2. IsTrain(TrainOf(batch)) /\ (LastOf(batch) => batch = TrainOf(batch) + ValBatches)
    BY <1>5, Moves DEF Places
  <2>. QED  BY <1>1, <1>4, <1>5, <2>1, <2>2 DEF NotSent
<1>. QED  BY <1>1, <1>4, <1>7, <1>9, <1>10, Onward

-----------------------------------------------------------------------------
LEMMA StutterKeeps ==
    ASSUME IInv, UNCHANGED vars
    PROVE  IInv'
<1>1. UNCHANGED <<tq, buffer, session, listed, adding, batch, pc, sampled, faults>>
  BY DEF vars, agentVars, pollVars, trainerVars
<1>2. TypeOK'
  BY <1>1, Types, PrimedTypes DEF IInv, Places
<1>3. Idle' /\ Marks' /\ Copies'
  BY <1>1 DEF IInv, Idle, NotSent, Marks, AllDone, SomeRaised, Copies
<1>4. Listed' /\ Awaiting' /\ NoneMissed'
  BY <1>1 DEF IInv, Listed, Awaiting, NoneMissed, Mine
<1>. QED  BY <1>2, <1>3, <1>4 DEF IInv

\* The invariant holds throughout: of the code, that neither a copy taken before
\* a prompt ended nor the mark of a new batch brings back an older state of it.
THEOREM Inductive == Spec => []IInv
<1>1. ASSUME IInv, [Next]_vars PROVE IInv'
  <2>1. CASE Agents
    BY <1>1, <2>1, SessionKeeps, PromptKeeps DEF Agents
  <2>2. CASE Poll
    BY <1>1, <2>2, PollListKeeps, PollAddKeeps DEF Poll
  <2>3. CASE Trainer
    BY <1>1, <2>3, MarkKeeps, DispatchKeeps, SampleKeeps, UseKeeps,
       ClearQueueKeeps, RemoveKeeps DEF Trainer
  <2>4. CASE UNCHANGED vars
    BY <1>1, <2>4, StutterKeeps
  <2>. QED  BY <1>1, <2>1, <2>2, <2>3, <2>4 DEF Next
<1>. QED  BY InitHolds, <1>1, PTL DEF Spec

\* The tags, the batch and the samples have their types: of the code, that the
\* replay buffer hands out trajectories and never the entry of a prompt, and
\* that the trainer's walk over its batches and their validations stays in it.
THEOREM ReplayTypes == Spec => []TypeOK
<1>1. IInv => TypeOK
  BY DEF IInv
<1>. QED  BY <1>1, Inductive, PTL

\* When sample returns, every prompt of the batch has ended and every trajectory
\* of those that finished is in the sample, however the poll thread interleaves.
THEOREM NoTrajectoryMissed == Spec => []NoneMissed
<1>1. IInv => NoneMissed
  BY DEF IInv
<1>. QED  BY <1>1, Inductive, PTL

-----------------------------------------------------------------------------
(* Whose trajectories the trainer gets, when a validation is one batch.     *)
(* (With two, they share the step's number and the poll thread may bring    *)
(* back what was cleared of the first: see the run replay_ghosts.)          *)

\* What the trainer has not cleared yet, or will ask for.
Uncleared(b) ==
    /\ b >= TrainOf(batch) /\ pc # "done"
    /\ pc = "remove" => b # batch
    /\ pc \in {"clear", "remove"} /\ IsTrain(batch) =>
            b <= batch \/ b > batch + ValBatches

\* A trajectory that is seen in the buffer, or on its way there, is in the queue
\* as long as it is not cleared ...
Intact == \A k \in Sessions : Uncleared(k[1]) =>
    /\ listed[k] = "success" => tq[k] = "success"
    /\ buffer[k] = "success" => tq[k] = "success"

\* ... and what the trainer holds is of its batch, or of the training batch whose
\* validation it runs.
Held == \A p \in Partitions : \A k \in sampled[p] :
    /\ Partition(k[1]) = p
    /\ k[1] = batch \/ (k[1] = TrainOf(batch) /\ p = "train")
    /\ k[1] = batch => pc \in {"use", "clear", "remove"}

OwnInv == Intact /\ Held /\ ReadsLive

LEMMA Walk ==
    ASSUME ValBatches <= 1, NEW b \in Batches
    PROVE  /\ b \in Nat \ {0} /\ ValBatches \in {0, 1}
           /\ IsTrain(b) => TrainOf(b) = b
           /\ IsTrain(b) /\ ValBatches = 1 => TrainOf(b + 1) = b /\ ~IsTrain(b + 1)
           /\ ~IsTrain(b) => /\ TrainOf(b) = b - 1 /\ ValBatches = 1 /\ LastOf(b)
                             /\ IsTrain(b - 1) /\ TrainOf(b - 1) = b - 1
           /\ IsTrain(b) => /\ IsTrain(b + 1 + ValBatches)
                            /\ TrainOf(b + 1 + ValBatches) = b + 1 + ValBatches
           /\ \A a \in Batches : (IsTrain(a) <=> IsTrain(b)) /\ StepOf(a) = StepOf(b) => a = b
<1>1. ValBatches \in {0, 1} /\ \A a \in Batches : a \in Nat \ {0}
  <2>1. \A a \in Batches : a \in Nat /\ a >= 1
    BY Moves DEF Batches
  <2>. QED  BY <2>1, Assumption DEF Assumption
<1>2. CASE ValBatches = 0
  <2>1. \A a \in Nat \ {0} : IsTrain(a) /\ StepOf(a) = a /\ TrainOf(a) = a
    BY <1>2 DEF IsTrain, StepOf, TrainOf
  <2>. QED  BY <1>1, <1>2, <2>1
<1>3. CASE ValBatches = 1
  <2>1. \A a \in Nat \ {0} : /\ IsTrain(a) <=> (a - 1) % 2 = 0
                             /\ StepOf(a) = ((a - 1) \div 2) + 1
                             /\ TrainOf(a) = ((a - 1) \div 2) * 2 + 1
    BY <1>3 DEF IsTrain, StepOf, TrainOf
  <2>2. LastOf(b) <=> b = TrainOf(b) + 1
    BY <1>3 DEF LastOf
  <2>3. b \in Nat \ {0} /\ b + 1 \in Nat \ {0} /\ b + 1 + 1 \in Nat \ {0}
    BY <1>1
  <2>4. IsTrain(b) => TrainOf(b) = b /\ TrainOf(b + 1) = b /\ ~IsTrain(b + 1)
    BY <2>1, <2>3
  <2>5. ~IsTrain(b) => b - 1 \in Nat \ {0} /\ TrainOf(b) = b - 1
    BY <2>1, <2>3
  <2>6. ~IsTrain(b) => IsTrain(b - 1) /\ TrainOf(b - 1) = b - 1
    BY <2>1, <2>3, <2>5
  <2>7. IsTrain(b) => IsTrain(b + 1 + 1) /\ TrainOf(b + 1 + 1) = b + 1 + 1
    BY <2>1, <2>3
  <2>8. \A a \in Batches : (IsTrain(a) <=> IsTrain(b)) /\ StepOf(a) = StepOf(b) => a = b
    BY <1>1, <2>1, <2>3
  <2>. QED  BY <1>1, <1>3, <2>2, <2>3, <2>4, <2>5, <2>6, <2>7, <2>8
<1>. QED  BY <1>1, <1>2, <1>3

LEMMA OwnInit == Init => OwnInv
BY Kinds DEF Init, Empty, OwnInv, Intact, Held, ReadsLive

\* The agents only add, and the poll thread only copies.
LEMMA AgentsOwn ==
    ASSUME TypeOK, OwnInv, Agents PROVE OwnInv'
<1>1. /\ UNCHANGED <<buffer, listed, batch, pc, sampled>>
      /\ \A k \in Sessions : tq'[k] \in {tq[k], "success"}
  <2>1. Tagged(tq) /\ DOMAIN tq = Keys
    BY Types DEF Tagged
  <2>2. CASE \E k \in Sessions : PutOutput(k) \/ NoOutput(k) \/ SessionRaises(k)
    BY <2>1, <2>2, Kinds DEF PutOutput, Put, NoOutput, SessionRaises, pollVars, trainerVars
  <2>3. CASE \E u \in Uids : Finish(u) \/ Fail(u)
    BY <2>1, <2>3, Kinds DEF Finish, Fail, EndPrompt, agentVars, pollVars, trainerVars
  <2>. QED  BY <2>2, <2>3 DEF Agents
<1>2. \A p \in Partitions : sampled[p] \subseteq Sessions
  BY Types DEF Places
<1>3. Intact'
  BY <1>1 DEF OwnInv, Intact, Uncleared
<1>4. Held'
  BY <1>1 DEF OwnInv, Held
<1>5. ReadsLive'
  BY <1>1, <1>2 DEF OwnInv, ReadsLive, Mine
<1>. QED  BY <1>3, <1>4, <1>5 DEF OwnInv

LEMMA PollOwns ==
    ASSUME TypeOK, OwnInv, Poll PROVE OwnInv'
<1>1. /\ UNCHANGED <<tq, batch, pc, sampled>>
      /\ \A k \in Sessions : /\ listed'[k] \in {listed[k], tq[k], "none"}
                             /\ buffer'[k] \in {listed[k], buffer[k]}
  <2>1. CASE PollList
    BY <2>1 DEF PollList, trainerVars
  <2>2. CASE \E p \in Partitions : PollAdd(p)
    <3>1. PICK p \in Partitions : PollAdd(p)
      BY <2>2
    <3>2. listed' \in {Empty, listed}
      BY <3>1 DEF PollAdd
    <3>3. \A k \in Sessions : listed'[k] \in {listed[k], "none"}
      BY <3>2, Kinds DEF Empty
    <3>. QED  BY <3>1, <3>3, Kinds DEF PollAdd, agentVars, trainerVars
  <2>. QED  BY <2>1, <2>2 DEF Poll
<1>2. Intact'
  BY <1>1 DEF OwnInv, Intact, Uncleared
<1>3. Held' /\ ReadsLive'
  BY <1>1 DEF OwnInv, Held, ReadsLive, Mine
<1>. QED  BY <1>2, <1>3 DEF OwnInv

\* The moves that sample, clear and remove nothing.
LEMMA OnwardOwns ==
    ASSUME ValBatches <= 1, TypeOK, TypeOK', OwnInv, Mark \/ Dispatch \/ Use PROVE OwnInv'
<1>1. /\ UNCHANGED <<tq, listed, sampled>> /\ pc' \notin {"remove", "done"}
      /\ \A k \in Sessions : buffer'[k] = buffer[k]
      /\ \/ pc \in {"mark", "dispatch"} /\ pc' \in {"dispatch", "sample"} /\ batch' = batch
         \/ pc = "use" /\ IsTrain(batch) /\ ValBatches > 0 /\ batch' = batch + 1 /\ pc' = "mark"
         \/ /\ pc = "use" /\ pc' = "clear" /\ batch' = batch
            /\ IsTrain(batch) => ~(ValBatches > 0)
  BY Kinds, UidsOfBatch DEF Mark, Dispatch, Use, pollVars
<1>2. batch \in Batches /\ batch' \in Batches
  BY Types, PrimedTypes DEF Places
<1>3. \A k \in Sessions : k[1] \in Batches /\ k[1] \in Nat
  BY Kinds, Moves
<1>4. \A p \in Partitions : sampled[p] \subseteq Sessions
  BY Types DEF Places
<1>5. /\ batch \in Nat \ {0} /\ ValBatches \in {0, 1}
      /\ IsTrain(batch) => TrainOf(batch) = batch
      /\ IsTrain(batch) /\ ValBatches = 1 => TrainOf(batch + 1) = batch /\ ~IsTrain(batch + 1)
  BY <1>2, Walk
<1>6. \A b \in Nat : Uncleared(b)' => Uncleared(b)
  <2> SUFFICES ASSUME NEW b \in Nat, Uncleared(b)' PROVE Uncleared(b)
    OBVIOUS
  <2>1. b >= TrainOf(batch') /\ pc \notin {"clear", "remove", "done"}
    BY <1>1 DEF Uncleared
  <2>2. TrainOf(batch') = TrainOf(batch)
    BY <1>1, <1>5
  <2>. QED  BY <2>1, <2>2 DEF Uncleared
<1>7. Intact'
  BY <1>1, <1>3, <1>6 DEF OwnInv, Intact
<1>8. ASSUME NEW p \in Partitions, NEW k \in sampled[p]
      PROVE  /\ Partition(k[1]) = p /\ tq[k] = "success"
             /\ k[1] = batch' \/ (k[1] = TrainOf(batch') /\ p = "train")
             /\ k[1] = batch' => pc' \in {"use", "clear", "remove"}
  <2>1. /\ Partition(k[1]) = p /\ tq[k] = "success"
        /\ k[1] = batch \/ (k[1] = TrainOf(batch) /\ p = "train")
        /\ k[1] = batch => pc \in {"use", "clear", "remove"}
    BY <1>1, <1>8 DEF OwnInv, Held, ReadsLive
  <2>2. CASE batch' = batch
    <3>1. pc \in {"mark", "dispatch"} \/ (pc = "use" /\ pc' = "clear")
      BY <1>1, <1>5, <2>2
    <3>. QED  BY <2>1, <2>2, <3>1
  <2>3. CASE IsTrain(batch) /\ ValBatches > 0 /\ batch' = batch + 1 /\ pc' = "mark"
    <3>1. k[1] = batch /\ TrainOf(batch') = batch /\ batch' # batch
      BY <1>5, <2>1, <2>3
    <3>. QED  BY <2>1, <2>3, <3>1 DEF Partition
  <2>. QED  BY <1>1, <2>2, <2>3
<1>9. Held'
  BY <1>1, <1>8 DEF Held
<1>10. ReadsLive'
  BY <1>1, <1>8 DEF ReadsLive
<1>. QED  BY <1>7, <1>9, <1>10 DEF OwnInv

LEMMA SampleOwns ==
    ASSUME ValBatches <= 1, TypeOK, TypeOK', OwnInv, Sample PROVE OwnInv'
<1>1. /\ pc = "sample" /\ pc' = "use" /\ UNCHANGED <<tq, buffer, listed, batch>>
      /\ sampled' = [sampled EXCEPT ![Mine] =
                        {k \in Keys : Asked(k) /\ buffer[k] = "success"}]
  BY DEF Sample, pollVars
<1>2. /\ batch \in Batches /\ sampled \in [Partitions -> SUBSET Sessions]
      /\ sampled' \in [Partitions -> SUBSET Sessions] /\ Mine \in Partitions
  BY Types, PrimedTypes DEF Places, Mine, Partition, Partitions
<1>3. Uncleared(batch)
  <2>1. batch \in Nat /\ batch >= TrainOf(batch)
    BY <1>2, Walk
  <2>. QED  BY <1>1, <2>1 DEF Uncleared
<1>4. \A k \in sampled'[Mine] : k[1] = batch /\ Partition(k[1]) = Mine /\ tq[k] = "success"
  <2> SUFFICES ASSUME NEW k \in sampled'[Mine]
               PROVE  k[1] = batch /\ Partition(k[1]) = Mine /\ tq[k] = "success"
    OBVIOUS
  <2>1. k \in Sessions /\ Asked(k) /\ buffer[k] = "success" /\ k[1] \in Batches
    BY <1>1, <1>2, Kinds
  <2>2. IsTrain(k[1]) <=> IsTrain(batch)
    BY <2>1 DEF Asked, Mine, Partition
  <2>3. k[1] = batch
    BY <1>2, <2>1, <2>2, Walk DEF Asked
  <2>. QED  BY <1>3, <2>1, <2>3 DEF OwnInv, Intact, Asked
<1>5. \A p \in Partitions : p # Mine => sampled'[p] = sampled[p]
  BY <1>1, <1>2
<1>6. Intact'
  BY <1>1 DEF OwnInv, Intact, Uncleared
<1>7. Held'
  BY <1>1, <1>4, <1>5 DEF OwnInv, Held
<1>8. ReadsLive'
  BY <1>1, <1>4, <1>5 DEF OwnInv, ReadsLive
<1>. QED  BY <1>6, <1>7, <1>8 DEF OwnInv

\* What is cleared and removed is the batch's own.
LEMMA MineIsOwn ==
    ASSUME ValBatches <= 1, TypeOK, OwnInv
    PROVE  /\ batch \in Batches /\ Mine \in Partitions
           /\ \A p \in Partitions : sampled[p] \subseteq Sessions
           /\ \A k \in sampled[Mine] : k[1] = batch
           /\ \A p \in Partitions : \A k \in sampled[p] : p # Mine =>
                /\ k \notin sampled[Mine] /\ ~IsTrain(batch)
                /\ p = "train" /\ k[1] = TrainOf(batch)
<1>1. /\ batch \in Batches /\ Mine \in Partitions
      /\ \A p \in Partitions : sampled[p] \subseteq Sessions
  BY Types DEF Places, Mine, Partition, Partitions
<1>2. /\ batch \in Nat \ {0} /\ (IsTrain(batch) => TrainOf(batch) = batch)
  BY <1>1, Walk
<1>3. \A p \in Partitions : \A k \in sampled[p] :
        Partition(k[1]) = p /\ (k[1] = batch \/ (k[1] = TrainOf(batch) /\ p = "train"))
  BY DEF OwnInv, Held
<1>4. \A k \in sampled[Mine] : k[1] = batch
  BY <1>1, <1>2, <1>3 DEF Mine, Partition
<1>. QED  BY <1>1, <1>2, <1>3, <1>4 DEF Mine, Partition

LEMMA ClearOwns ==
    ASSUME ValBatches <= 1, TypeOK, OwnInv, ClearQueue PROVE OwnInv'
<1>1. /\ pc = "clear" /\ pc' = "remove" /\ UNCHANGED <<buffer, listed, batch, sampled>>
      /\ tq' = [k \in Keys |-> IF k \in sampled[Mine] THEN "none" ELSE tq[k]]
  BY DEF ClearQueue, pollVars
<1>2. \A k \in Sessions : k \notin sampled[Mine] => tq'[k] = tq[k]
  BY <1>1, Kinds
<1>3. \A b : Uncleared(b)' => Uncleared(b) /\ b # batch
  BY <1>1 DEF Uncleared
<1>4. Intact'
  BY <1>1, <1>2, <1>3, MineIsOwn DEF OwnInv, Intact
<1>5. Held'
  BY <1>1 DEF OwnInv, Held
<1>6. ReadsLive'
  <2>1. Mine' = Mine
    BY <1>1 DEF Mine
  <2>2. \A p \in Partitions : \A k \in sampled[p] : p # Mine => tq'[k] = "success"
    BY <1>1, <1>2, MineIsOwn DEF OwnInv, ReadsLive
  <2>. QED  BY <1>1, <2>1, <2>2 DEF ReadsLive
<1>. QED  BY <1>4, <1>5, <1>6 DEF OwnInv

LEMMA RemoveOwns ==
    ASSUME ValBatches <= 1, TypeOK, TypeOK', OwnInv, Remove PROVE OwnInv'
<1>0. batch \in Batches /\ Mine \in Partitions /\ batch \in Nat /\ batch' \in Nat
  BY MineIsOwn, Moves, PrimedTypes DEF Places
<1>1. /\ pc = "remove" /\ UNCHANGED <<tq, listed>>
      /\ buffer' = [k \in Keys |-> IF k \in sampled[Mine] THEN "none" ELSE buffer[k]]
      /\ sampled' = [sampled EXCEPT ![Mine] = {}]
  BY DEF Remove, pollVars
<1>2. \/ ~IsTrain(batch) /\ ValBatches = 1 /\ batch' = batch - 1 /\ pc' = "clear"
         /\ IsTrain(batch') /\ TrainOf(batch') = batch' /\ TrainOf(batch) = batch'
      \/ IsTrain(batch) /\ batch' = batch + 1 + ValBatches /\ pc' = "mark"
         /\ TrainOf(batch') = batch' /\ TrainOf(batch) = batch
      \/ IsTrain(batch) /\ batch' = batch /\ pc' = "done"
  <2>1. CASE IsTrain(batch)
    BY <1>0, <2>1, Walk DEF Remove
  <2>2. CASE ~IsTrain(batch)
    <3>1. /\ TrainOf(batch) = batch - 1 /\ ValBatches = 1 /\ LastOf(batch)
          /\ IsTrain(batch - 1) /\ TrainOf(batch - 1) = batch - 1
      BY <1>0, <2>2, Walk
    <3>2. batch' = TrainOf(batch) /\ pc' = "clear"
      BY <2>2, <3>1 DEF Remove
    <3>. QED  BY <2>2, <3>1, <3>2
  <2>. QED  BY <2>1, <2>2
<1>3. /\ sampled'[Mine] = {} /\ \A p \in Partitions : p # Mine => sampled'[p] = sampled[p]
      /\ \A k \in Sessions : buffer'[k] \in {"none", buffer[k]}
  <2>1. sampled \in [Partitions -> SUBSET Sessions]
    BY Types DEF Places
  <2>. QED  BY <1>0, <1>1, <2>1, Kinds
<1>4. \A b \in Nat : Uncleared(b)' => Uncleared(b)
  <2> SUFFICES ASSUME NEW b \in Nat, Uncleared(b)' PROVE Uncleared(b)
    OBVIOUS
  <2>1. ValBatches \in {0, 1}
    BY <1>0, Walk
  <2>2. pc' # "done" /\ b >= TrainOf(batch')
    BY DEF Uncleared
  <2>3. CASE /\ ~IsTrain(batch) /\ ValBatches = 1 /\ batch' = batch - 1 /\ pc' = "clear"
             /\ IsTrain(batch') /\ TrainOf(batch') = batch' /\ TrainOf(batch) = batch'
    <3>1. b <= batch' \/ b > batch' + 1
      BY <2>3 DEF Uncleared
    <3>. QED  BY <1>0, <1>1, <2>2, <2>3, <3>1 DEF Uncleared
  <2>4. CASE /\ IsTrain(batch) /\ batch' = batch + 1 + ValBatches /\ pc' = "mark"
             /\ TrainOf(batch') = batch' /\ TrainOf(batch) = batch
    <3>1. b > batch + ValBatches /\ b > batch
      BY <1>0, <2>1, <2>2, <2>4
    <3>. QED  BY <1>0, <1>1, <2>4, <3>1 DEF Uncleared
  <2>. QED  BY <1>2, <2>2, <2>3, <2>4
<1>5. Intact'
  <2>1. \A k \in Sessions : k[1] \in Nat
    BY Kinds, Moves
  <2>. QED  BY <1>1, <1>3, <1>4, <2>1 DEF OwnInv, Intact
<1>6. ASSUME NEW p \in Partitions, NEW k \in sampled'[p]
      PROVE  /\ Partition(k[1]) = p /\ p = "train" /\ k[1] = TrainOf(batch')
             /\ k[1] = batch' /\ pc' = "clear" /\ tq[k] = "success"
  <2>1. p # Mine /\ k \in sampled[p]
    BY <1>3, <1>6
  <2>2. ~IsTrain(batch) /\ p = "train" /\ k[1] = TrainOf(batch)
    BY <2>1, MineIsOwn
  <2>3. Partition(k[1]) = p /\ tq[k] = "success"
    BY <2>1 DEF OwnInv, Held, ReadsLive
  <2>. QED  BY <1>2, <2>2, <2>3
<1>7. Held'
  BY <1>6 DEF Held
<1>8. ReadsLive'
  BY <1>1, <1>6 DEF ReadsLive
<1>. QED  BY <1>5, <1>7, <1>8 DEF OwnInv

LEMMA OwnInductive == ASSUME ValBatches <= 1 PROVE Spec => [](TypeOK /\ OwnInv)
<1>1. ASSUME TypeOK, TypeOK', OwnInv, [Next]_vars PROVE OwnInv'
  <2>1. CASE Trainer
    BY <1>1, <2>1, OnwardOwns, SampleOwns, ClearOwns, RemoveOwns DEF Trainer
  <2>2. CASE UNCHANGED vars
    BY <1>1, <2>2 DEF vars, pollVars, trainerVars, OwnInv, Intact, Uncleared, Held,
                      ReadsLive, Mine
  <2>. QED  BY <1>1, <2>1, <2>2, AgentsOwn, PollOwns DEF Next
<1>. QED  BY OwnInit, <1>1, ReplayTypes, PTL DEF Spec

\* With one validation batch, as is the default, or none: whatever sessions put
\* late and however the poll thread interleaves, sample returns trajectories of
\* the prompts just sent and no other.
THEOREM SampleIsOwn == ASSUME ValBatches <= 1 PROVE Spec => []OwnBatch
<1>1. TypeOK /\ OwnInv => OwnBatch
  BY MineIsOwn DEF OwnBatch
<1>. QED  BY <1>1, OwnInductive, PTL

\* ... and the transfer queue holds every one of them until the trainer clears
\* it, also those of a training batch read again after the validation.
THEOREM SampleStaysInQueue == ASSUME ValBatches <= 1 PROVE Spec => []ReadsLive
<1>1. OwnInv => ReadsLive
  BY DEF OwnInv
<1>. QED  BY <1>1, OwnInductive, PTL
=============================================================================
