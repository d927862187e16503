------------------------ MODULE RolloutServersProofs ------------------------
(***************************************************************************)
(* Proofs about the rollout servers and the load balancer, for any servers *)
(* and conversations, any size of the session cache and any number of      *)
(* weight versions.  What the trainer has reached in its fixed sequence of *)
(* calls decides which servers are paused, awake and in the pool; the      *)
(* inductive invariant says what holds at each of its calls.               *)
(***************************************************************************)
EXTENDS RolloutServers, FiniteSetTheorems, SequenceTheorems, TLAPS

\* The longest plan; the other one, Sync, is its beginning.
Path == Sync \o Validate

\* The calls left are those from the n-th to the last one.
Left(n, last) ==
    /\ last \in {4, Len(Path)} /\ n \in 1 .. last + 1
    /\ plan = SubSeq(Path, n, last)
    /\ todo \subseteq IF n <= last THEN Path[n][2] ELSE {}

\* Nothing runs, and nothing starts, on the server.
Quiet(s) == paused[s] /\ Quiescent(s)

\* Between the abort and the transfer the standalone servers are quiet.
QuietAt(n) ==
    /\ n = 1 => \A s \in Standalone \ todo : Quiet(s)
    /\ n \in {2, 3} => \A s \in Standalone : Quiet(s)

\* The hybrid servers are in the pool from "add" to "remove" ...
AliveAt(n) ==
    alive = IF n \in 9 .. 13 \/ (n = 8 /\ todo = {}) \/ (n = 14 /\ todo # {})
              THEN Hybrid ELSE {}

\* ... and awake from "wake" to "sleep".
AwakeAt(n, last) ==
    n \in 6 .. 15 \/ (n = 5 /\ last > 4 /\ todo = {}) => \A s \in Hybrid : awake[s]

\* A collective call reaches its whole group.
GroupAt(n) == n \in {5, 8, 14} => todo \in {{}, Hybrid}

PlanInv ==
    \E n \in 1 .. 19, last \in 4 .. 18 :
        /\ Left(n, last) /\ GroupAt(n)
        /\ QuietAt(n) /\ AliveAt(n) /\ AwakeAt(n, last)

PoolInv ==
    /\ Pool = Standalone \cup alive
    /\ \A s \in Standalone : awake[s]

TurnsLeft == \A r \in Requests : client[r] # "done" => turn[r] < Turns

Holders(s) == {r \in Requests : at[r] = s}
FewHolders == \A s \in Servers : IsFiniteSet(Holders(s))

IInv ==
    /\ TypeOK /\ PlanInv /\ PoolInv /\ TurnsLeft /\ FewHolders
    /\ NoInventedLoad /\ OneVersion

-----------------------------------------------------------------------------
\* The trainer's calls, by their number.
LEMMA PathCalls ==
    /\ Len(Path) = IF Hybrid = {} THEN 5 ELSE 18
    /\ Path[1] = <<"abort", Standalone>> /\ Path[2] = <<"drain", Standalone>>
    /\ Path[3] = <<"transfer", Standalone>> /\ Path[4] = <<"resume", Standalone>>
    /\ Hybrid = {} => Path[5] = <<"validate", {}>>
    /\ Hybrid # {} =>
         /\ Path[5] = <<"wake", Hybrid>> /\ Path[6] = <<"abort", Standalone>>
         /\ Path[7] = <<"abort", Hybrid>> /\ Path[8] = <<"add", Hybrid>>
         /\ Path[9] = <<"resume", Standalone>> /\ Path[10] = <<"resume", Hybrid>>
         /\ Path[11] = <<"validate", {}>> /\ Path[12] = <<"abort", Standalone>>
         /\ Path[13] = <<"abort", Hybrid>> /\ Path[14] = <<"remove", Hybrid>>
         /\ Path[15] = <<"drain", Hybrid>> /\ Path[16] = <<"sleep", Hybrid>>
         /\ Path[17] = <<"resume", Standalone>> /\ Path[18] = <<"resume", Hybrid>>
<1>1. CASE Hybrid = {}
  BY <1>1 DEF Path, Sync, Validate
<1>2. CASE Hybrid # {}
  BY <1>2 DEF Path, Sync, Validate, TrainerSide
<1>. QED  BY <1>1, <1>2

Call == {"abort", "drain", "transfer", "resume", "wake", "add", "validate",
         "remove", "sleep"} \X SUBSET Servers

LEMMA PathSeq == Path \in Seq(Call)
<1>1. \A g \in {Standalone, Hybrid, {}} :
        /\ <<"abort", g>> \in Call /\ <<"drain", g>> \in Call
        /\ <<"transfer", g>> \in Call /\ <<"resume", g>> \in Call
        /\ <<"wake", g>> \in Call /\ <<"add", g>> \in Call
        /\ <<"validate", g>> \in Call /\ <<"remove", g>> \in Call
        /\ <<"sleep", g>> \in Call
  BY DEF Call, Servers
<1>2. Sync \in Seq(Call)
  BY <1>1 DEF Sync
<1>3. TrainerSide \in Seq(Call)
  BY <1>1 DEF TrainerSide
<1>4. << <<"validate", {}>> >> \in Seq(Call)
  BY <1>1
<1>. QED  BY <1>2, <1>3, <1>4 DEF Path, Validate

\* A piece of a sequence.
LEMMA Piece ==
    ASSUME NEW S, NEW q \in Seq(S), NEW a \in 1 .. Len(q) + 1, NEW b \in a - 1 .. Len(q)
    PROVE  /\ SubSeq(q, a, b) \in Seq(S) /\ Len(SubSeq(q, a, b)) = b + 1 - a
           /\ \A i \in 1 .. b + 1 - a : SubSeq(q, a, b)[i] = q[a + i - 1]
OBVIOUS

LEMMA PlanStep ==
    ASSUME NEW n \in 1 .. 19, NEW last \in 4 .. 18, Left(n, last)
    PROVE  /\ plan = <<>> <=> n = last + 1
           /\ n <= last =>
                /\ Head(plan) = Path[n]
                /\ Tail(plan) = SubSeq(Path, n + 1, last)
                /\ Tail(plan) = <<>> <=> n = last
                /\ n < last => Head(Tail(plan)) = Path[n + 1]
<1>1. Len(Path) \in {5, 18}
  BY PathCalls
<1>2. Path \in Seq(Call) /\ last <= Len(Path) /\ n \in 1 .. last + 1
  BY <1>1, PathSeq DEF Left
<1>3. /\ plan \in Seq(Call) /\ Len(plan) = last + 1 - n
      /\ \A i \in 1 .. last + 1 - n : plan[i] = Path[n + i - 1]
  BY <1>1, <1>2, Piece DEF Left
<1>4. plan = <<>> <=> n = last + 1
  BY <1>3
<1>5. ASSUME n <= last
      PROVE  /\ Head(plan) = Path[n]
             /\ Tail(plan) = SubSeq(Path, n + 1, last)
             /\ Tail(plan) = <<>> <=> n = last
             /\ n < last => Head(Tail(plan)) = Path[n + 1]
  <2>1. /\ Head(plan) = plan[1] /\ Tail(plan) \in Seq(Call)
        /\ Len(Tail(plan)) = last - n
        /\ \A i \in 1 .. last - n : Tail(plan)[i] = plan[i + 1]
    <3>1. plan # <<>> /\ Len(plan) \in Nat /\ Len(plan) - 1 = last - n
      BY <1>3, <1>5
    <3>2. /\ Head(plan) = plan[1] /\ Tail(plan) \in Seq(Call)
          /\ Len(Tail(plan)) = Len(plan) - 1
          /\ \A i \in 1 .. Len(plan) - 1 : Tail(plan)[i] = plan[i + 1]
      BY <1>3, <3>1
    <3>. QED  BY <3>1, <3>2
  <2>2. /\ SubSeq(Path, n + 1, last) \in Seq(Call)
        /\ Len(SubSeq(Path, n + 1, last)) = last - n
        /\ \A i \in 1 .. last - n : SubSeq(Path, n + 1, last)[i] = Path[n + i]
    <3>1. /\ n + 1 \in 1 .. Len(Path) + 1 /\ last \in (n + 1) - 1 .. Len(Path)
          /\ last + 1 - (n + 1) = last - n /\ \A i \in 1 .. last - n : n + 1 + i - 1 = n + i
      BY <1>1, <1>2, <1>5
    <3>. QED  BY <1>2, <3>1, Piece
  <2>3. Tail(plan) = SubSeq(Path, n + 1, last)
    <3>1. \A i \in 1 .. last - n : plan[i + 1] = Path[n + i]
      BY <1>3
    <3>2. /\ Len(Tail(plan)) = Len(SubSeq(Path, n + 1, last))
          /\ \A i \in 1 .. Len(Tail(plan)) :
                Tail(plan)[i] = SubSeq(Path, n + 1, last)[i]
      BY <2>1, <2>2, <3>1
    <3>. QED  BY <2>1, <2>2, <3>2, SeqEqual
  <2>4. Head(plan) = Path[n]
    BY <1>3, <1>5, <2>1
  <2>5. Tail(plan) = <<>> <=> n = last
    <3>1. Tail(plan) \in Seq(Call) /\ Len(Tail(plan)) = last - n
      BY <2>1
    <3>2. Tail(plan) = <<>> => last - n = 0
      BY <3>1, EmptySeq
    <3>3. Tail(plan) # <<>> => last - n # 0
      BY <3>1, EmptySeq
    <3>. QED  BY <3>2, <3>3
  <2>6. ASSUME n < last PROVE Head(Tail(plan)) = Path[n + 1]
    BY <1>3, <2>1, <2>6
  <2>. QED  BY <2>3, <2>4, <2>5, <2>6
<1>. QED  BY <1>4, <1>5

\* Which of the calls are of a kind, and the replicas each reaches.
LEMMA CallNumber ==
    ASSUME NEW n \in 1 .. 19, NEW last \in 4 .. 18, Left(n, last),
           NEW op, Calling(op)
    PROVE  /\ n <= last /\ Path[n][1] = op /\ todo \subseteq Path[n][2]
           /\ n = 1 => op = "abort" /\ todo \subseteq Standalone
           /\ n \in 2 .. 3 => op \in {"drain", "transfer"}
           /\ n = 4 => op = "resume"
           /\ n = 5 => op \in {"wake", "validate"}
           /\ n \in 6 .. 7 => op = "abort"
           /\ n = 8 => op = "add"
           /\ n \in 9 .. 13 => op \in {"resume", "validate", "abort"}
           /\ n = 14 => op = "remove"
           /\ n = 15 => op = "drain"
           /\ n = 16 => op = "sleep"
           /\ n > 16 => op = "resume"
           /\ op = "transfer" => n = 3 /\ todo \subseteq Standalone
           /\ op = "wake" => n = 5 /\ todo \subseteq Hybrid
           /\ op = "add" => n = 8 /\ todo \subseteq Hybrid
           /\ op = "remove" => n = 14 /\ todo \subseteq Hybrid
           /\ op = "sleep" => n = 16 /\ todo \subseteq Hybrid
           /\ op = "validate" => todo = {}
<1>1. n <= last /\ Head(plan) = Path[n] /\ todo \subseteq Path[n][2]
  <2>1. plan # <<>> /\ n \in 1 .. last + 1
    BY DEF Left, Calling
  <2>2. /\ plan = <<>> <=> n = last + 1
        /\ n <= last => Head(plan) = Path[n]
    BY PlanStep
  <2>3. n <= last
    BY <2>1, <2>2
  <2>. QED  BY <2>2, <2>3 DEF Left
<1>2. Path[n][1] = op
  BY <1>1 DEF Calling
<1>3. n <= IF Hybrid = {} THEN 5 ELSE 18
  BY <1>1, PathCalls DEF Left
<1>. QED  BY <1>1, <1>2, <1>3, PathCalls

\* A step that leaves the plan where it is.
LEMMA SamePlan ==
    ASSUME NEW n \in 1 .. 19, NEW last \in 4 .. 18, Left(n, last),
           UNCHANGED plan, todo' \subseteq todo
    PROVE  Left(n, last)'
BY DEF Left

\* A step that goes on to the next call.
LEMMA NextPlan ==
    ASSUME NEW n \in 1 .. 19, NEW last \in 4 .. 18, Left(n, last),
           plan # <<>>, plan' = Tail(plan),
           todo' = IF Tail(plan) = <<>> THEN {} ELSE Head(Tail(plan))[2]
    PROVE  /\ n + 1 \in 1 .. 19 /\ n <= last /\ last \in {4, Len(Path)}
           /\ Left(n + 1, last)'
           /\ todo' = IF n + 1 <= last THEN Path[n + 1][2] ELSE {}
<1>0. n # last + 1
  BY PlanStep
<1>1. n <= last /\ last \in {4, Len(Path)}
  BY <1>0 DEF Left
<1>2. plan' = SubSeq(Path, n + 1, last)
  BY <1>1, PlanStep
<1>3. todo' = IF n + 1 <= last THEN Path[n + 1][2] ELSE {}
  <2>1. /\ Tail(plan) = <<>> <=> n = last
        /\ n < last => Head(Tail(plan)) = Path[n + 1]
    BY <1>1, PlanStep
  <2>2. CASE n = last
    BY <2>1, <2>2
  <2>3. CASE n < last
    BY <2>1, <2>3
  <2>. QED  BY <1>1, <2>2, <2>3
<1>4. n + 1 \in 1 .. 19 /\ n + 1 \in 1 .. last + 1
  BY <1>1
<1>5. Left(n + 1, last)'
  BY <1>1, <1>2, <1>3, <1>4 DEF Left
<1>. QED  BY <1>1, <1>3, <1>4, <1>5

-----------------------------------------------------------------------------
\* The plan and what holds at each of its calls.

\* A client never starts a call on a server that is quiet.
LEMMA QuietKept ==
    ASSUME TypeOK, NEW r \in Requests, Client(r), NEW s \in Servers, Quiet(s)
    PROVE  Quiet(s)'
<1> USE DEF Quiet, Quiescent, TypeOK
<1>1. CASE Acquire(r)
  <2>1. \A q \in Requests : q # r => at'[q] = at[q]
    BY <1>1 DEF Acquire, Sticky, Select
  <2>. QED  BY <1>1, <2>1 DEF Acquire, engineVars
<1>2. CASE Start(r)
  BY <1>2 DEF Start, engineVars
<1>3. CASE Block(r) \/ Complete(r) \/ Fail(r)
  BY <1>3 DEF Block, Complete, Fail, engineVars
<1>4. CASE Answer(r)
  <2>1. \A q \in Requests : client'[q] = "running" => client[q] = "running" /\ q # r
    BY <1>4 DEF Answer, Return
  <2>2. \A q \in Requests : q # r => at'[q] = at[q]
    BY <1>4 DEF Answer, Return
  <2>. QED  BY <1>4, <2>1, <2>2 DEF Answer, Return, engineVars
<1>. QED  BY <1>1, <1>2, <1>3, <1>4 DEF Client

LEMMA ClientFrame ==
    ASSUME NEW r \in Requests, Client(r)
    PROVE  UNCHANGED <<plan, todo, version, alive, replicas, paused, awake, weights>>
BY DEF Client, Acquire, Start, Block, Complete, Fail, Answer, Return, engineVars,
       trainerVars

\* Steps outside the plan.
LEMMA PlanFrame ==
    ASSUME TypeOK, PlanInv, UNCHANGED <<plan, todo, alive, awake>>,
           \A s \in Servers : Quiet(s) => Quiet(s)'
    PROVE  PlanInv'
<1>1. PICK n \in 1 .. 19, last \in 4 .. 18 :
          /\ Left(n, last) /\ GroupAt(n)
          /\ QuietAt(n) /\ AliveAt(n) /\ AwakeAt(n, last)
  BY DEF PlanInv
<1>2. Left(n, last)' /\ GroupAt(n)' /\ AliveAt(n)' /\ AwakeAt(n, last)'
  BY <1>1 DEF Left, GroupAt, AliveAt, AwakeAt
<1>3. QuietAt(n)'
  BY <1>1 DEF QuietAt, Servers
<1>. QED  BY <1>2, <1>3 DEF PlanInv

LEMMA OnReplicaPlan ==
    ASSUME IInv, NEW op, NEW s \in Servers, OnReplica(op, s),
           op \in {"abort", "drain", "resume", "sleep"},
           op = "abort" => Quiet(s)',
           \A t \in Servers : (Quiet(t) /\ (t # s \/ op # "resume")) => Quiet(t)',
           op # "sleep" => UNCHANGED awake
    PROVE  PlanInv'
<1>1. PICK n \in 1 .. 19, last \in 4 .. 18 :
          /\ Left(n, last) /\ GroupAt(n)
          /\ QuietAt(n) /\ AliveAt(n) /\ AwakeAt(n, last)
  BY DEF PlanInv, IInv
<1>2. Calling(op) /\ s \in todo /\ UNCHANGED <<plan, alive>> /\ todo' = todo \ {s}
  BY DEF OnReplica
<1>3. Left(n, last)'
  BY <1>1, <1>2, SamePlan
<1>4. /\ n = 1 => op = "abort" /\ todo \subseteq Standalone
      /\ n \in 2 .. 3 => op = "drain"
      /\ op = "sleep" => n = 16
      /\ n \notin {5, 8, 14}
  BY <1>1, <1>2, CallNumber
<1>5. QuietAt(n)'
  BY <1>1, <1>2, <1>4 DEF QuietAt, Servers
<1>6. AliveAt(n)'
  BY <1>1, <1>2, <1>4 DEF AliveAt
<1>7. AwakeAt(n, last)'
  <2>1. n \in 6 .. 15 \/ (n = 5 /\ last > 4 /\ todo' = {})
           => n \in 6 .. 15 /\ op # "sleep"
    BY <1>4
  <2>. QED  BY <1>1, <2>1 DEF AwakeAt, Servers
<1>8. GroupAt(n)'
  BY <1>4 DEF GroupAt
<1>. QED  BY <1>3, <1>5, <1>6, <1>7, <1>8 DEF PlanInv

LEMMA NextNumber ==
    ASSUME NEW n \in 1 .. 19
    PROVE  /\ n + 1 # 1 /\ (n + 1 \in {2, 3} => n \in {1, 2})
           /\ n + 1 \in 6 .. 15 => n = 5 \/ n \in 6 .. 15
           /\ n \in 8 .. 13 => n + 1 \in 9 .. 13 \/ n + 1 = 14
           /\ n \notin 8 .. 13 => n + 1 \notin 9 .. 13 /\ n + 1 # 14
OBVIOUS

LEMMA NextCallPlan ==
    ASSUME IInv, plan # <<>>, todo = {}, plan' = Tail(plan),
           todo' = IF Tail(plan) = <<>> THEN {} ELSE Head(Tail(plan))[2],
           UNCHANGED <<alive, awake>>, \A t \in Servers : Quiet(t) => Quiet(t)'
    PROVE  PlanInv'
<1>1. PICK n \in 1 .. 19, last \in 4 .. 18 :
          /\ Left(n, last) /\ GroupAt(n)
          /\ QuietAt(n) /\ AliveAt(n) /\ AwakeAt(n, last)
  BY DEF PlanInv, IInv
<1>2. /\ n + 1 \in 1 .. 19 /\ n <= last /\ last \in {4, Len(Path)}
      /\ Left(n + 1, last)'
      /\ todo' = IF n + 1 <= last THEN Path[n + 1][2] ELSE {}
  BY <1>1, NextPlan
<1>4. /\ n + 1 \in {8, 14} => todo' = Hybrid
      /\ n + 1 = 5 => todo' = Hybrid \/ (last = 4 /\ todo' = {})
      /\ n = 5 => last > 4
  <2>1. CASE Hybrid = {}
    <3>1. Len(Path) = 5 /\ Path[5][2] = {}
      BY <2>1, PathCalls
    <3>. QED  BY <1>1, <1>2, <2>1, <3>1
  <2>2. CASE Hybrid # {}
    <3>0. Len(Path) = 18 /\ Path[8][2] = Hybrid /\ Path[14][2] = Hybrid /\ Path[5][2] = Hybrid
      <4>1. /\ Len(Path) = 18 /\ Path[5] = <<"wake", Hybrid>>
            /\ Path[8] = <<"add", Hybrid>> /\ Path[14] = <<"remove", Hybrid>>
        BY <2>2, PathCalls
      <4>2. ASSUME NEW op, NEW g PROVE <<op, g>>[2] = g
        OBVIOUS
      <4>. QED  BY <4>1, <4>2
    <3>1. /\ last \in {4, 18} /\ n <= last
          /\ Path[8][2] = Hybrid /\ Path[14][2] = Hybrid /\ Path[5][2] = Hybrid
      BY <1>2, <3>0
    <3>2. n + 1 \in {8, 14} => n + 1 <= last /\ Path[n + 1][2] = Hybrid
      BY <1>1, <3>1
    <3>3. n + 1 = 5 => last = 4 \/ (n + 1 <= last /\ Path[n + 1][2] = Hybrid)
      BY <1>1, <3>1
    <3>4. n = 5 => last > 4
      BY <3>1
    <3>5. n + 1 <= last => todo' = Path[n + 1][2]
      BY <1>2
    <3>6. ~(n + 1 <= last) => todo' = {}
      BY <1>2
    <3>7. n + 1 \in {8, 14} => todo' = Hybrid
      BY <3>2, <3>5
    <3>8. n + 1 = 5 => todo' = Hybrid \/ (last = 4 /\ todo' = {})
      <4>1. n + 1 = 5 /\ last = 4 => ~(n + 1 <= last)
        OBVIOUS
      <4>. QED  BY <3>3, <3>5, <3>6, <4>1, Zenon
    <3>. QED  BY <3>4, <3>7, <3>8
  <2>. QED  BY <2>1, <2>2
<1>5. QuietAt(n + 1)'
  <2>1. n + 1 \in {2, 3} => \A s \in Standalone : Quiet(s)
    <3>1. n \in {1, 2} => \A s \in Standalone : Quiet(s)
      BY <1>1 DEF QuietAt
    <3>. QED  BY <3>1, NextNumber
  <2>2. n + 1 \in {2, 3} => \A s \in Standalone : Quiet(s)'
    BY <2>1 DEF Servers
  <2>3. n + 1 # 1
    BY NextNumber
  <2>. QED  BY <2>2, <2>3 DEF QuietAt
<1>6. AliveAt(n + 1)'
  <2>1. CASE n \in 8 .. 13
    <3>1. alive = Hybrid
      BY <1>1, <2>1 DEF AliveAt
    <3>2. n + 1 \in 9 .. 13 \/ (n + 1 = 14 /\ todo' = Hybrid)
      BY <1>4, <2>1, NextNumber
    <3>. QED  BY <3>1, <3>2 DEF AliveAt
  <2>2. CASE n \notin 8 .. 13
    <3>1. alive = {}
      BY <1>1, <2>2 DEF AliveAt
    <3>2. n + 1 \notin 9 .. 13 /\ n + 1 # 14 /\ (n + 1 = 8 => todo' = Hybrid)
      BY <1>4, <2>2, NextNumber
    <3>. QED  BY <3>1, <3>2 DEF AliveAt
  <2>. QED  BY <2>1, <2>2
<1>7. AwakeAt(n + 1, last)'
  <2>1. ASSUME n + 1 \in 6 .. 15 PROVE \A s \in Hybrid : awake[s]
    <3>1. n \in 6 .. 15 \/ (n = 5 /\ last > 4 /\ todo = {})
      BY <1>4, <2>1, NextNumber
    <3>. QED  BY <1>1, <3>1 DEF AwakeAt
  <2>2. n + 1 = 5 /\ last > 4 /\ todo' = {} => Hybrid = {}
    BY <1>4
  <2>. QED  BY <2>1, <2>2 DEF AwakeAt
<1>8. GroupAt(n + 1)'
  BY <1>4 DEF GroupAt
<1>. QED  BY <1>2, <1>5, <1>6, <1>7, <1>8 DEF PlanInv

LEMMA NewPlan ==
    ASSUME IInv, NewVersion
    PROVE  PlanInv'
<1>1. PICK n \in 1 .. 19, last \in 4 .. 18 :
          /\ Left(n, last) /\ GroupAt(n)
          /\ QuietAt(n) /\ AliveAt(n) /\ AwakeAt(n, last)
  BY DEF PlanInv, IInv
<1>2. n = last + 1 /\ n \in {5, 6, 19}
  <2>1. n = last + 1
    BY <1>1, PlanStep DEF NewVersion
  <2>2. last \in {4, 5, 18}
    BY <1>1, PathCalls DEF Left
  <2>. QED  BY <2>1, <2>2
<1>3. alive' = {}
  BY <1>1, <1>2 DEF AliveAt, NewVersion, trainerVars
<1>4. \E m \in 4 .. 18 : m \in {4, Len(Path)} /\ plan' = SubSeq(Path, 1, m)
  <2>1. Len(Path) \in {5, 18} /\ Path \in Seq(Call)
    BY PathCalls, PathSeq
  <2>2. Path = SubSeq(Path, 1, Len(Path))
    BY <2>1
  <2>3. Sync = SubSeq(Path, 1, 4)
    <3>1. Validate \in Seq(Call)
      <4>1. \A op \in {"abort", "drain", "resume", "wake", "add", "validate",
                       "remove", "sleep"} :
              \A g \in {Standalone, Hybrid, {}} : <<op, g>> \in Call
        BY DEF Call, Servers
      <4>. QED  BY <4>1 DEF Validate, TrainerSide
    <3>2. Sync \in Seq(Call) /\ Len(Sync) = 4
      BY DEF Sync, Call, Servers
    <3>3. /\ SubSeq(Path, 1, 4) \in Seq(Call) /\ Len(SubSeq(Path, 1, 4)) = 4
          /\ \A i \in 1 .. 4 : SubSeq(Path, 1, 4)[i] = Path[i]
      BY <2>1
    <3>4. \A i \in 1 .. 4 : Path[i] = Sync[i]
      <4>1. \A i \in 1 .. Len(Sync) + Len(Validate) :
              Path[i] = IF i <= Len(Sync) THEN Sync[i] ELSE Validate[i - Len(Sync)]
        BY <3>1, <3>2, ConcatProperties DEF Path
      <4>. QED  BY <3>1, <3>2, <4>1
    <3>. QED  BY <3>2, <3>3, <3>4, SeqEqual
  <2>4. plan' = Sync \/ plan' = Path
    BY DEF NewVersion, Path
  <2>5. 4 \in 4 .. 18 /\ Len(Path) \in 4 .. 18
    BY <2>1
  <2>. QED  BY <2>2, <2>3, <2>4, <2>5
<1>5. PICK m \in 4 .. 18 : m \in {4, Len(Path)} /\ plan' = SubSeq(Path, 1, m)
  BY <1>4
<1>6. todo' = Path[1][2] /\ Path[1][2] = Standalone
  <2>1. Head(plan') = Path[1]
    <3>1. Path \in Seq(Call) /\ Len(Path) \in {5, 18}
      BY PathSeq, PathCalls
    <3>. QED  BY <1>5, <3>1
  <2>. QED  BY <2>1, PathCalls DEF NewVersion
<1>7. Left(1, m)'
  BY <1>5, <1>6 DEF Left
<1>8. GroupAt(1)' /\ QuietAt(1)' /\ AliveAt(1)' /\ AwakeAt(1, m)'
  BY <1>3, <1>6 DEF GroupAt, QuietAt, AliveAt, AwakeAt
<1>. QED  BY <1>7, <1>8 DEF PlanInv

\* The collective calls.
LEMMA OnGroupPlan ==
    ASSUME IInv, NEW op \in {"transfer", "wake", "add", "remove"}, OnGroup(op),
           alive' = IF op = "add" THEN alive \cup todo
                    ELSE IF op = "remove" THEN alive \ todo ELSE alive,
           \A s \in Servers : awake[s] => awake'[s],
           op = "wake" => \A s \in todo : awake'[s]
    PROVE  PlanInv'
<1>1. PICK n \in 1 .. 19, last \in 4 .. 18 :
          /\ Left(n, last) /\ GroupAt(n)
          /\ QuietAt(n) /\ AliveAt(n) /\ AwakeAt(n, last)
  BY DEF PlanInv, IInv
<1>2. /\ Calling(op) /\ todo # {} /\ todo' = {} /\ UNCHANGED <<plan, client, at, paused>>
  BY DEF OnGroup, clientVars
<1>3. /\ op = "transfer" => n = 3
      /\ op = "wake" => n = 5 /\ todo = Hybrid
      /\ op = "add" => n = 8 /\ todo = Hybrid
      /\ op = "remove" => n = 14 /\ todo = Hybrid
  BY <1>1, <1>2, CallNumber DEF GroupAt
<1>4. Left(n, last)' /\ GroupAt(n)'
  BY <1>1, <1>2 DEF Left, GroupAt
<1>5. QuietAt(n)'
  BY <1>1, <1>2, <1>3 DEF QuietAt, Quiet, Quiescent
<1>6. AliveAt(n)'
  BY <1>1, <1>2, <1>3 DEF AliveAt
<1>7. AwakeAt(n, last)'
  BY <1>1, <1>2, <1>3 DEF AwakeAt, Servers
<1>. QED  BY <1>4, <1>5, <1>6, <1>7 DEF PlanInv

LEMMA PlanKept == ASSUME IInv, Next \/ UNCHANGED vars PROVE PlanInv'
<1> USE DEF IInv
<1>1. ASSUME NEW r \in Requests, Client(r) PROVE PlanInv'
  BY <1>1, ClientFrame, QuietKept, PlanFrame
<1>2. ASSUME NEW s \in Servers, Release(s) PROVE PlanInv'
  <2>1. UNCHANGED <<plan, todo, alive, awake, client, at, paused>>
    BY <1>2 DEF Release, Count, engineVars, trainerVars
  <2>. QED  BY <2>1, PlanFrame DEF Quiet, Quiescent
<1>3. ASSUME NEW s \in Servers, Abort(s) PROVE PlanInv'
  <2>1. /\ OnReplica("abort", s) /\ UNCHANGED <<at, awake>> /\ paused'[s]
        /\ \A t \in Servers : paused[t] => paused'[t]
        /\ \A r \in Requests : client'[r] = "running"
                                => client[r] = "running" /\ at[r] # s
    BY <1>3 DEF Abort, TypeOK
  <2>2. Quiet(s)' /\ \A t \in Servers : Quiet(t) => Quiet(t)'
    BY <2>1 DEF Quiet, Quiescent
  <2>. QED  BY <2>1, <2>2, OnReplicaPlan
<1>4. ASSUME NEW s \in Servers, Drain(s) PROVE PlanInv'
  <2>1. OnReplica("drain", s) /\ UNCHANGED <<client, at, paused, awake>>
    BY <1>4 DEF Drain, clientVars, engineVars
  <2>2. \A t \in Servers : Quiet(t) => Quiet(t)'
    BY <2>1 DEF Quiet, Quiescent
  <2>. QED  BY <2>1, <2>2, OnReplicaPlan
<1>5. ASSUME NEW s \in Servers, Resume(s) PROVE PlanInv'
  <2>1. /\ OnReplica("resume", s) /\ UNCHANGED <<client, at, awake>>
        /\ \A t \in Servers : t # s => paused'[t] = paused[t]
    BY <1>5 DEF Resume, clientVars, TypeOK
  <2>2. \A t \in Servers : Quiet(t) /\ t # s => Quiet(t)'
    BY <2>1 DEF Quiet, Quiescent
  <2>. QED  BY <2>1, <2>2, OnReplicaPlan
<1>6. ASSUME NEW s \in Servers, Sleep(s) PROVE PlanInv'
  <2>1. /\ OnReplica("sleep", s) /\ UNCHANGED <<client, at, paused>>
    BY <1>6 DEF Sleep, clientVars
  <2>2. \A t \in Servers : Quiet(t) => Quiet(t)'
    BY <2>1 DEF Quiet, Quiescent
  <2>. QED  BY <2>1, <2>2, OnReplicaPlan
<1>7. CASE Transfer
  <2>1. OnGroup("transfer") /\ UNCHANGED <<alive, awake>>
    BY <1>7 DEF Transfer
  <2>. QED  BY <2>1, OnGroupPlan
<1>8. CASE Wake
  <2>1. /\ OnGroup("wake") /\ UNCHANGED alive
        /\ \A s \in Servers : awake[s] \/ s \in todo => awake'[s]
    BY <1>8 DEF Wake
  <2>2. todo \subseteq Servers
    BY DEF TypeOK
  <2>. QED  BY <2>1, <2>2, OnGroupPlan
<1>9. CASE AddReplicas
  <2>1. OnGroup("add") /\ alive' = alive \cup todo /\ UNCHANGED awake
    BY <1>9 DEF AddReplicas
  <2>. QED  BY <2>1, OnGroupPlan
<1>10. CASE RemoveReplicas
  <2>1. OnGroup("remove") /\ alive' = alive \ todo /\ UNCHANGED awake
    BY <1>10 DEF RemoveReplicas
  <2>. QED  BY <2>1, OnGroupPlan
<1>11. CASE ValidationEnds
  <2>1. /\ Calling("validate") /\ plan # <<>> /\ plan' = Tail(plan)
        /\ todo' = IF Tail(plan) = <<>> THEN {} ELSE Head(Tail(plan))[2]
        /\ UNCHANGED <<alive, awake, at, paused>>
        /\ \A r \in Requests : client'[r] = "running" => client[r] = "running"
    BY <1>11 DEF ValidationEnds, Validating, Calling, engineVars
  <2>2. todo = {}
    BY <2>1, CallNumber DEF PlanInv
  <2>3. \A t \in Servers : Quiet(t) => Quiet(t)'
    BY <2>1 DEF Quiet, Quiescent
  <2>. QED  BY <2>1, <2>2, <2>3, NextCallPlan
<1>12. CASE NextCall
  <2>1. /\ plan # <<>> /\ plan' = Tail(plan) /\ todo = {}
        /\ todo' = IF Tail(plan) = <<>> THEN {} ELSE Head(Tail(plan))[2]
        /\ UNCHANGED <<alive, awake, client, at, paused>>
    BY <1>12 DEF NextCall, engineVars, clientVars
  <2>2. \A t \in Servers : Quiet(t) => Quiet(t)'
    BY <2>1 DEF Quiet, Quiescent
  <2>. QED  BY <2>1, <2>2, NextCallPlan
<1>13. CASE NewVersion
  BY <1>13, NewPlan
<1>14. CASE UNCHANGED vars
  <2>1. UNCHANGED <<plan, todo, alive, awake, client, at, paused>>
    BY <1>14 DEF vars, clientVars, engineVars, trainerVars
  <2>. QED  BY <2>1, PlanFrame DEF Quiet, Quiescent
<1>. QED
  BY <1>1, <1>2, <1>3, <1>4, <1>5, <1>6, <1>7, <1>8, <1>9, <1>10, <1>11,
     <1>12, <1>13, <1>14 DEF Next, Trainer, Stop

\* Only hybrid servers join and leave the pool, or go to sleep.
LEMMA PoolKept == ASSUME IInv, Next \/ UNCHANGED vars PROVE PoolInv'
<1> USE Assumption DEF IInv, PoolInv, Pool
<1>1. ASSUME NEW r \in Requests, Client(r) PROVE PoolInv'
  <2>1. DOMAIN inflight' = DOMAIN inflight
    BY <1>1 DEF Client, Acquire, Start, Block, Complete, Fail, Answer, Return,
       balancerVars
  <2>. QED  BY <1>1, <2>1, ClientFrame
<1>2. ASSUME NEW s \in Servers, Release(s) PROVE PoolInv'
  <2>1. DOMAIN inflight' = DOMAIN inflight
    BY <1>2 DEF Release, Count
  <2>. QED  BY <1>2, <2>1 DEF Release, Count, engineVars, trainerVars
<1>3. ASSUME NEW s \in Servers, Abort(s) \/ Drain(s) \/ Resume(s) PROVE PoolInv'
  BY <1>3 DEF Abort, Drain, Resume, OnReplica, balancerVars, engineVars
<1>4. ASSUME NEW s \in Servers, Sleep(s) PROVE PoolInv'
  <2>1. s \in Hybrid
    BY <1>4, CallNumber DEF Sleep, OnReplica, PlanInv
  <2>2. \A t \in Servers : t # s => awake'[t] = awake[t]
    BY <1>4 DEF Sleep, TypeOK
  <2>3. UNCHANGED <<inflight, alive>>
    BY <1>4 DEF Sleep, OnReplica, balancerVars
  <2>. QED  BY <2>1, <2>2, <2>3, Assumption DEF Assumption, Servers
<1>5. CASE Transfer
  BY <1>5 DEF Transfer
<1>6. CASE Wake
  BY <1>6 DEF Wake, Servers
<1>7. CASE AddReplicas
  BY <1>7 DEF AddReplicas
<1>8. CASE RemoveReplicas
  <2>1. DOMAIN inflight' = Pool \ (todo \cap alive) /\ alive' = alive \ todo
        /\ UNCHANGED awake
    BY <1>8 DEF RemoveReplicas
  <2>. QED  BY <2>1, Assumption DEF Assumption, TypeOK
<1>9. CASE ValidationEnds \/ NextCall \/ NewVersion \/ UNCHANGED vars
  BY <1>9 DEF ValidationEnds, NextCall, NewVersion, vars, balancerVars,
     engineVars, trainerVars
<1>. QED
  BY <1>1, <1>2, <1>3, <1>4, <1>5, <1>6, <1>7, <1>8, <1>9
     DEF Next, Trainer, Stop

-----------------------------------------------------------------------------
\* Types.

\* Taking a conversation out of the session cache.
LEMMA ForgetLength ==
    ASSUME TypeOK, NEW r \in Requests
    PROVE  /\ Forget(r) \in Seq(Requests) /\ Len(Forget(r)) <= Len(recent)
           /\ Cached(r) => Len(Forget(r)) = Len(recent) - 1
<1>1. recent \in Seq(Requests)
  BY DEF TypeOK
<1>2. CASE Cached(r)
  <2>. DEFINE k == CHOOSE i \in DOMAIN recent : recent[i] = r
  <2>1. k \in 1 .. Len(recent)
    BY <1>1, <1>2 DEF Cached
  <2>. HIDE DEF k
  <2>2. /\ SubSeq(recent, 1, k - 1) \in Seq(Requests)
        /\ Len(SubSeq(recent, 1, k - 1)) = k - 1
    BY <1>1, <2>1
  <2>3. /\ SubSeq(recent, k + 1, Len(recent)) \in Seq(Requests)
        /\ Len(SubSeq(recent, k + 1, Len(recent))) = Len(recent) - k
    BY <1>1, <2>1
  <2>4. Forget(r) = SubSeq(recent, 1, k - 1) \o SubSeq(recent, k + 1, Len(recent))
    BY <1>2 DEF Forget, k
  <2>5. /\ Forget(r) \in Seq(Requests)
        /\ Len(Forget(r)) = (k - 1) + (Len(recent) - k)
    BY <2>2, <2>3, <2>4, ConcatProperties
  <2>. QED  BY <1>1, <2>1, <2>5
<1>3. CASE ~Cached(r)
  BY <1>1, <1>3 DEF Forget
<1>. QED  BY <1>2, <1>3

\* The session cache never outgrows its size.
LEMMA CacheKept ==
    ASSUME TypeOK, NEW r \in Requests, Sticky(r) \/ Select(r)
    PROVE  recent' \in Seq(Requests) /\ Len(recent') <= CacheSize
<1> DEFINE f == Forget(r)
<1>1. /\ f \in Seq(Requests) /\ Len(f) <= Len(recent) /\ Len(recent) <= CacheSize
      /\ Cached(r) => Len(f) = Len(recent) - 1
      /\ Len(recent) \in Nat /\ CacheSize \in Nat \ {0}
  BY ForgetLength, Assumption DEF Assumption, TypeOK
<1> HIDE DEF f
<1>2. CASE Sticky(r)
  <2>1. recent' = Append(f, r) /\ Cached(r)
    BY <1>2 DEF Sticky, StickyServer, f
  <2>. QED  BY <1>1, <2>1
<1>3. CASE Select(r)
  <2>1. recent' = Append(IF Len(f) >= CacheSize THEN Tail(f) ELSE f, r)
    BY <1>3 DEF Select, f
  <2>2. CASE Len(f) >= CacheSize
    <3>1. f # <<>>
      BY <1>1, <2>2
    <3>2. Tail(f) \in Seq(Requests) /\ Len(Tail(f)) = Len(f) - 1
      BY <1>1, <3>1
    <3>. QED  BY <1>1, <2>1, <2>2, <3>2
  <2>3. CASE Len(f) < CacheSize
    BY <1>1, <2>1, <2>3
  <2>. QED  BY <1>1, <2>2, <2>3
<1>. QED  BY <1>2, <1>3

\* A call is granted a server of the pool.
LEMMA Granted ==
    ASSUME TypeOK, NEW r \in Requests, Acquire(r)
    PROVE  \E s \in Pool : /\ at[r] = None /\ at' = [at EXCEPT ![r] = s]
                         /\ inflight' = [inflight EXCEPT ![s] = @ + 1]
                         /\ route' \in [Requests -> Servers \cup {None}]
<1>1. at[r] = None
  BY Assumption DEF Assumption, Acquire, TypeOK, Busy
<1>2. \E s \in Pool : /\ at' = [at EXCEPT ![r] = s]
                    /\ route' \in [Requests -> Servers \cup {None}]
  <2>1. CASE Sticky(r)
    BY <2>1 DEF Sticky, StickyServer, TypeOK
  <2>2. CASE Select(r)
    <3>1. PICK s \in LeastLoaded : /\ at' = [at EXCEPT ![r] = s]
                                 /\ route' = [route EXCEPT ![r] = s]
      BY <2>2 DEF Select
    <3>2. s \in Pool /\ s \in Servers
      BY <3>1 DEF LeastLoaded, TypeOK, Pool
    <3>. QED  BY <3>1, <3>2 DEF TypeOK
  <2>. QED  BY <2>1, <2>2 DEF Acquire
<1>3. PICK s \in Pool : /\ at' = [at EXCEPT ![r] = s]
                     /\ route' \in [Requests -> Servers \cup {None}]
  BY <1>2
<1>4. at'[r] = s
  BY <1>3 DEF TypeOK
<1>. QED  BY <1>1, <1>3, <1>4 DEF Acquire

\* What the types say of the balancer, the clients, the engines and the trainer.
BalancerType ==
    /\ DOMAIN inflight \subseteq Servers /\ Standalone \subseteq DOMAIN inflight
    /\ \A s \in Pool : inflight[s] \in Nat
    /\ recent \in Seq(Requests) /\ Len(recent) <= CacheSize
    /\ route \in [Requests -> Servers \cup {None}]
ClientType ==
    /\ client \in [Requests -> Busy \cup {"idle", "backoff", "done"}]
    /\ at \in [Requests -> Servers \cup {None}]
    /\ \A r \in Requests : client[r] \in Busy <=> at[r] # None
    /\ turn \in [Requests -> 0 .. Turns] /\ began \in [Requests -> Nat]
    /\ releasing \in [Servers -> Nat]
    /\ TurnsLeft
EngineType ==
    /\ paused \in [Servers -> BOOLEAN] /\ awake \in [Servers -> BOOLEAN]
    /\ weights \in [Servers -> Nat]
TrainerType ==
    /\ todo \subseteq Servers /\ version \in Nat
    /\ alive \subseteq Hybrid /\ replicas \subseteq Servers

LEMMA TypeParts ==
    TypeOK /\ TurnsLeft <=> BalancerType /\ ClientType /\ EngineType /\ TrainerType
BY DEF TypeOK, BalancerType, ClientType, EngineType, TrainerType

LEMMA BalancerTypeKept == ASSUME IInv, Next \/ UNCHANGED vars PROVE BalancerType'
<1> USE Assumption DEF IInv, TypeOK, BalancerType, Pool
<1>1. ASSUME NEW r \in Requests, Client(r) PROVE BalancerType'
  <2>1. CASE Acquire(r)
    <3>1. recent' \in Seq(Requests) /\ Len(recent') <= CacheSize
      BY <2>1, CacheKept DEF Acquire
    <3>2. PICK s \in Pool : /\ inflight' = [inflight EXCEPT ![s] = @ + 1]
                         /\ route' \in [Requests -> Servers \cup {None}]
      BY <2>1, Granted
    <3>. QED  BY <3>1, <3>2
  <2>2. CASE ~Acquire(r)
    BY <1>1, <2>2 DEF Client, Start, Block, Complete, Fail, Answer, Return,
       balancerVars
  <2>. QED  BY <2>1, <2>2
<1>2. ASSUME NEW s \in Servers, Release(s) PROVE BalancerType'
  <2>1. /\ UNCHANGED <<recent, route>>
        /\ inflight' = inflight \/
             /\ s \in DOMAIN inflight /\ inflight[s] > 0
             /\ inflight' = [inflight EXCEPT ![s] = @ - 1]
    BY <1>2 DEF Release, Count
  <2>. QED  BY <2>1
<1>3. CASE AddReplicas
  BY <1>3 DEF AddReplicas, OnGroup
<1>4. CASE RemoveReplicas
  <2>1. /\ UNCHANGED <<recent, route>>
        /\ inflight' = [t \in Pool \ (todo \cap alive) |-> inflight[t]]
    BY <1>4 DEF RemoveReplicas, OnGroup
  <2>2. Standalone \cap alive = {}
    BY DEF Assumption
  <2>. QED  BY <2>1, <2>2
<1>5. ASSUME UNCHANGED balancerVars PROVE BalancerType'
  BY <1>5 DEF balancerVars
<1>6. (\E s \in Servers : Abort(s) \/ Drain(s) \/ Resume(s) \/ Sleep(s)) \/ Transfer
      \/ Wake \/ ValidationEnds \/ NextCall \/ NewVersion \/ UNCHANGED vars
        => UNCHANGED balancerVars
  BY DEF Abort, Drain, Resume, Sleep, Transfer, Wake, OnGroup, ValidationEnds,
     NextCall, NewVersion, vars, balancerVars
<1>. QED
  BY <1>1, <1>2, <1>3, <1>4, <1>5, <1>6 DEF Next, Trainer, Stop

LEMMA ClientTypeKept == ASSUME IInv, Next \/ UNCHANGED vars PROVE ClientType'
<1> USE Assumption DEF IInv, TypeOK, ClientType, TurnsLeft
<1>1. ASSUME NEW r \in Requests, Acquire(r) PROVE ClientType'
  <2>1. PICK s \in Pool : at' = [at EXCEPT ![r] = s]
    BY <1>1, Granted
  <2>2. s \in Servers /\ s # None
    BY DEF Pool, Assumption, Servers
  <2>. QED  BY <1>1, <2>1, <2>2 DEF Acquire, Busy
<1>2. ASSUME NEW r \in Requests, Start(r) PROVE ClientType'
  <2>1. at[r] \in Servers
    BY <1>2 DEF Start, Busy
  <2>. QED  BY <1>2, <2>1 DEF Start, Busy
<1>3. ASSUME NEW r \in Requests, Block(r) \/ Complete(r) \/ Fail(r)
      PROVE  ClientType'
  BY <1>3 DEF Block, Complete, Fail, Busy
<1>4. ASSUME NEW r \in Requests, Answer(r) PROVE ClientType'
  <2>1. at[r] \in Servers
    BY <1>4 DEF Answer, Return, Busy
  <2>2. releasing' \in [Servers -> Nat] /\ began' \in [Requests -> Nat]
        /\ at' \in [Requests -> Servers \cup {None}]
    BY <1>4, <2>1 DEF Answer, Return
  <2>3. turn[r] < Turns /\ turn[r] \in Nat /\ Turns \in Nat
    BY <1>4 DEF Answer, Return, Assumption
  <2>4. /\ client' \in [Requests -> Busy \cup {"idle", "backoff", "done"}]
        /\ turn' \in [Requests -> 0 .. Turns]
        /\ client'[r] \in {"idle", "backoff", "done"}
        /\ client'[r] # "done" => turn'[r] < Turns
        /\ \A q \in Requests : q # r => client'[q] = client[q] /\ turn'[q] = turn[q]
    <3>1. \/ /\ client' = [client EXCEPT ![r] = "backoff"]
             /\ client[r] = "aborted" /\ UNCHANGED turn
          \/ /\ turn' = [turn EXCEPT ![r] = @ + 1]
             /\ client' = [client EXCEPT ![r] =
                             IF turn[r] + 1 = Turns THEN "done" ELSE "idle"]
          \/ /\ client' = [client EXCEPT ![r] = "done"]
             /\ UNCHANGED turn
      BY <1>4 DEF Answer, Return
    <3>2. CASE /\ client' = [client EXCEPT ![r] = "backoff"]
               /\ client[r] = "aborted" /\ UNCHANGED turn
      BY <2>3, <3>2
    <3>3. CASE /\ turn' = [turn EXCEPT ![r] = @ + 1]
               /\ client' = [client EXCEPT ![r] =
                               IF turn[r] + 1 = Turns THEN "done" ELSE "idle"]
      BY <2>3, <3>3
    <3>4. CASE /\ client' = [client EXCEPT ![r] = "done"]
               /\ UNCHANGED turn
      BY <2>3, <3>4
    <3>. QED  BY <3>1, <3>2, <3>3, <3>4
  <2>5. \A q \in Requests : at'[q] = IF q = r THEN None ELSE at[q]
    BY <1>4 DEF Answer, Return
  <2>. QED  BY <2>2, <2>4, <2>5 DEF Busy
<1>5. ASSUME NEW s \in Servers, Release(s) PROVE ClientType'
  BY <1>5 DEF Release, Count
<1>6. ASSUME NEW s \in Servers, Abort(s) PROVE ClientType'
  BY <1>6 DEF Abort, Busy
<1>7. CASE ValidationEnds
  BY <1>7 DEF ValidationEnds, Busy, Assumption
<1>8. ASSUME UNCHANGED clientVars PROVE ClientType'
  BY <1>8 DEF clientVars
<1>9. (\E s \in Servers : Drain(s) \/ Resume(s) \/ Sleep(s)) \/ Transfer
      \/ Wake \/ AddReplicas \/ RemoveReplicas \/ NextCall \/ NewVersion
      \/ UNCHANGED vars => UNCHANGED clientVars
  BY DEF Drain, Resume, Sleep, Transfer, Wake, AddReplicas, RemoveReplicas,
     OnGroup, NextCall, NewVersion, vars, clientVars
<1>. QED
  BY <1>1, <1>2, <1>3, <1>4, <1>5, <1>6, <1>7, <1>8, <1>9
     DEF Next, Client, Trainer, Stop

LEMMA EngineTypeKept == ASSUME IInv, Next \/ UNCHANGED vars PROVE EngineType'
<1> USE DEF IInv, TypeOK, EngineType
<1>1. ASSUME NEW r \in Requests, Client(r) PROVE EngineType'
  BY <1>1, ClientFrame
<1>2. ASSUME NEW s \in Servers, Abort(s) \/ Resume(s) \/ Sleep(s) PROVE EngineType'
  BY <1>2 DEF Abort, Resume, Sleep
<1>3. CASE Transfer \/ Wake
  BY <1>3 DEF Transfer, Wake, Publish, OnGroup
<1>4. ASSUME UNCHANGED engineVars PROVE EngineType'
  BY <1>4 DEF engineVars
<1>5. (\E s \in Servers : Release(s) \/ Drain(s)) \/ AddReplicas \/ RemoveReplicas
      \/ ValidationEnds \/ NextCall \/ NewVersion \/ UNCHANGED vars
        => UNCHANGED engineVars
  BY DEF Release, Count, Drain, AddReplicas, RemoveReplicas, OnGroup,
     ValidationEnds, NextCall, NewVersion, vars, engineVars
<1>. QED
  BY <1>1, <1>2, <1>3, <1>4, <1>5 DEF Next, Trainer, Stop

LEMMA TrainerTypeKept ==
    ASSUME IInv, PlanInv', Next \/ UNCHANGED vars PROVE TrainerType'
<1>1. todo' \subseteq Servers
  <2>1. PICK n \in 1 .. 19, last \in 4 .. 18 : Left(n, last)'
    BY DEF PlanInv
  <2>2. CASE n <= last
    <3>1. n \in 1 .. Len(Path) /\ todo' \subseteq Path[n][2]
      BY <2>1, <2>2, PathCalls DEF Left
    <3>2. Path[n] \in Call
      BY <3>1, PathSeq, ElementOfSeq
    <3>. QED  BY <3>1, <3>2 DEF Call
  <2>3. CASE ~(n <= last)
    BY <2>1, <2>3 DEF Left
  <2>. QED  BY <2>2, <2>3
<1>2. version' \in Nat /\ alive' \subseteq Hybrid /\ replicas' \subseteq Servers
  <2>. USE DEF IInv, TypeOK
  <2>1. ASSUME NEW r \in Requests, Client(r)
        PROVE  UNCHANGED <<version, alive, replicas>>
    BY <2>1, ClientFrame
  <2>2. ASSUME NEW s \in Servers, Release(s) \/ Abort(s) \/ Drain(s) \/ Resume(s) \/ Sleep(s)
        PROVE  UNCHANGED <<version, alive, replicas>>
    BY <2>2 DEF Release, Count, Abort, Drain, Resume, Sleep, OnReplica, trainerVars
  <2>3. Transfer \/ Wake \/ ValidationEnds \/ NextCall \/ UNCHANGED vars
          => UNCHANGED <<version, alive, replicas>>
    BY DEF Transfer, Wake, OnGroup, ValidationEnds, NextCall, vars, trainerVars
  <2>4. CASE AddReplicas
    <3>1. todo \subseteq Hybrid
      BY <2>4, CallNumber DEF AddReplicas, OnGroup, PlanInv
    <3>. QED  BY <2>4, <3>1 DEF AddReplicas, OnGroup
  <2>5. CASE RemoveReplicas
    BY <2>5 DEF RemoveReplicas, OnGroup
  <2>6. CASE NewVersion
    BY <2>6 DEF NewVersion
  <2>. QED  BY <2>1, <2>2, <2>3, <2>4, <2>5, <2>6 DEF Next, Trainer, Stop
<1>. QED  BY <1>1, <1>2 DEF TrainerType

-----------------------------------------------------------------------------
\* The count of the balancer against the calls that are open.

\* How the calls open on a server change when one conversation moves.
LEMMA HoldersChange ==
    ASSUME TypeOK, FewHolders, NEW r \in Requests, NEW x \in Servers \cup {None},
           at' = [at EXCEPT ![r] = x], NEW s \in Servers
    PROVE  /\ IsFiniteSet(Holders(s)')
           /\ Cardinality(Holders(s)) \in Nat
           /\ Cardinality(Holders(s)') =
                 Cardinality(Holders(s)) + (IF x = s THEN 1 ELSE 0)
                                         - (IF at[r] = s THEN 1 ELSE 0)
<1>1. \A q \in Requests : at'[q] = IF q = r THEN x ELSE at[q]
  BY DEF TypeOK
<1>2. IsFiniteSet(Holders(s)) /\ IsFiniteSet(Holders(s) \ {r})
      /\ Cardinality(Holders(s)) \in Nat
  BY FS_RemoveElement, FS_CardinalityType DEF FewHolders
<1>3. Cardinality(Holders(s) \ {r}) =
        Cardinality(Holders(s)) - (IF at[r] = s THEN 1 ELSE 0)
  BY <1>2, FS_RemoveElement DEF Holders
<1>4. CASE x = s
  <2>1. Holders(s)' = (Holders(s) \ {r}) \cup {r}
    BY <1>1, <1>4 DEF Holders
  <2>. QED  BY <1>2, <1>3, <1>4, <2>1, FS_AddElement
<1>5. CASE x # s
  <2>1. Holders(s)' = Holders(s) \ {r}
    BY <1>1, <1>5 DEF Holders
  <2>. QED  BY <1>2, <1>3, <1>5, <2>1
<1>. QED  BY <1>4, <1>5

LEMMA LoadKept ==
    ASSUME IInv, Next \/ UNCHANGED vars PROVE FewHolders' /\ NoInventedLoad'
<1> USE DEF IInv
<1>0. \A s \in Servers : /\ Cardinality(Holders(s)) \in Nat /\ releasing[s] \in Nat
  BY FS_CardinalityType DEF FewHolders, TypeOK
<1>o. \A s \in Servers : /\ Open(s) = Cardinality(Holders(s)) + releasing[s]
                       /\ Open(s)' = Cardinality(Holders(s)') + releasing'[s]
  BY DEF Open, Holders
<1>p. \A s \in Servers : Open(s) \in Nat /\ Open(s) >= releasing[s]
  BY <1>0, <1>o
<1>1. ASSUME NEW r \in Requests, Acquire(r) PROVE FewHolders' /\ NoInventedLoad'
  <2>1. PICK s \in Pool : /\ at[r] = None /\ at' = [at EXCEPT ![r] = s]
                       /\ inflight' = [inflight EXCEPT ![s] = @ + 1]
    BY <1>1, Granted
  <2>2. s \in Servers /\ s # None /\ None \notin Servers
    BY Assumption DEF Assumption, Pool, TypeOK, Servers
  <2>3. \A t \in Servers : /\ IsFiniteSet(Holders(t)')
                         /\ Cardinality(Holders(t)') =
                               Cardinality(Holders(t)) + (IF s = t THEN 1 ELSE 0)
    <3>. TAKE t \in Servers
    <3>1. /\ IsFiniteSet(Holders(t)')
          /\ Cardinality(Holders(t)') =
               Cardinality(Holders(t)) + (IF s = t THEN 1 ELSE 0)
                                       - (IF at[r] = t THEN 1 ELSE 0)
      BY <2>1, <2>2, HoldersChange
    <3>2. at[r] # t
      BY <2>1, <2>2
    <3>. QED  BY <1>0, <3>1, <3>2
  <2>4. FewHolders'
    BY <2>3 DEF FewHolders
  <2>5. UNCHANGED releasing
    BY <1>1 DEF Acquire
  <2>6. \A t \in Servers : Open(t)' = Open(t) + (IF s = t THEN 1 ELSE 0)
    BY <1>0, <1>o, <2>3, <2>5
  <2>7. \A t \in Pool' : t \in Pool /\ t \in Servers
                        /\ inflight'[t] = inflight[t] + (IF s = t THEN 1 ELSE 0)
                        /\ inflight[t] \in Nat /\ Open(t) \in Nat
    BY <1>p, <2>1 DEF Pool, TypeOK
  <2>8. NoInventedLoad'
    BY <2>6, <2>7 DEF NoInventedLoad
  <2>. QED  BY <2>4, <2>8
<1>2. ASSUME NEW r \in Requests, Answer(r) PROVE FewHolders' /\ NoInventedLoad'
  <2>1. at[r] \in Servers /\ None \notin Servers
    BY <1>2, Assumption DEF Assumption, Answer, Return, TypeOK, Busy, Servers
  <2>2. /\ at' = [at EXCEPT ![r] = None] /\ UNCHANGED inflight
        /\ releasing' = [releasing EXCEPT ![at[r]] = @ + 1]
    BY <1>2 DEF Answer, Return, balancerVars
  <2>3. \A t \in Servers : /\ IsFiniteSet(Holders(t)')
                         /\ Cardinality(Holders(t)') =
                               Cardinality(Holders(t)) - (IF at[r] = t THEN 1 ELSE 0)
    <3>. TAKE t \in Servers
    <3>1. /\ IsFiniteSet(Holders(t)')
          /\ Cardinality(Holders(t)') =
               Cardinality(Holders(t)) + (IF None = t THEN 1 ELSE 0)
                                       - (IF at[r] = t THEN 1 ELSE 0)
      BY <2>1, <2>2, HoldersChange
    <3>2. None # t
      BY <2>1
    <3>. QED  BY <1>0, <3>1, <3>2
  <2>4. FewHolders'
    BY <2>3 DEF FewHolders
  <2>5. \A t \in Servers : Open(t)' = Open(t)
    <3>1. \A t \in Servers : releasing'[t] = releasing[t] + (IF at[r] = t THEN 1 ELSE 0)
      BY <2>1, <2>2 DEF TypeOK
    <3>. QED  BY <1>0, <1>o, <2>3, <3>1
  <2>6. NoInventedLoad'
    BY <2>2, <2>5 DEF NoInventedLoad, Pool, TypeOK
  <2>. QED  BY <2>4, <2>6
<1>3. ASSUME NEW s \in Servers, Release(s) PROVE FewHolders' /\ NoInventedLoad'
  <2>1. /\ UNCHANGED at /\ releasing[s] > 0
        /\ releasing' = [releasing EXCEPT ![s] = @ - 1]
        /\ inflight' = IF s \in Pool /\ inflight[s] > 0
                          THEN [inflight EXCEPT ![s] = @ - 1] ELSE inflight
    BY <1>3 DEF Release, Count
  <2>2. FewHolders' /\ \A t \in Servers : Holders(t)' = Holders(t)
    BY <2>1 DEF FewHolders, Holders
  <2>3. \A t \in Servers : Open(t)' = Open(t) - (IF t = s THEN 1 ELSE 0)
    <3>1. \A t \in Servers : releasing'[t] = releasing[t] - (IF t = s THEN 1 ELSE 0)
      BY <2>1 DEF TypeOK
    <3>. QED  BY <1>0, <1>o, <2>2, <3>1
  <2>4. \A t \in Pool' : t \in Pool /\ t \in Servers /\ inflight[t] \in Nat
          /\ inflight'[t] = inflight[t] - (IF t = s /\ inflight[s] > 0 THEN 1 ELSE 0)
    BY <2>1 DEF Pool, TypeOK
  <2>5. \A t \in Pool' : inflight'[t] <= Open(t)'
    <3>. SUFFICES ASSUME NEW t \in Pool' PROVE inflight'[t] <= Open(t)'
      OBVIOUS
    <3>1. inflight[t] <= Open(t) /\ Open(t) \in Nat
      BY <1>p, <2>4 DEF NoInventedLoad
    <3>2. t = s => Open(t) > 0
      BY <1>0, <1>p, <2>1, <2>4
    <3>. QED  BY <2>3, <2>4, <3>1, <3>2
  <2>. QED  BY <2>2, <2>5 DEF NoInventedLoad
<1>4. CASE AddReplicas
  <2>1. /\ UNCHANGED <<at, releasing>>
        /\ inflight' = [t \in Pool \cup (todo \ alive) |->
                          IF t \in todo \ alive THEN 0 ELSE inflight[t]]
    BY <1>4 DEF AddReplicas, OnGroup, clientVars
  <2>2. FewHolders' /\ \A t \in Servers : Open(t)' = Open(t)
    BY <2>1 DEF FewHolders, Holders, Open
  <2>3. \A t \in Pool' :
          /\ t \in Servers
          /\ inflight'[t] = IF t \in todo \ alive THEN 0 ELSE inflight[t]
          /\ (t \in todo \ alive \/ t \in Pool)
    <3>1. todo \subseteq Servers /\ Pool \subseteq Servers
      BY DEF Pool, TypeOK
    <3>2. Pool' = Pool \cup (todo \ alive)
      BY <2>1 DEF Pool
    <3>. SUFFICES ASSUME NEW t \in Pool \cup (todo \ alive)
                  PROVE  /\ t \in Servers
                         /\ inflight'[t] = IF t \in todo \ alive THEN 0 ELSE inflight[t]
                         /\ (t \in todo \ alive \/ t \in Pool)
      BY <3>2
    <3>. QED  BY <2>1, <3>1
  <2>4. NoInventedLoad'
    <3>. SUFFICES ASSUME NEW t \in Pool' PROVE inflight'[t] <= Open(t)'
      BY DEF NoInventedLoad
    <3>1. Open(t)' = Open(t) /\ Open(t) \in Nat
      BY <1>p, <2>2, <2>3
    <3>2. CASE t \in todo \ alive
      BY <2>3, <3>1, <3>2
    <3>3. CASE t \notin todo \ alive
      BY <2>3, <3>1, <3>3 DEF NoInventedLoad
    <3>. QED  BY <3>2, <3>3
  <2>. QED  BY <2>2, <2>4
<1>5. CASE RemoveReplicas
  <2>1. /\ UNCHANGED <<at, releasing>>
        /\ inflight' = [t \in Pool \ (todo \cap alive) |-> inflight[t]]
    BY <1>5 DEF RemoveReplicas, OnGroup, clientVars
  <2>. QED  BY <2>1 DEF FewHolders, Holders, NoInventedLoad, Open, Pool
<1>6. ASSUME UNCHANGED <<inflight, at, releasing>> PROVE FewHolders' /\ NoInventedLoad'
  BY <1>6 DEF FewHolders, Holders, NoInventedLoad, Open, Pool
<1>7. ASSUME NEW r \in Requests, Start(r) \/ Block(r) \/ Complete(r) \/ Fail(r)
      PROVE  UNCHANGED <<inflight, at, releasing>>
  BY <1>7 DEF Start, Block, Complete, Fail, balancerVars
<1>8. ASSUME NEW s \in Servers, Abort(s) \/ Drain(s) \/ Resume(s) \/ Sleep(s)
      PROVE  UNCHANGED <<inflight, at, releasing>>
  BY <1>8 DEF Abort, Drain, Resume, Sleep, balancerVars, clientVars
<1>9. Transfer \/ Wake \/ ValidationEnds \/ NextCall \/ NewVersion \/ UNCHANGED vars
        => UNCHANGED <<inflight, at, releasing>>
  BY DEF Transfer, Wake, OnGroup, ValidationEnds, NextCall, NewVersion,
     vars, balancerVars, clientVars
<1>. QED
  BY <1>1, <1>2, <1>3, <1>4, <1>5, <1>6, <1>7, <1>8, <1>9
     DEF Next, Client, Trainer, Stop

-----------------------------------------------------------------------------
\* The weights under a generation.

LEMMA VersionKept == ASSUME IInv, Next \/ UNCHANGED vars PROVE OneVersion'
<1> USE DEF IInv, OneVersion
<1>1. ASSUME NEW r \in Requests, Client(r) PROVE OneVersion'
  <2>1. UNCHANGED weights
    BY <1>1, ClientFrame
  <2>2. CASE Start(r)
    <3>1. /\ client' = [client EXCEPT ![r] = "running"] /\ UNCHANGED at
          /\ began' = [began EXCEPT ![r] = weights[at[r]]]
      BY <2>2 DEF Start
    <3>. QED  BY <2>1, <3>1 DEF TypeOK
  <2>3. CASE ~Start(r)
    <3>1. \A q \in Requests : client'[q] = "running" =>
            client[q] = "running" /\ at'[q] = at[q] /\ began'[q] = began[q]
      <4>1. CASE Acquire(r)
        <5>1. PICK s \in Pool : at' = [at EXCEPT ![r] = s]
          BY <4>1, Granted
        <5>. QED  BY <4>1, <5>1 DEF Acquire, TypeOK
      <4>2. CASE Block(r) \/ Complete(r) \/ Fail(r)
        BY <4>2 DEF Block, Complete, Fail, TypeOK
      <4>3. CASE Answer(r)
        <5>1. \A q \in Requests : client'[q] = "running" => client[q] = "running" /\ q # r
          BY <4>3 DEF Answer, Return, TypeOK
        <5>2. \A q \in Requests : q # r => at'[q] = at[q] /\ began'[q] = began[q]
          BY <4>3 DEF Answer, Return, TypeOK
        <5>. QED  BY <5>1, <5>2
      <4>. QED  BY <1>1, <2>3, <4>1, <4>2, <4>3 DEF Client
    <3>. QED  BY <2>1, <3>1
  <2>. QED  BY <2>2, <2>3
<1>2. ASSUME NEW s \in Servers, Abort(s) PROVE OneVersion'
  BY <1>2 DEF Abort
<1>3. CASE ValidationEnds
  BY <1>3 DEF ValidationEnds, engineVars
<1>4. CASE Transfer
  <2>1. Calling("transfer") /\ UNCHANGED <<client, at, began>>
        /\ \A s \in Servers : s \notin todo => weights'[s] = weights[s]
    BY <1>4 DEF Transfer, OnGroup, Publish, clientVars
  <2>2. \A s \in Standalone : Quiet(s)
    <3>1. PICK n \in 1 .. 19, last \in 4 .. 18 : Left(n, last) /\ QuietAt(n)
      BY DEF PlanInv
    <3>2. n = 3
      BY <2>1, <3>1, CallNumber
    <3>. QED  BY <3>1, <3>2 DEF QuietAt
  <2>. QED  BY <2>1, <2>2 DEF Quiet, Quiescent
<1>5. CASE Wake
  <2>1. Calling("wake") /\ UNCHANGED <<client, at, began>>
        /\ \A s \in Servers : s \notin todo => weights'[s] = weights[s]
    BY <1>5 DEF Wake, OnGroup, Publish, clientVars
  <2>2. todo \subseteq Hybrid
    BY <2>1, CallNumber DEF PlanInv
  <2>. QED  BY <2>1, <2>2, Assumption DEF Assumption, Servers
<1>6. ASSUME UNCHANGED <<client, at, began, weights>> PROVE OneVersion'
  BY <1>6
<1>7. (\E s \in Servers : Release(s) \/ Drain(s) \/ Resume(s) \/ Sleep(s)) \/ AddReplicas
      \/ RemoveReplicas \/ NextCall \/ NewVersion \/ UNCHANGED vars
        => UNCHANGED <<client, at, began, weights>>
  BY DEF Release, Count, Drain, Resume, Sleep, AddReplicas, RemoveReplicas, OnGroup,
     NextCall, NewVersion, vars, engineVars, clientVars
<1>. QED
  BY <1>1, <1>2, <1>3, <1>4, <1>5, <1>6, <1>7 DEF Next, Trainer, Stop

LEMMA InitIInv == Init => IInv
<1> SUFFICES ASSUME Init PROVE IInv
  OBVIOUS
<1> USE Assumption DEF Assumption, Init, Servers
<1>1. TypeOK
  <2>1. recent \in Seq(Requests) /\ Len(recent) <= CacheSize
    OBVIOUS
  <2>. QED  BY <2>1 DEF TypeOK, Pool, Busy
<1>2. PlanInv
  <2>1. Len(Path) \in {5, 18} /\ Path \in Seq(Call)
    BY PathCalls, PathSeq
  <2>2. Left(5, 4)
    BY <2>1 DEF Left
  <2>3. GroupAt(5) /\ QuietAt(5) /\ AliveAt(5) /\ AwakeAt(5, 4)
    BY DEF GroupAt, QuietAt, AliveAt, AwakeAt
  <2>. QED  BY <2>2, <2>3 DEF PlanInv
<1>3. PoolInv
  BY DEF PoolInv, Pool
<1>7. TurnsLeft /\ OneVersion
  BY DEF TurnsLeft, OneVersion
<1>4. \A s \in Servers : Holders(s) = {}
  BY DEF Holders
<1>5. FewHolders
  BY <1>4, FS_EmptySet DEF FewHolders
<1>6. NoInventedLoad
  <2>1. \A s \in Servers : Cardinality(Holders(s)) = 0
    BY <1>4, FS_EmptySet
  <2>2. \A s \in Servers : Open(s) = Cardinality(Holders(s)) + releasing[s]
    BY DEF Open, Holders
  <2>. QED  BY <2>1, <2>2 DEF NoInventedLoad, Pool
<1>. QED  BY <1>1, <1>2, <1>3, <1>5, <1>6, <1>7 DEF IInv

\* Pool, engines and calls stay in relation to the call the trainer has reached.
THEOREM Inductive == Spec => []IInv
<1>1. ASSUME IInv, Next \/ UNCHANGED vars PROVE IInv'
  <2>1. PlanInv' /\ PoolInv' /\ FewHolders' /\ NoInventedLoad' /\ OneVersion'
    BY <1>1, PlanKept, PoolKept, LoadKept, VersionKept
  <2>2. BalancerType' /\ ClientType' /\ EngineType' /\ TrainerType'
    BY <1>1, <2>1, BalancerTypeKept, ClientTypeKept, EngineTypeKept, TrainerTypeKept
  <2>3. TypeOK' /\ TurnsLeft'
    BY <2>2 DEF TypeOK, BalancerType, ClientType, EngineType, TrainerType
  <2>. QED  BY <2>1, <2>3 DEF IInv
<1>2. IInv /\ [Next]_vars => IInv'
  BY <1>1
<1>. QED  BY InitIInv, <1>2, PTL DEF Spec

-----------------------------------------------------------------------------
\* Counts stay natural numbers, the session cache stays within its size and no
\* conversation takes more turns than it has.
THEOREM TypeCorrect == Spec => []TypeOK
BY Inductive, PTL DEF IInv

\* The balancer never counts more calls on a server than are open on it,
\* whatever leaves and rejoins the pool and however late the releases come.
THEOREM LoadIsReal == Spec => []NoInventedLoad
BY Inductive, PTL DEF IInv

\* No standalone server changes its weights under a generation.
THEOREM SampledFromOneVersion == Spec => []OneVersion
BY Inductive, PTL DEF IInv

\* A call is only ever granted a server that is in the pool and awake.
THEOREM GrantedServersAreAwake == Spec => GrantsAwake
<1>1. ASSUME IInv, Next \/ UNCHANGED vars, NEW r \in Requests,
             at[r] = None, at'[r] # None
      PROVE  at'[r] \in Pool /\ awake[at'[r]]
  <2>1. PICK q \in Requests : Acquire(q)
    <3>1. ASSUME NEW q \in Requests, Answer(q) PROVE at'[r] = at[r] \/ at'[r] = None
      BY <3>1 DEF Answer, Return, IInv, TypeOK
    <3>2. ASSUME NEW q \in Requests, Start(q) \/ Block(q) \/ Complete(q) \/ Fail(q)
          PROVE  UNCHANGED at
      BY <3>2 DEF Start, Block, Complete, Fail
    <3>3. ASSUME NEW s \in Servers,
                 Release(s) \/ Abort(s) \/ Drain(s) \/ Resume(s) \/ Sleep(s)
          PROVE  UNCHANGED at
      BY <3>3 DEF Release, Count, Abort, Drain, Resume, Sleep, clientVars
    <3>4. Transfer \/ Wake \/ AddReplicas \/ RemoveReplicas \/ ValidationEnds
          \/ NextCall \/ NewVersion \/ UNCHANGED vars => UNCHANGED at
      BY DEF Transfer, Wake, AddReplicas, RemoveReplicas, OnGroup, ValidationEnds,
         NextCall, NewVersion, vars, clientVars
    <3>. QED  BY <1>1, <3>1, <3>2, <3>3, <3>4 DEF Next, Client, Trainer, Stop
  <2>2. PICK s \in Pool : at' = [at EXCEPT ![q] = s]
    BY <1>1, <2>1, Granted DEF IInv
  <2>3. at'[r] = s
    BY <1>1, <2>2 DEF IInv, TypeOK
  <2>4. s \in Standalone \/ (alive # {} /\ s \in Hybrid)
    BY <1>1 DEF IInv, PoolInv, TypeOK
  <2>5. CASE s \in Standalone
    BY <1>1, <2>3, <2>5 DEF IInv, PoolInv
  <2>6. CASE alive # {} /\ s \in Hybrid
    <3>1. PICK n \in 1 .. 19, last \in 4 .. 18 : AliveAt(n) /\ AwakeAt(n, last)
      BY <1>1 DEF IInv, PlanInv
    <3>2. n \in 6 .. 15
      BY <2>6, <3>1 DEF AliveAt
    <3>. QED  BY <2>3, <2>6, <3>1, <3>2 DEF AwakeAt
  <2>. QED  BY <2>4, <2>5, <2>6
<1>2. IInv /\ [Next]_vars =>
        [\A r \in Requests : at[r] = None /\ at'[r] # None
                             => at'[r] \in Pool /\ awake[at'[r]]]_vars
  BY <1>1
<1>. QED  BY Inductive, <1>2, PTL DEF Spec, GrantsAwake
=============================================================================
