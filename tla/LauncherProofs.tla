---------------------------- MODULE LauncherProofs ----------------------------
(***************************************************************************)
(* Proofs about the launcher, for every number of nodes, hosts, steps and  *)
(* failures.  The three invariants follow from IInv of Launcher.           *)
(***************************************************************************)
EXTENDS Launcher, TLAPS

\* The steps of a launch's processes, of the host they run on, and of rank 0's
\* driver.
NodeStep(p) ==
    \/ Launch(p) \/ Judge(p) \/ Claim(p) \/ ClaimRefused(p) \/ Look(p)
    \/ PeerFailed(p) \/ Arrive(p) \/ KeepWaiting(p) \/ Expire(p) \/ ChecksPass(p)
    \/ StartRay(p) \/ Raise(p) \/ DriverReturned(p) \/ DriverBroke(p)
    \/ DriverTimedOut(p) \/ WriteResult(p) \/ HostDies(p)

UpdateStep ==
    \/ UpdateReturns(FALSE) /\ UNCHANGED troubles
    \/ UpdateReturns(TRUE) /\ Trouble

DriverStep ==
    \/ NodesAlive \/ NodesMissing \/ TeacherAnswers \/ SaveReturns \/ SaveRefused
    \/ Log \/ Certify \/ DriverRaises
    \/ \E r \in Ranks : Train(r)
    \/ \E r \in Ranks : WriteShard(r)
    \/ UpdateStep

LEMMA StepCases ==
    Next => (\E p \in Launches : NodeStep(p)) \/ DriverStep \/ UNCHANGED vars
BY DEF Next, Node, Driver, Disturbance, Stop, NodeStep, DriverStep, UpdateStep

LEMMA NoneIsNobody == \A p \in Launches : p # None /\ Rank(p) \in Ranks
BY DEF Launches, None, Rank

-----------------------------------------------------------------------------
\* What the actions with several outcomes change.

Places == [Launches -> Waits \cup {"none", "claim", "checks", "ray", "training",
                                  "result", "failed", "exited"}]

LEMMA FailMoves ==
    ASSUME Shape, NEW p \in Launches, Fail(p)
    PROVE  /\ node' = [node EXCEPT ![p] = "failed"] /\ looked' = looked \ {p}
           /\ failures' \subseteq Launches /\ strays' \subseteq Launches
           /\ UNCHANGED <<verdict, claims, ready, result>>
           /\ UNCHANGED <<execution, head, complete>>
<1>1. \/ failures' = failures \cup {p} /\ strays' = strays
      \/ failures' = failures /\ strays' = strays \cup {p}
  BY Zenon DEF Fail, Record
<1>2. UNCHANGED <<verdict, claims, ready, result, execution, head, complete>>
  BY Zenon DEF Fail, Record
<1>. QED  BY <1>1, <1>2 DEF Fail, Record, Goto, Shape

LEMMA ClaimMoves ==
    ASSUME Shape, NEW p \in Launches, Claim(p)
    PROVE  /\ node[p] = "claim" /\ claims[Rank(p)] = None /\ claims'[Rank(p)] = p
           /\ \A r \in Ranks \ {Rank(p)} : claims'[r] = claims[r]
           /\ node'[p] = IF Rank(p) = 0 THEN "checks" ELSE "directory"
           /\ \A q \in Launches \ {p} : node'[q] = node[q]
           /\ claims' \in [Ranks -> Launches \cup {None}]
           /\ node' \in Places
           /\ UNCHANGED <<verdict, looked, failures, strays, ready, result, ray,
                          driver, step, counts, calls, shards, troubles>>
           /\ UNCHANGED <<head, complete, trained>>
<1>1. /\ node[p] = "claim" /\ claims[Rank(p)] = None
      /\ UNCHANGED <<verdict, looked, failures, strays, ready, result, ray,
                     driver, step, counts, calls, shards, troubles>>
      /\ UNCHANGED <<head, complete, trained>>
  BY Zenon DEF Claim, Unclaimed, At, driverVars
<1>2. claims' = [claims EXCEPT ![Rank(p)] = p] /\ Rank(p) \in Ranks
  BY NoneIsNobody DEF Claim
<1>3. /\ claims' \in [Ranks -> Launches \cup {None}] /\ claims'[Rank(p)] = p
      /\ \A r \in Ranks \ {Rank(p)} : claims'[r] = claims[r]
  BY <1>2 DEF Shape
<1>4. \/ Rank(p) = 0 /\ node' = [node EXCEPT ![p] = "checks"]
      \/ Rank(p) # 0 /\ node' = [node EXCEPT ![p] = "directory"]
  BY Zenon DEF Claim, Goto
<1>5. /\ node' \in Places
      /\ node'[p] = IF Rank(p) = 0 THEN "checks" ELSE "directory"
      /\ \A q \in Launches \ {p} : node'[q] = node[q]
  BY <1>4 DEF Shape, Places, Waits
<1>. QED  BY <1>1, <1>3, <1>5, Zenon

LEMMA ArriveMoves ==
    ASSUME Looking, NEW p \in Launches, Arrive(p)
    PROVE  /\ looked' = looked \ {p}
           /\ \/ node[p] = "directory" /\ node' = [node EXCEPT ![p] = "checks"]
              \/ /\ node[p] = "ready" /\ ready = Ranks /\ Rank(p) = 0
                 /\ node' = [node EXCEPT ![p] = "ray"]
              \/ /\ node[p] = "ready" /\ ready = Ranks /\ Rank(p) # 0
                 /\ node' = [node EXCEPT ![p] = "head"]
              \/ /\ node[p] = "head" /\ head
                 /\ node' = [node EXCEPT ![p] = "ray"]
              \/ /\ node[p] = "complete" /\ complete
                 /\ node' = [node EXCEPT ![p] = "result"]
           /\ UNCHANGED <<verdict, claims, failures, strays, ready, result, ray,
                          driver, step, counts, calls, shards, troubles>>
           /\ UNCHANGED <<head, complete, trained>>
<1>1. p \in looked /\ node[p] \in Waits /\ Awaited(p)
  BY DEF Arrive, Looking
<1>2. looked' = looked \ {p} /\ node' = [node EXCEPT ![p] = After(p)]
  BY DEF Arrive, Goto
<1>3. UNCHANGED <<verdict, claims, failures, strays, ready, result, ray,
                  driver, step, counts, calls, shards, troubles>>
  BY Zenon DEF Arrive, fileVars, driverVars
<1>4. UNCHANGED <<head, complete, trained>>
  BY Zenon DEF Arrive, fileVars, driverVars
<1>5. CASE node[p] = "directory"
  BY <1>2, <1>3, <1>4, <1>5 DEF After
<1>6. CASE node[p] = "ready"
  BY <1>1, <1>2, <1>3, <1>4, <1>6 DEF After, AfterReady, Awaited, AllReady
<1>7. CASE node[p] = "head"
  BY <1>1, <1>2, <1>3, <1>4, <1>7 DEF After, Awaited
<1>8. CASE node[p] = "complete"
  BY <1>1, <1>2, <1>3, <1>4, <1>8 DEF After, Awaited
<1>. QED  BY <1>1, <1>5, <1>6, <1>7, <1>8 DEF Waits

LEMMA StartRayMoves ==
    ASSUME Shape, NEW p \in Launches, StartRay(p)
    PROVE  /\ node[p] = "ray" /\ ray' \subseteq Ranks
           /\ driver' = IF Rank(p) = 0 THEN "nodes" ELSE driver
           /\ node'[p] = IF Rank(p) = 0 THEN "training" ELSE "complete"
           /\ \A q \in Launches \ {p} : node'[q] = node[q]
           /\ node' \in Places /\ (head => head')
           /\ UNCHANGED <<verdict, looked, claims, failures, strays, ready,
                          result, step, counts, calls, shards, troubles>>
           /\ UNCHANGED <<complete, trained>>
<1>1. /\ node[p] = "ray" /\ (head => head') /\ ray' = ray \cup {Rank(p)}
      /\ UNCHANGED <<verdict, looked, claims, failures, strays, ready,
                     result, step, counts, calls, shards, troubles>>
      /\ UNCHANGED <<complete, trained>>
      /\ \/ /\ Rank(p) = 0 /\ driver' = "nodes"
            /\ node' = [node EXCEPT ![p] = "training"]
         \/ /\ Rank(p) # 0 /\ driver' = driver
            /\ node' = [node EXCEPT ![p] = "complete"]
  BY Zenon DEF StartRay, At, Goto
<1>2. ray' \subseteq Ranks
  BY <1>1, NoneIsNobody DEF Shape
<1>3. /\ driver' = IF Rank(p) = 0 THEN "nodes" ELSE driver
      /\ node' \in Places
      /\ node'[p] = IF Rank(p) = 0 THEN "training" ELSE "complete"
      /\ \A q \in Launches \ {p} : node'[q] = node[q]
  BY <1>1 DEF Shape, Places, Waits
<1>. QED  BY <1>1, <1>2, <1>3, Zenon

LEMMA UpdateMoves ==
    ASSUME Shape, UpdateStep
    PROVE  /\ driver = "update" /\ driver' \in {"save", "log"}
           /\ \A r \in Ranks : calls[r] = step
           /\ step = counts.update + 1
           /\ counts' = [counts EXCEPT !.update = counts.update + 1]
           /\ troubles' \in 0 .. MaxTroubles
           /\ UNCHANGED <<verdict, node, looked, claims, failures, strays, ready,
                          result, ray, step, calls, shards>>
           /\ UNCHANGED <<head, complete, trained>>
<1>1. ASSUME NEW x \in BOOLEAN, UpdateReturns(x)
      PROVE  /\ driver' \in {"save", "log"}
             /\ UNCHANGED <<verdict, node, looked, claims, failures, strays,
                            ready, result, ray, step, calls, shards>>
             /\ UNCHANGED <<head, complete, trained>>
  BY <1>1, Zenon DEF UpdateReturns, Drive, fileVars, launchVars
<1>2. ASSUME NEW x \in BOOLEAN, UpdateReturns(x)
      PROVE  /\ driver = "update" /\ step = counts.update + 1
             /\ \A r \in Ranks : calls[r] = step
             /\ counts' = [counts EXCEPT !.update = counts.update + 1]
  BY <1>2 DEF UpdateReturns, Drive
<1>3. UpdateReturns(FALSE) \/ UpdateReturns(TRUE)
  BY DEF UpdateStep
<1>4. troubles' \in 0 .. MaxTroubles
  <2>1. troubles' = troubles \/ (troubles < MaxTroubles /\ troubles' = troubles + 1)
    BY Zenon DEF UpdateStep, Trouble
  <2>. QED  BY <2>1, Assumption DEF Assumption, Shape
<1>. QED  BY <1>1, <1>2, <1>3, <1>4

LEMMA HostDiesMoves ==
    ASSUME Shape, NEW p \in Launches, HostDies(p)
    PROVE  /\ verdict' = [verdict EXCEPT ![p] = "failed"] /\ looked' = looked \ {p}
           /\ ray' \subseteq ray
           /\ driver' = driver \/ (driver # "none" /\ driver' = "failed")
           /\ troubles' \in 0 .. MaxTroubles
           /\ UNCHANGED <<node, claims, failures, strays, ready, result, step,
                          counts, calls, shards>>
           /\ UNCHANGED <<head, complete, trained>>
<1>1. ray' \subseteq ray
  BY Zenon DEF HostDies
<1>2. driver' = driver \/ (driver # "none" /\ driver' = "failed")
  BY Zenon DEF HostDies
<1>3. UNCHANGED <<node, claims, failures, strays, ready, result, step, counts,
                  calls, shards, head, complete, trained>>
  BY Zenon DEF HostDies, fileVars
<1>4. troubles < MaxTroubles /\ troubles' = troubles + 1
  BY Zenon DEF HostDies, Trouble
<1>5. troubles' \in 0 .. MaxTroubles
  BY <1>4, Assumption DEF Assumption, Shape
<1>. QED  BY <1>1, <1>2, <1>3, <1>5 DEF HostDies

-----------------------------------------------------------------------------
\* Types

LEMMA NodeFlags ==
    ASSUME TypeOK, NEW p \in Launches, NodeStep(p) PROVE Flags'
<1> USE DEF TypeOK, Flags, At, Goto, launchVars, fileVars, driverVars
<1>1. CASE Launch(p)
  BY <1>1, Zenon DEF Launch
<1>2. CASE Judge(p)
  BY <1>2, Zenon DEF Judge
<1>3. CASE Claim(p)
  BY <1>3, Zenon DEF Claim, Unclaimed
<1>4. CASE ClaimRefused(p)
  BY <1>4, Zenon DEF ClaimRefused, Fail, Record
<1>5. CASE Look(p)
  BY <1>5, Zenon DEF Look
<1>6. CASE PeerFailed(p)
  BY <1>6, Zenon DEF PeerFailed, Fail, Record
<1>7. CASE Arrive(p)
  BY <1>7, Zenon DEF Arrive, Awaited, After, AfterReady, AllReady
<1>8. CASE KeepWaiting(p)
  BY <1>8, Zenon DEF KeepWaiting
<1>9. CASE Expire(p)
  BY <1>9, Zenon DEF Expire, Fail, Record
<1>10. CASE ChecksPass(p)
  BY <1>10, Zenon DEF ChecksPass
<1>11. CASE StartRay(p)
  BY <1>11, Zenon DEF StartRay
<1>12. CASE Raise(p)
  BY <1>12, Zenon DEF Raise, Fail, Record, Trouble
<1>13. CASE DriverReturned(p)
  BY <1>13, Zenon DEF DriverReturned, DriverProved
<1>14. CASE DriverBroke(p)
  BY <1>14, Zenon DEF DriverBroke, Fail, Record
<1>15. CASE DriverTimedOut(p)
  BY <1>15, Zenon DEF DriverTimedOut, Fail, Record
<1>16. CASE WriteResult(p)
  BY <1>16, Zenon DEF WriteResult
<1>17. CASE HostDies(p)
  BY <1>17, Zenon DEF HostDies, Trouble
<1>. QED
  BY <1>1, <1>2, <1>3, <1>4, <1>5, <1>6, <1>7, <1>8, <1>9, <1>10, <1>11,
     <1>12, <1>13, <1>14, <1>15, <1>16, <1>17 DEF NodeStep

LEMMA DriverFlags ==
    ASSUME TypeOK, DriverStep PROVE Flags'
<1> USE DEF TypeOK, Flags, Drive, launchVars, fileVars, driverVars
<1>1. CASE NodesAlive
  BY <1>1, Zenon DEF NodesAlive
<1>2. CASE NodesMissing
  BY <1>2, Zenon DEF NodesMissing
<1>3. CASE TeacherAnswers
  BY <1>3, Zenon DEF TeacherAnswers
<1>4. CASE \E r \in Ranks : Train(r)
  BY <1>4, Zenon DEF Train
<1>5. CASE UpdateStep
  BY <1>5, Zenon DEF UpdateStep, UpdateReturns
<1>6. CASE \E r \in Ranks : WriteShard(r)
  BY <1>6, Zenon DEF WriteShard
<1>7. CASE SaveReturns
  BY <1>7, Zenon DEF SaveReturns
<1>8. CASE SaveRefused
  BY <1>8, Zenon DEF SaveRefused
<1>9. CASE Log
  BY <1>9, Zenon DEF Log, LastStep
<1>10. CASE Certify
  BY <1>10, Zenon DEF Certify, Complete
<1>11. CASE DriverRaises
  BY <1>11, Zenon DEF DriverRaises, Trouble
<1>. QED
  BY <1>1, <1>2, <1>3, <1>4, <1>5, <1>6, <1>7, <1>8, <1>9, <1>10, <1>11 DEF DriverStep

LEMMA NodeTypes ==
    ASSUME TypeOK, Looking, NEW p \in Launches, NodeStep(p) PROVE Shape'
<1> USE DEF TypeOK, Shape, Waits, Places, At, Goto, launchVars, fileVars, driverVars
<1>1. CASE Launch(p)
  BY <1>1 DEF Launch
<1>2. CASE Judge(p)
  BY <1>2 DEF Judge
<1>3. CASE Claim(p)
  BY <1>3, ClaimMoves
<1>4. CASE ClaimRefused(p)
  BY <1>4, FailMoves DEF ClaimRefused
<1>5. CASE Look(p)
  BY <1>5 DEF Look
<1>6. CASE PeerFailed(p)
  BY <1>6, FailMoves DEF PeerFailed
<1>7. CASE Arrive(p)
  BY <1>7, ArriveMoves
<1>8. CASE KeepWaiting(p)
  BY <1>8 DEF KeepWaiting
<1>9. CASE Expire(p)
  BY <1>9, FailMoves DEF Expire
<1>10. CASE ChecksPass(p)
  <2>1. Rank(p) \in Ranks
    BY NoneIsNobody
  <2>. QED  BY <1>10, <2>1 DEF ChecksPass
<1>11. CASE StartRay(p)
  BY <1>11, StartRayMoves
<1>12. CASE Raise(p)
  <2>1. troubles < MaxTroubles /\ troubles' = troubles + 1
    BY <1>12, Zenon DEF Raise, Trouble
  <2>2. troubles' \in 0 .. MaxTroubles
    BY <2>1, Assumption DEF Assumption
  <2>. QED  BY <1>12, <2>2, FailMoves DEF Raise
<1>13. CASE DriverReturned(p)
  BY <1>13 DEF DriverReturned, DriverProved
<1>14. CASE DriverBroke(p)
  BY <1>14, FailMoves DEF DriverBroke
<1>15. CASE DriverTimedOut(p)
  BY <1>15, FailMoves DEF DriverTimedOut
<1>16. CASE WriteResult(p)
  BY <1>16 DEF WriteResult
<1>17. CASE HostDies(p)
  BY <1>17, HostDiesMoves
<1>. QED
  BY <1>1, <1>2, <1>3, <1>4, <1>5, <1>6, <1>7, <1>8, <1>9, <1>10, <1>11,
     <1>12, <1>13, <1>14, <1>15, <1>16, <1>17 DEF NodeStep

LEMMA DriverTypes ==
    ASSUME IInv, DriverStep PROVE Shape'
<1> USE Assumption DEF Assumption, IInv, TypeOK, Shape, InStep, Drive, launchVars, fileVars, driverVars
<1>1. CASE NodesAlive
  BY <1>1 DEF NodesAlive
<1>2. CASE NodesMissing
  BY <1>2 DEF NodesMissing
<1>3. CASE TeacherAnswers
  <2>1. counts.teacher + 1 \in 0 .. Steps
    BY <1>3 DEF TeacherAnswers
  <2>2. counts' \in [teacher : 0 .. Steps, update : 0 .. Steps,
                     logged : Seq(1 .. Steps), saved : SUBSET (1 .. Steps)]
    BY <1>3, <2>1 DEF TeacherAnswers
  <2>. QED  BY <1>3, <2>2 DEF TeacherAnswers
<1>4. CASE \E r \in Ranks : Train(r)
  BY <1>4 DEF Train
<1>5. CASE UpdateStep
  <2>1. counts.update + 1 \in 0 .. Steps
    BY <1>5, UpdateMoves
  <2>2. counts' \in [teacher : 0 .. Steps, update : 0 .. Steps,
                     logged : Seq(1 .. Steps), saved : SUBSET (1 .. Steps)]
    BY <1>5, <2>1, UpdateMoves
  <2>. QED  BY <1>5, <2>2, UpdateMoves
<1>6. CASE \E r \in Ranks : WriteShard(r)
  BY <1>6 DEF WriteShard
<1>7. CASE SaveReturns
  <2>1. counts.saved \cup {step} \in SUBSET (1 .. Steps)
    BY <1>7 DEF SaveReturns
  <2>2. counts' \in [teacher : 0 .. Steps, update : 0 .. Steps,
                     logged : Seq(1 .. Steps), saved : SUBSET (1 .. Steps)]
    BY <1>7, <2>1 DEF SaveReturns
  <2>. QED  BY <1>7, <2>2 DEF SaveReturns
<1>8. CASE SaveRefused
  BY <1>8 DEF SaveRefused
<1>9. CASE Log
  <2>1. Append(counts.logged, step) \in Seq(1 .. Steps)
    BY <1>9 DEF Log
  <2>2. counts' \in [teacher : 0 .. Steps, update : 0 .. Steps,
                     logged : Seq(1 .. Steps), saved : SUBSET (1 .. Steps)]
    BY <1>9, <2>1 DEF Log
  <2>3. driver' \in {"certify", "teacher"} /\ step' \in 1 .. Steps + 1
    BY <1>9 DEF Log, LastStep
  <2>. QED  BY <1>9, <2>2, <2>3 DEF Log
<1>10. CASE Certify
  BY <1>10 DEF Certify, Complete
<1>11. CASE DriverRaises
  BY <1>11 DEF DriverRaises, Trouble
<1>. QED
  BY <1>1, <1>2, <1>3, <1>4, <1>5, <1>6, <1>7, <1>8, <1>9, <1>10, <1>11 DEF DriverStep

-----------------------------------------------------------------------------
\* The launches

LEMMA NodeLooking ==
    ASSUME IInv, NEW p \in Launches, NodeStep(p) PROVE Looking'
<1> USE DEF IInv, TypeOK, Shape, Looking, Waits, At, Goto, launchVars, fileVars, driverVars
<1>1. CASE Launch(p)
  BY <1>1 DEF Launch
<1>2. CASE Judge(p)
  BY <1>2 DEF Judge
<1>3. CASE Claim(p)
  BY <1>3, ClaimMoves
<1>4. CASE ClaimRefused(p)
  BY <1>4, FailMoves DEF ClaimRefused
<1>5. CASE Look(p)
  BY <1>5 DEF Look
<1>6. CASE PeerFailed(p)
  BY <1>6, FailMoves DEF PeerFailed
<1>7. CASE Arrive(p)
  BY <1>7, ArriveMoves
<1>8. CASE KeepWaiting(p)
  BY <1>8 DEF KeepWaiting
<1>9. CASE Expire(p)
  BY <1>9, FailMoves DEF Expire
<1>10. CASE ChecksPass(p)
  BY <1>10 DEF ChecksPass
<1>11. CASE StartRay(p)
  BY <1>11, StartRayMoves
<1>12. CASE Raise(p)
  BY <1>12, FailMoves DEF Raise, Trouble
<1>13. CASE DriverReturned(p)
  BY <1>13 DEF DriverReturned, DriverProved
<1>14. CASE DriverBroke(p)
  BY <1>14, FailMoves DEF DriverBroke
<1>15. CASE DriverTimedOut(p)
  BY <1>15, FailMoves DEF DriverTimedOut
<1>16. CASE WriteResult(p)
  BY <1>16 DEF WriteResult
<1>17. CASE HostDies(p)
  BY <1>17, HostDiesMoves
<1>. QED
  BY <1>1, <1>2, <1>3, <1>4, <1>5, <1>6, <1>7, <1>8, <1>9, <1>10, <1>11,
     <1>12, <1>13, <1>14, <1>15, <1>16, <1>17 DEF NodeStep

LEMMA NodeOwned ==
    ASSUME IInv, NEW p \in Launches, NodeStep(p) PROVE Owned'
<1> USE DEF IInv, Owned, TypeOK, Shape, At, Goto, launchVars, fileVars, driverVars
<1>1. CASE Launch(p)
  BY <1>1 DEF Launch
<1>2. CASE Judge(p)
  BY <1>2 DEF Judge
<1>3. CASE Claim(p)
  <2>1. ASSUME NEW q \in Launches, node'[q] \notin {"none", "claim", "failed"}
        PROVE  claims'[Rank(q)] = q
    <3>1. CASE q = p
      BY <1>3, <3>1, ClaimMoves
    <3>2. CASE q # p
      <4>1. claims[Rank(q)] = q
        BY <1>3, <2>1, <3>2, ClaimMoves
      <4>2. Rank(q) # Rank(p)
        BY <1>3, <4>1, ClaimMoves, NoneIsNobody
      <4>. QED  BY <1>3, <4>1, <4>2, ClaimMoves, NoneIsNobody
    <3>. QED  BY <3>1, <3>2
  <2>2. \A r \in Ranks : result'[r] \in {None, claims'[r]}
    BY <1>3, ClaimMoves
  <2>3. \A q \in Launches : verdict'[q] = "ok" => result'[Rank(q)] = q
    BY <1>3, ClaimMoves
  <2>. QED  BY <2>1, <2>2, <2>3
<1>4. CASE ClaimRefused(p)
  BY <1>4, FailMoves DEF ClaimRefused
<1>5. CASE Look(p)
  BY <1>5 DEF Look
<1>6. CASE PeerFailed(p)
  BY <1>6, FailMoves DEF PeerFailed
<1>7. CASE Arrive(p)
  BY <1>7, ArriveMoves
<1>8. CASE KeepWaiting(p)
  BY <1>8 DEF KeepWaiting
<1>9. CASE Expire(p)
  BY <1>9, FailMoves DEF Expire
<1>10. CASE ChecksPass(p)
  BY <1>10 DEF ChecksPass
<1>11. CASE StartRay(p)
  BY <1>11, StartRayMoves
<1>12. CASE Raise(p)
  BY <1>12, FailMoves DEF Raise, Trouble
<1>13. CASE DriverReturned(p)
  BY <1>13 DEF DriverReturned, DriverProved
<1>14. CASE DriverBroke(p)
  BY <1>14, FailMoves DEF DriverBroke
<1>15. CASE DriverTimedOut(p)
  BY <1>15, FailMoves DEF DriverTimedOut
<1>16. CASE WriteResult(p)
  <2>1. result' = [result EXCEPT ![Rank(p)] = p] /\ claims[Rank(p)] = p
    BY <1>16 DEF WriteResult
  <2>2. UNCHANGED <<verdict, claims>> /\ node' = [node EXCEPT ![p] = "exited"]
    BY <1>16, Zenon DEF WriteResult
  <2>3. ASSUME NEW q \in Launches, verdict[q] = "ok" PROVE result'[Rank(q)] = q
    <3>1. Rank(q) \in Ranks /\ q # None /\ result[Rank(q)] = q
      BY <2>3, NoneIsNobody
    <3>2. claims[Rank(q)] = q
      BY <3>1
    <3>. QED  BY <2>1, <3>1, <3>2
  <2>4. \A r \in Ranks : result'[r] \in {None, claims[r]}
    BY <2>1
  <2>5. \A q \in Launches :
          node'[q] \notin {"none", "claim", "failed"} => claims[Rank(q)] = q
    BY <1>16, <2>1, <2>2 DEF WriteResult
  <2>. QED  BY <2>2, <2>3, <2>4, <2>5
<1>17. CASE HostDies(p)
  BY <1>17, HostDiesMoves
<1>. QED
  BY <1>1, <1>2, <1>3, <1>4, <1>5, <1>6, <1>7, <1>8, <1>9, <1>10, <1>11,
     <1>12, <1>13, <1>14, <1>15, <1>16, <1>17 DEF NodeStep

LEMMA NodeRendezvous ==
    ASSUME IInv, NEW p \in Launches, NodeStep(p) PROVE Rendezvous'
<1> USE DEF IInv, Rendezvous, StartsTogether, TypeOK, Shape, At, Goto, launchVars, fileVars, driverVars
<1>1. CASE Launch(p)
  BY <1>1 DEF Launch
<1>2. CASE Judge(p)
  BY <1>2 DEF Judge
<1>3. CASE Claim(p)
  BY <1>3, ClaimMoves
<1>4. CASE ClaimRefused(p)
  BY <1>4, FailMoves DEF ClaimRefused
<1>5. CASE Look(p)
  BY <1>5 DEF Look
<1>6. CASE PeerFailed(p)
  BY <1>6, FailMoves DEF PeerFailed
<1>7. CASE Arrive(p)
  BY <1>7, ArriveMoves
<1>8. CASE KeepWaiting(p)
  BY <1>8 DEF KeepWaiting
<1>9. CASE Expire(p)
  BY <1>9, FailMoves DEF Expire
<1>10. CASE ChecksPass(p)
  <2>1. Rank(p) \in Ranks
    BY NoneIsNobody
  <2>. QED  BY <1>10, <2>1 DEF ChecksPass
<1>11. CASE StartRay(p)
  BY <1>11, StartRayMoves
<1>12. CASE Raise(p)
  BY <1>12, FailMoves DEF Raise, Trouble
<1>13. CASE DriverReturned(p)
  BY <1>13 DEF DriverReturned, DriverProved
<1>14. CASE DriverBroke(p)
  BY <1>14, FailMoves DEF DriverBroke
<1>15. CASE DriverTimedOut(p)
  BY <1>15, FailMoves DEF DriverTimedOut
<1>16. CASE WriteResult(p)
  BY <1>16 DEF WriteResult
<1>17. CASE HostDies(p)
  BY <1>17, HostDiesMoves
<1>. QED
  BY <1>1, <1>2, <1>3, <1>4, <1>5, <1>6, <1>7, <1>8, <1>9, <1>10, <1>11,
     <1>12, <1>13, <1>14, <1>15, <1>16, <1>17 DEF NodeStep

-----------------------------------------------------------------------------
\* The driver

LEMMA NodeStarts ==
    ASSUME IInv, NEW p \in Launches, NodeStep(p) PROVE StartsOnce'
<1> USE DEF IInv, Owned, StartsOnce, Early, TypeOK, Shape, At, Goto, launchVars, fileVars, driverVars
<1>1. CASE Launch(p)
  BY <1>1 DEF Launch
<1>2. CASE Judge(p)
  BY <1>2 DEF Judge
<1>3. CASE Claim(p)
  <2>1. driver' = driver
    BY <1>3, ClaimMoves
  <2>2. ASSUME driver # "none" PROVE Rank(p) # 0 /\ claims'[0] = claims[0]
    <3>1. 0 \in Ranks
      BY Assumption DEF Assumption, Ranks
    <3>. QED  BY <1>3, <2>2, <3>1, ClaimMoves
  <2>3. ASSUME driver # "none", NEW q \in Launches, Rank(q) = 0
        PROVE  node'[q] \notin Early
    BY <1>3, <2>2, <2>3, ClaimMoves
  <2>4. UNCHANGED <<step, counts>>
    BY <1>3, ClaimMoves
  <2>5. ASSUME NEW q \in Launches, node'[q] = "training" PROVE driver # "none"
    BY <1>3, <2>5, ClaimMoves
  <2>. QED  BY <2>1, <2>2, <2>3, <2>4, <2>5
<1>4. CASE ClaimRefused(p)
  BY <1>4, FailMoves DEF ClaimRefused
<1>5. CASE Look(p)
  BY <1>5 DEF Look
<1>6. CASE PeerFailed(p)
  BY <1>6, FailMoves DEF PeerFailed
<1>7. CASE Arrive(p)
  BY <1>7, ArriveMoves
<1>8. CASE KeepWaiting(p)
  BY <1>8 DEF KeepWaiting
<1>9. CASE Expire(p)
  BY <1>9, FailMoves DEF Expire
<1>10. CASE ChecksPass(p)
  BY <1>10 DEF ChecksPass
<1>11. CASE StartRay(p)
  <2>1. CASE Rank(p) = 0
    <3>1. driver = "none" /\ driver' = "nodes" /\ UNCHANGED <<step, counts, claims>>
      BY <1>11, <2>1, StartRayMoves
    <3>2. claims'[0] = p /\ p # None
      BY <1>11, <2>1, <3>1, StartRayMoves, NoneIsNobody
    <3>3. ASSUME NEW q \in Launches, Rank(q) = 0 PROVE node'[q] \notin Early
      <4>1. CASE q = p
        BY <1>11, <2>1, <4>1, StartRayMoves
      <4>2. CASE q # p
        BY <1>11, <3>1, <3>2, <3>3, <4>2, StartRayMoves
      <4>. QED  BY <4>1, <4>2
    <3>. QED  BY <3>1, <3>2, <3>3
  <2>2. CASE Rank(p) # 0
    BY <1>11, <2>2, StartRayMoves
  <2>. QED  BY <2>1, <2>2
<1>12. CASE Raise(p)
  BY <1>12, FailMoves DEF Raise, Trouble
<1>13. CASE DriverReturned(p)
  BY <1>13 DEF DriverReturned, DriverProved
<1>14. CASE DriverBroke(p)
  BY <1>14, FailMoves DEF DriverBroke
<1>15. CASE DriverTimedOut(p)
  <2>1. driver' = "failed" /\ UNCHANGED <<step, counts>> /\ node[p] = "training"
    BY <1>15, Zenon DEF DriverTimedOut
  <2>2. Fail(p)
    BY <1>15, Zenon DEF DriverTimedOut
  <2>. QED  BY <2>1, <2>2, FailMoves
<1>16. CASE WriteResult(p)
  BY <1>16 DEF WriteResult
<1>17. CASE HostDies(p)
  BY <1>17, HostDiesMoves
<1>. QED
  BY <1>1, <1>2, <1>3, <1>4, <1>5, <1>6, <1>7, <1>8, <1>9, <1>10, <1>11,
     <1>12, <1>13, <1>14, <1>15, <1>16, <1>17 DEF NodeStep

LEMMA DriverStarts ==
    ASSUME IInv, DriverStep PROVE StartsOnce'
<1> USE DEF IInv, StartsOnce, TypeOK, Shape, Drive, launchVars, fileVars, driverVars
<1>1. CASE NodesAlive
  BY <1>1 DEF NodesAlive
<1>2. CASE NodesMissing
  BY <1>2 DEF NodesMissing
<1>3. CASE TeacherAnswers
  BY <1>3 DEF TeacherAnswers
<1>4. CASE \E r \in Ranks : Train(r)
  BY <1>4 DEF Train
<1>5. CASE UpdateStep
  BY <1>5, UpdateMoves
<1>6. CASE \E r \in Ranks : WriteShard(r)
  BY <1>6 DEF WriteShard
<1>7. CASE SaveReturns
  BY <1>7 DEF SaveReturns
<1>8. CASE SaveRefused
  BY <1>8 DEF SaveRefused
<1>9. CASE Log
  BY <1>9 DEF Log, LastStep
<1>10. CASE Certify
  BY <1>10 DEF Certify, Complete
<1>11. CASE DriverRaises
  BY <1>11 DEF DriverRaises, Trouble
<1>. QED
  BY <1>1, <1>2, <1>3, <1>4, <1>5, <1>6, <1>7, <1>8, <1>9, <1>10, <1>11 DEF DriverStep

LEMMA NodeInStep ==
    ASSUME IInv, NEW p \in Launches, NodeStep(p) PROVE InStep'
<1> USE DEF IInv, InStep, StartsOnce, Early, TypeOK, Shape, At, Goto, launchVars, fileVars, driverVars
<1>1. CASE Launch(p)
  BY <1>1 DEF Launch
<1>2. CASE Judge(p)
  BY <1>2 DEF Judge
<1>3. CASE Claim(p)
  <2>1. UNCHANGED <<driver, step, counts, shards>>
    BY <1>3, ClaimMoves
  <2>. QED  BY <2>1
<1>4. CASE ClaimRefused(p)
  BY <1>4, FailMoves DEF ClaimRefused
<1>5. CASE Look(p)
  BY <1>5 DEF Look
<1>6. CASE PeerFailed(p)
  BY <1>6, FailMoves DEF PeerFailed
<1>7. CASE Arrive(p)
  BY <1>7, ArriveMoves
<1>8. CASE KeepWaiting(p)
  BY <1>8 DEF KeepWaiting
<1>9. CASE Expire(p)
  BY <1>9, FailMoves DEF Expire
<1>10. CASE ChecksPass(p)
  BY <1>10 DEF ChecksPass
<1>11. CASE StartRay(p)
  BY <1>11, StartRayMoves
<1>12. CASE Raise(p)
  BY <1>12, FailMoves DEF Raise, Trouble
<1>13. CASE DriverReturned(p)
  BY <1>13 DEF DriverReturned, DriverProved
<1>14. CASE DriverBroke(p)
  BY <1>14, FailMoves DEF DriverBroke
<1>15. CASE DriverTimedOut(p)
  BY <1>15, FailMoves DEF DriverTimedOut
<1>16. CASE WriteResult(p)
  BY <1>16 DEF WriteResult
<1>17. CASE HostDies(p)
  BY <1>17, HostDiesMoves
<1>. QED
  BY <1>1, <1>2, <1>3, <1>4, <1>5, <1>6, <1>7, <1>8, <1>9, <1>10, <1>11,
     <1>12, <1>13, <1>14, <1>15, <1>16, <1>17 DEF NodeStep

LEMMA DriverInStep ==
    ASSUME IInv, DriverStep PROVE InStep'
<1> USE Assumption DEF Assumption, IInv, InStep, StartsOnce, TypeOK, Shape, Drive, launchVars, fileVars, driverVars
<1>1. CASE NodesAlive
  BY <1>1 DEF NodesAlive
<1>2. CASE NodesMissing
  BY <1>2 DEF NodesMissing
<1>3. CASE TeacherAnswers
  BY <1>3 DEF TeacherAnswers
<1>4. CASE \E r \in Ranks : Train(r)
  BY <1>4 DEF Train
<1>5. CASE UpdateStep
  BY <1>5, UpdateMoves
<1>6. CASE \E r \in Ranks : WriteShard(r)
  BY <1>6 DEF WriteShard
<1>7. CASE SaveReturns
  BY <1>7 DEF SaveReturns
<1>8. CASE SaveRefused
  BY <1>8 DEF SaveRefused
<1>9. CASE Log
  BY <1>9 DEF Log, LastStep
<1>10. CASE Certify
  BY <1>10 DEF Certify, Complete
<1>11. CASE DriverRaises
  BY <1>11 DEF DriverRaises, Trouble
<1>. QED
  BY <1>1, <1>2, <1>3, <1>4, <1>5, <1>6, <1>7, <1>8, <1>9, <1>10, <1>11 DEF DriverStep

LEMMA NodeCertified ==
    ASSUME IInv, NEW p \in Launches, NodeStep(p) PROVE Certified'
<1> USE DEF IInv, Certified, Owned, StartsOnce, Early, TypeOK, Shape, At, Goto, launchVars, fileVars, driverVars
<1>1. CASE Launch(p)
  BY <1>1 DEF Launch
<1>2. CASE Judge(p)
  BY <1>2 DEF Judge
<1>3. CASE Claim(p)
  <2>1. UNCHANGED <<driver, calls, shards, result>> /\ UNCHANGED <<complete, trained>>
    BY <1>3, ClaimMoves
  <2>2. ASSUME NEW q \in Launches, node'[q] = "result" PROVE node[q] = "result"
    BY <1>3, <2>2, ClaimMoves
  <2>. QED  BY <2>1, <2>2
<1>4. CASE ClaimRefused(p)
  BY <1>4, FailMoves DEF ClaimRefused
<1>5. CASE Look(p)
  BY <1>5 DEF Look
<1>6. CASE PeerFailed(p)
  BY <1>6, FailMoves DEF PeerFailed
<1>7. CASE Arrive(p)
  <2>1. UNCHANGED <<driver, calls, shards, result>> /\ UNCHANGED <<complete, trained>>
    BY <1>7, ArriveMoves
  <2>2. ASSUME NEW q \in Launches, node'[q] = "result"
        PROVE  node[q] = "result" \/ complete
    BY <1>7, <2>2, ArriveMoves
  <2>. QED  BY <2>1, <2>2
<1>8. CASE KeepWaiting(p)
  BY <1>8 DEF KeepWaiting
<1>9. CASE Expire(p)
  BY <1>9, FailMoves DEF Expire
<1>10. CASE ChecksPass(p)
  BY <1>10 DEF ChecksPass
<1>11. CASE StartRay(p)
  <2>1. UNCHANGED <<calls, shards, result>> /\ UNCHANGED <<complete, trained>>
    BY <1>11, StartRayMoves
  <2>2. ASSUME trained PROVE driver' \in {"done", "failed"}
    BY <1>11, <2>2, StartRayMoves
  <2>3. ASSUME NEW q \in Launches, node'[q] = "result" PROVE node[q] = "result"
    BY <1>11, <2>3, StartRayMoves
  <2>. QED  BY <2>1, <2>2, <2>3
<1>12. CASE Raise(p)
  BY <1>12, FailMoves DEF Raise, Trouble
<1>13. CASE DriverReturned(p)
  BY <1>13 DEF DriverReturned, DriverProved
<1>14. CASE DriverBroke(p)
  BY <1>14, FailMoves DEF DriverBroke
<1>15. CASE DriverTimedOut(p)
  BY <1>15, FailMoves DEF DriverTimedOut
<1>16. CASE WriteResult(p)
  BY <1>16 DEF WriteResult
<1>17. CASE HostDies(p)
  <2>1. /\ UNCHANGED <<node, calls, shards, result>>
        /\ UNCHANGED <<complete, trained>>
    BY <1>17, HostDiesMoves
  <2>2. ASSUME trained PROVE driver' \in {"done", "failed"}
    BY <1>17, <2>2, HostDiesMoves
  <2>. QED  BY <2>1, <2>2
<1>. QED
  BY <1>1, <1>2, <1>3, <1>4, <1>5, <1>6, <1>7, <1>8, <1>9, <1>10, <1>11,
     <1>12, <1>13, <1>14, <1>15, <1>16, <1>17 DEF NodeStep

LEMMA DriverCertified ==
    ASSUME IInv, DriverStep PROVE Certified'
<1> USE DEF IInv, Certified, InStep, TypeOK, Shape, Drive, launchVars, fileVars, driverVars
<1>1. CASE NodesAlive
  BY <1>1 DEF NodesAlive
<1>2. CASE NodesMissing
  BY <1>2 DEF NodesMissing
<1>3. CASE TeacherAnswers
  BY <1>3 DEF TeacherAnswers
<1>4. CASE \E r \in Ranks : Train(r)
  BY <1>4 DEF Train
<1>5. CASE UpdateStep
  BY <1>5, UpdateMoves
<1>6. CASE \E r \in Ranks : WriteShard(r)
  BY <1>6 DEF WriteShard
<1>7. CASE SaveReturns
  BY <1>7 DEF SaveReturns
<1>8. CASE SaveRefused
  BY <1>8 DEF SaveRefused
<1>9. CASE Log
  BY <1>9 DEF Log, LastStep
<1>10. CASE Certify
  BY <1>10 DEF Certify, Complete
<1>11. CASE DriverRaises
  BY <1>11 DEF DriverRaises, Trouble
<1>. QED
  BY <1>1, <1>2, <1>3, <1>4, <1>5, <1>6, <1>7, <1>8, <1>9, <1>10, <1>11 DEF DriverStep

-----------------------------------------------------------------------------
\* The driver's steps leave the launches and their files alone.
LEMMA DriverApart ==
    ASSUME IInv, DriverStep PROVE Looking' /\ Owned' /\ Rendezvous'
<1>1. UNCHANGED <<launchVars, fileVars, ray>>
  BY Zenon DEF DriverStep, UpdateStep, NodesAlive, NodesMissing, TeacherAnswers,
     Train, UpdateReturns, WriteShard, SaveReturns, SaveRefused, Log, Certify,
     DriverRaises
<1>2. UNCHANGED <<verdict, node, looked, claims, ready, result, ray>>
  BY <1>1, Zenon DEF launchVars, fileVars
<1>3. head' = head
  BY <1>1, Zenon DEF fileVars
<1>4. Looking' /\ Owned'
  BY <1>2 DEF IInv, Looking, Owned
<1>5. Rendezvous'
  BY <1>2, <1>3 DEF IInv, Rendezvous, StartsTogether
<1>. QED  BY <1>4, <1>5

LEMMA InitHolds == Init => IInv
<1> SUFFICES ASSUME Init PROVE IInv
  OBVIOUS
<1>1. Flags
  BY Zenon DEF Init, Flags
<1>2. Shape
  <2>1. <<>> \in Seq(1 .. Steps) /\ 0 \in 0 .. Steps /\ 1 \in 1 .. Steps + 1
    BY Assumption DEF Assumption
  <2>2. counts \in [teacher : 0 .. Steps, update : 0 .. Steps,
                    logged : Seq(1 .. Steps), saved : SUBSET (1 .. Steps)]
    BY <2>1 DEF Init
  <2>. QED  BY <2>1, <2>2, Assumption DEF Assumption, Init, Shape
<1>3. Looking /\ Owned /\ Rendezvous
  BY DEF Init, Looking, Owned, Rendezvous, StartsTogether
<1>4. StartsOnce /\ InStep
  BY DEF Init, StartsOnce, InStep
<1>5. Certified
  <2>1. ~trained /\ ~complete
    BY Zenon DEF Init
  <2>. QED  BY <2>1 DEF Init, Certified
<1>. QED  BY <1>1, <1>2, <1>3, <1>4, <1>5 DEF IInv, TypeOK

LEMMA StutterKeeps == ASSUME IInv, UNCHANGED vars PROVE IInv'
<1>1. UNCHANGED <<verdict, node, looked, claims, failures, strays, ready, result,
                  ray, driver, step, counts, calls, shards, troubles>>
  BY Zenon DEF vars, launchVars, fileVars, driverVars
<1>2. UNCHANGED <<execution, head, complete, trained, calm>>
  BY Zenon DEF vars, fileVars, driverVars
<1>3. Flags'
  BY <1>2, Zenon DEF IInv, TypeOK, Flags
<1>4. Shape'
  BY <1>1 DEF IInv, TypeOK, Shape
<1>5. Looking' /\ Owned' /\ StartsOnce' /\ InStep'
  BY <1>1 DEF IInv, Looking, Owned, StartsOnce, InStep
<1>6. Rendezvous' /\ Certified'
  BY <1>1, <1>2 DEF IInv, Rendezvous, StartsTogether, Certified
<1>. QED  BY <1>3, <1>4, <1>5, <1>6 DEF IInv, TypeOK

LEMMA Inductive == Spec => []IInv
<1>1. ASSUME IInv, NEW p \in Launches, NodeStep(p) PROVE IInv'
  <2>1. TypeOK /\ Looking
    BY <1>1 DEF IInv
  <2>2. TypeOK'
    BY <1>1, <2>1, NodeFlags, NodeTypes DEF TypeOK
  <2>. QED  BY <1>1, <2>2, NodeLooking, NodeOwned, NodeRendezvous, NodeStarts,
              NodeInStep, NodeCertified DEF IInv
<1>2. ASSUME IInv, DriverStep PROVE IInv'
  <2>1. TypeOK
    BY <1>2 DEF IInv
  <2>2. TypeOK'
    BY <1>2, <2>1, DriverFlags, DriverTypes DEF TypeOK
  <2>. QED  BY <1>2, <2>2, DriverApart, DriverStarts, DriverInStep,
              DriverCertified DEF IInv
<1>3. IInv /\ [Next]_vars => IInv'
  BY <1>1, <1>2, StepCases, StutterKeeps
<1>. QED  BY InitHolds, <1>3, PTL DEF Spec

-----------------------------------------------------------------------------
\* Type correctness: in particular no count of the hooks passes the number of
\* steps.
THEOREM LauncherTypes == Spec => []TypeOK
BY Inductive, PTL DEF IInv

\* wait_for on ready-<rank>.json and head-started.json: whatever fails, Ray
\* starts nowhere before all nodes agree, nor on a worker before the head.
THEOREM RayStartsTogether == Spec => []StartsTogether
BY Inductive, PTL DEF IInv, Rendezvous

\* A launch reports success only for its own nonce and only after every step was
\* trained on every rank and every scheduled checkpoint was written whole.
THEOREM SuccessIsEarned == Spec => []EarnedSuccess
<1>1. IInv => EarnedSuccess
  <2> SUFFICES ASSUME IInv, NEW p \in Launches, verdict[p] = "ok"
               PROVE  /\ trained /\ \A r \in Ranks : calls[r] = Steps
                      /\ \A s \in CheckpointSteps : shards[s] = Ranks
    BY DEF EarnedSuccess
  <2>1. result[Rank(p)] # None /\ Rank(p) \in Ranks
    BY NoneIsNobody DEF IInv, Owned
  <2>2. complete
    BY <2>1 DEF IInv, Certified
  <2>. QED  BY <2>2 DEF IInv, Certified
<1>. QED  BY Inductive, <1>1, PTL
===============================================================================
