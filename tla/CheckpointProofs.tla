-------------------------- MODULE CheckpointProofs --------------------------
(***************************************************************************)
(* Proofs about the checkpoints of Checkpoint.tla, for any number of ranks,*)
(* steps, epochs and crashes and any frequency of saves: the inductive     *)
(* invariant IInv, which relates what a life of the job has in memory to   *)
(* what all its lives have left on disk, and what follows from it.         *)
(***************************************************************************)
EXTENDS Checkpoint, FiniteSetTheorems, SequenceTheorems, TLAPS

-----------------------------------------------------------------------------
(* The inductive invariant                                                 *)

Saving == {"prepare", "write", "data", "served", "tracker", "latest"}

\* The checkpoint being saved has the shards of this worker group.
Registered(ro) ==
    \/ pc \in {"data", "served", "tracker", "latest"}
    \/ pc \in {"prepare", "write"} /\ role = "critic" /\ ro = "actor"

Position(s) == ((s - 1) % StepsPerEpoch) + 1

\* Where the loop is.
LoopInv ==
    /\ pc \in Saving \cup {"train", "after"} => epoch < Epochs
    /\ pc \in Saving \cup {"after"} => step >= 1 /\ pos >= 1
    /\ pc \notin {"load", "failed"} => \E n \in 0 .. epoch : step = n * StepsPerEpoch + pos
    /\ SkipsAtEpoch => Aligned
    /\ pc \notin {"prepare", "write"} => role = "actor"

\* The end of the run.  Nothing is trained after the last step but by a life that
\* resumes from it, and each crash lets one more life do so.
EndInv ==
    /\ tracker \in Steps => tracker <= Total + crashes
    /\ pc = "load" /\ tracker \in Steps => tracker < Total + crashes
    /\ pc = "train" => step < Total + crashes /\ (step < Total \/ tracker = step)
    /\ pc \in Saving \cup {"after", "done"} => step <= Total + crashes
    /\ pc = "after" /\ IsLast(step) /\ SaveFreq > 0 /\ Warmup <= Total => tracker = step

\* What rank 0 remembers of this life: its saves, oldest first.
SavedInv ==
    /\ pc \in {"load", "failed"} => saved = Nothing
    /\ \A ro \in Roles :
        /\ \A i, j \in 1 .. Len(saved[ro]) : i < j => saved[ro][i] < saved[ro][j]
        /\ \A i \in 1 .. Len(saved[ro]) :
            /\ saved[ro][i] <= step
            /\ pc \in {"prepare", "write"} /\ ~Registered(ro) => saved[ro][i] < step
        /\ Registered(ro) => Len(saved[ro]) > 0 /\ saved[ro][Len(saved[ro])] = step

\* What is on disk of the checkpoint being saved.
WrittenInv ==
    /\ pc = "write" => \A r \in Ranks : file[r] = "closed" => shard[role][step][r] = "whole"
    /\ \A ro \in Roles, r \in Ranks : Registered(ro) => shard[ro][step][r] = "whole"
    /\ pc \in {"tracker", "latest"} => data[step] = pos

\* The checkpoint the tracker names is older than the one being saved, and
\* nothing rank 0 remembers lies between the two.
TrackerInv == tracker \in Steps =>
    /\ data[tracker] = Position(tracker)
    /\ pc \in {"train", "after"} => tracker <= step
    /\ pc \in Saving => tracker < step
    /\ \A ro \in Roles : \A i \in 1 .. Len(saved[ro]) :
        saved[ro][i] <= tracker \/ (Registered(ro) /\ saved[ro][i] = step)
    /\ MaxKeep # 1 => \A ro \in Roles, r \in Ranks : shard[ro][tracker][r] = "whole"

\* Checkpoints of this life, counted against MaxKeep, and of earlier ones,
\* which nobody removes.
Kept     == IF MaxKeep = 1 THEN 2 ELSE MaxKeep
Paths(ro) == {saved[ro][i] : i \in 1 .. Len(saved[ro])}
Mine(ro) == Paths(ro) \cup (IF pc = "write" /\ role = ro THEN {step} ELSE {})

SpaceInv == MaxKeep > 0 => \A ro \in Roles :
    /\ Len(saved[ro]) <= MaxKeep
    /\ pc = "write" /\ role = ro => Len(saved[ro]) + 1 <= Kept
    /\ Cardinality(OnDisk(ro) \ Mine(ro)) <= crashes * Kept

IInv ==
    /\ TypeOK /\ LoopInv /\ EndInv /\ SavedInv /\ WrittenInv /\ TrackerInv /\ SpaceInv
    /\ SkipsAtEpoch => FinalCheckpoint

-----------------------------------------------------------------------------
(* Steps, epochs and positions                                             *)

LEMMA Division ==
    ASSUME NEW a \in Nat
    PROVE  /\ a \div StepsPerEpoch \in Nat
           /\ a % StepsPerEpoch \in 0 .. StepsPerEpoch - 1
           /\ a = (a \div StepsPerEpoch) * StepsPerEpoch + (a % StepsPerEpoch)
BY Assumption, SMTT(30) DEF Assumption

LEMMA Unique ==
    ASSUME NEW a \in Nat, NEW n \in Nat, NEW p \in 0 .. StepsPerEpoch - 1,
           a = n * StepsPerEpoch + p
    PROVE  a \div StepsPerEpoch = n /\ a % StepsPerEpoch = p
BY Assumption, SMTT(30) DEF Assumption

LEMMA Monotone ==
    ASSUME NEW a \in Int, NEW b \in Int, NEW c \in Nat, a <= b
    PROVE  a * c <= b * c
BY SMTT(30)

LEMMA AtLeast == ASSUME NEW n \in Nat PROVE n <= n * StepsPerEpoch
BY Assumption, SMTT(30) DEF Assumption

LEMMA LimitIsStep == Limit \in Steps /\ Limit \in Nat \ {0} /\ Total \in Nat \ {0}
BY Assumption, SMTT(30) DEF Assumption, Limit, Steps

\* There is a batch for the step that a position before the end of an epoch leads to.
LEMMA StepFits ==
    ASSUME NEW n \in Nat, n < Epochs, NEW p \in 0 .. StepsPerEpoch - 1
    PROVE  n * StepsPerEpoch + p < Limit
<1> USE Assumption DEF Assumption
<1>1. (n + 1) * StepsPerEpoch <= Epochs * StepsPerEpoch
  BY Monotone
<1>2. (n + 1) * StepsPerEpoch = n * StepsPerEpoch + StepsPerEpoch /\ n * StepsPerEpoch \in Nat
  OBVIOUS
<1>3. Limit = Epochs * StepsPerEpoch /\ Epochs * StepsPerEpoch \in Nat
  BY DEF Limit
<1>. QED  BY <1>1, <1>2, <1>3

\* The position at which a step leaves the dataloader.
LEMMA PositionOf ==
    ASSUME NEW n \in Nat, NEW p \in 1 .. StepsPerEpoch
    PROVE  Position(n * StepsPerEpoch + p) = p
<1> USE Assumption DEF Assumption
<1> DEFINE a == n * StepsPerEpoch + p - 1
<1>1. a \in Nat /\ p - 1 \in 0 .. StepsPerEpoch - 1 /\ a = n * StepsPerEpoch + (p - 1)
  OBVIOUS
<1>2. a % StepsPerEpoch = p - 1
  BY <1>1, Unique
<1>. QED  BY <1>2 DEF Position

\* Where a step is resumed: at its position, or at the start of the next epoch.
LEMMA ResumePosition ==
    ASSUME NEW s \in Steps
    PROVE  /\ Position(s) \in 1 .. StepsPerEpoch
           /\ \E n \in 0 .. s : s = n * StepsPerEpoch + Position(s)
           /\ AtEpochEnd(s) => s = (s \div StepsPerEpoch) * StepsPerEpoch
           /\ ~AtEpochEnd(s) => s = (s \div StepsPerEpoch) * StepsPerEpoch + Position(s)
           /\ s \div StepsPerEpoch \in 0 .. s
           /\ s < Limit => s \div StepsPerEpoch < Epochs
           /\ s = Limit => s \div StepsPerEpoch = Epochs
           /\ s <= Limit
<1> USE Assumption DEF Assumption
<1> DEFINE S == StepsPerEpoch
           n == (s - 1) \div S
           q == s \div S
<1>0. s \in Nat /\ s - 1 \in Nat
  BY DEF Steps
<1>1. n \in Nat /\ (s - 1) % S \in 0 .. S - 1 /\ s - 1 = n * S + ((s - 1) % S)
  BY <1>0, Division
<1>2. Position(s) \in 1 .. S /\ s = n * S + Position(s)
  BY <1>0, <1>1 DEF Position
<1>3. n <= n * S
  BY <1>1, AtLeast
<1>4. n \in 0 .. s
  <2>1. n * S \in Nat
    BY <1>1
  <2>. HIDE DEF n
  <2>. QED  BY <1>0, <1>1, <1>2, <1>3, <2>1
<1>5. q \in Nat /\ s % S \in 0 .. S - 1 /\ s = q * S + (s % S)
  BY <1>0, Division
<1>6. q <= q * S
  BY <1>5, AtLeast
<1>7. q \in 0 .. s
  <2>1. q * S \in Nat
    BY <1>5
  <2>. HIDE DEF q
  <2>. QED  BY <1>0, <1>5, <1>6, <2>1
<1>8. AtEpochEnd(s) => s = q * S
  BY <1>5 DEF AtEpochEnd
<1>9. ASSUME ~AtEpochEnd(s) PROVE s = q * S + Position(s)
  <2>1. s % S \in 1 .. S
    BY <1>5, <1>9 DEF AtEpochEnd
  <2>2. Position(s) = s % S
    BY <1>5, <2>1, PositionOf
  <2>. QED  BY <1>5, <2>2
<1>10. ASSUME s < Limit PROVE q < Epochs
  <2>1. CASE q >= Epochs
    <3>0. q \in Int /\ Epochs \in Int /\ S \in Nat /\ Epochs <= q
      BY <1>5, <2>1
    <3>1. Epochs * S <= q * S
      <4>. HIDE DEF q
      <4>. QED  BY <3>0, Monotone
    <3>2. Epochs * S = Limit
      BY DEF Limit
    <3>3. q * S \in Nat
      BY <1>5
    <3>. HIDE DEF q
    <3>. QED  BY <1>0, <1>5, <1>10, <3>1, <3>2, <3>3, LimitIsStep
  <2>. QED  BY <1>5, <2>1
<1>11. ASSUME s = Limit PROVE q = Epochs
  <2>1. s = Epochs * S + 0 /\ 0 \in 0 .. S - 1 /\ Epochs \in Nat
    BY <1>11 DEF Limit
  <2>. QED  BY <1>0, <2>1, Unique
<1>12. s <= Limit
  BY LimitIsStep DEF Steps
<1>. QED  BY <1>2, <1>4, <1>7, <1>8, <1>9, <1>10, <1>11, <1>12

-----------------------------------------------------------------------------
(* Paths and directories                                                   *)

LEMMA DropPaths ==
    ASSUME NEW paths \in Seq(Steps), NEW n \in 0 .. Len(paths)
    PROVE  /\ Drop(paths, n) \in Seq(Steps)
           /\ Len(Drop(paths, n)) = Len(paths) - n
           /\ \A i \in 1 .. Len(paths) - n : Drop(paths, n)[i] = paths[i + n]
BY DEF Drop

LEMMA RemovedDirs ==
    ASSUME TypeOK, NEW gone
    PROVE  /\ Removed(gone) \in
                [Roles -> [Steps -> [Ranks -> {"absent", "torn", "whole"}]]]
           /\ \A ro \in Roles, s \in Steps : ro # role \/ s \notin gone =>
                Removed(gone)[ro][s] = shard[ro][s]
           /\ \A s \in Steps, r \in Ranks : s \in gone =>
                Removed(gone)[role][s][r] = "absent"
<1> USE DEF TypeOK
<1>1. [s \in Steps |-> IF s \in gone THEN [r \in Ranks |-> "absent"] ELSE shard[role][s]]
        \in [Steps -> [Ranks -> {"absent", "torn", "whole"}]]
  OBVIOUS
<1>. QED  BY <1>1 DEF Removed

LEMMA PathIsStep ==
    ASSUME NEW paths \in Seq(Steps), NEW i \in 1 .. Len(paths)
    PROVE  paths[i] \in Steps /\ paths[i] \in Int
<1>1. paths[i] \in Steps
  OBVIOUS
<1>2. Limit \in Nat
  BY LimitIsStep
<1>. QED  BY <1>1, <1>2 DEF Steps

\* The directories of a group are finitely many, and those of this life no more
\* than the paths rank 0 remembers, and the one being written.
LEMMA FiniteDirs ==
    ASSUME TypeOK, NEW ro \in Roles
    PROVE  /\ IsFiniteSet(Steps) /\ IsFiniteSet(OnDisk(ro)) /\ IsFiniteSet(Paths(ro))
           /\ Cardinality(Paths(ro)) <= Len(saved[ro])
           /\ Cardinality(OnDisk(ro)) \in Nat /\ Cardinality(Paths(ro)) \in Nat
<1>1. IsFiniteSet(Steps)
  BY FS_Interval, LimitIsStep DEF Steps
<1>2. OnDisk(ro) \in SUBSET Steps
  BY DEF OnDisk
<1>3. IsFiniteSet(OnDisk(ro))
  BY <1>1, <1>2, FS_Subset
<1>4. Len(saved[ro]) \in Nat /\ saved[ro] \in Seq(Steps)
  BY DEF TypeOK
<1> DEFINE I == 1 .. Len(saved[ro])
           f == [i \in I |-> saved[ro][i]]
<1>5. IsFiniteSet(I) /\ Cardinality(I) = Len(saved[ro])
  <2>1. ASSUME NEW n \in Nat PROVE IsFiniteSet(1 .. n) /\ Cardinality(1 .. n) = n
    BY FS_Interval
  <2>. QED  BY <1>4, <2>1
<1>6. f \in Surjection(I, Paths(ro))
  BY DEF Surjection, Paths
<1>7. IsFiniteSet(Paths(ro)) /\ Cardinality(Paths(ro)) <= Cardinality(I)
  <2>. HIDE DEF I, f
  <2>. QED  BY <1>5, <1>6, FS_Surjection
<1>. QED  BY <1>1, <1>3, <1>5, <1>7, FS_CardinalityType

\* Leaving less behind keeps the account of the disk.
LEMMA FewerDirs ==
    ASSUME NEW big, NEW small, IsFiniteSet(big), small \subseteq big,
           NEW n \in Nat, Cardinality(big) <= n
    PROVE  Cardinality(small) <= n
BY FS_Subset, FS_CardinalityType

-----------------------------------------------------------------------------
(* The actions                                                             *)

LEMMA InitIInv == Init => IInv
<1> SUFFICES ASSUME Init PROVE IInv
  OBVIOUS
<1> USE Assumption DEF Assumption, Init
<1>0. saved = [ro \in Roles |-> <<>>] /\ \A ro \in Roles : Len(saved[ro]) = 0
  BY DEF Nothing
<1>1. TypeOK
  <2>1. data \in [Steps -> {Absent, Torn} \cup 0 .. StepsPerEpoch] /\ "actor" \in Roles
    BY DEF Roles
  <2>2. 0 \in 0 .. Limit
    BY LimitIsStep
  <2>. QED  BY <1>0, <2>1, <2>2 DEF TypeOK, Unopened, Absent
<1>2. LoopInv /\ EndInv /\ SavedInv /\ WrittenInv /\ TrackerInv
  BY <1>0, LimitIsStep
  DEF LoopInv, EndInv, SavedInv, WrittenInv, TrackerInv, Saving, Registered, Aligned,
      Nothing, Absent, Steps
<1>3. SpaceInv
  <2>1. \A ro \in Roles : OnDisk(ro) = {}
    BY DEF OnDisk
  <2>2. \A ro \in Roles : OnDisk(ro) \ Mine(ro) = {}
    BY <2>1
  <2>3. MaxKeep > 0 => crashes * Kept = 0 /\ Kept \in Nat
    BY DEF Kept
  <2>4. \A ro \in Roles : Cardinality(OnDisk(ro) \ Mine(ro)) = 0
    BY <2>2, FS_EmptySet
  <2>5. pc # "write" /\ MaxKeep \in Nat
    OBVIOUS
  <2>. HIDE DEF Init
  <2>. QED  BY <1>0, <2>3, <2>4, <2>5 DEF SpaceInv
<1>. QED  BY <1>1, <1>2, <1>3 DEF IInv, FinalCheckpoint

\* What an action leaves alone that neither writes shards nor forgets them.
LEMMA SameSpace ==
    ASSUME IInv, UNCHANGED <<shard, role, saved, crashes>>, pc # "write", pc' # "write"
    PROVE  SpaceInv'
<1>1. \A ro \in Roles : OnDisk(ro)' = OnDisk(ro) /\ Mine(ro)' = Mine(ro)
  BY DEF OnDisk, Mine, Paths
<1>. QED  BY <1>1 DEF IInv, SpaceInv

LEMMA FromScratchKeeps == ASSUME IInv, FromScratch PROVE IInv'
<1> USE Assumption DEF Assumption, IInv, FromScratch, ResumeAt, InEpoch, disk
<1>0. step' = 0 /\ pos' = 0 /\ epoch' = 0 /\ pc' = "train" /\ tracker \notin Steps
  <2>1. 0 \div StepsPerEpoch = 0 /\ 0 < Epochs
    BY Unique
  <2>2. tracker \in Steps => FolderExists(tracker)
    BY ResumePosition DEF FolderExists, TrackerInv, Absent
  <2>. QED  BY <2>1, <2>2 DEF Steps, Absent
<1>1. TypeOK'
  <2>1. 0 \in 0 .. Limit
    BY LimitIsStep
  <2>. QED  BY <1>0, <2>1 DEF TypeOK
<1>2. LoopInv' /\ EndInv'
  <2>1. 0 < Total + crashes
    BY LimitIsStep DEF TypeOK
  <2>. QED  BY <1>0, <2>1, LimitIsStep DEF LoopInv, EndInv, Saving, Aligned
<1>3. saved = Nothing /\ \A ro \in Roles : Len(saved[ro]) = 0
  BY DEF SavedInv, Nothing
<1>4. SavedInv' /\ WrittenInv' /\ TrackerInv'
  BY <1>0, <1>3 DEF SavedInv, WrittenInv, TrackerInv, Registered
<1>. QED  BY <1>0, <1>1, <1>2, <1>4, SameSpace DEF FinalCheckpoint

LEMMA ResumeKeeps == ASSUME IInv, Resume PROVE IInv'
<1> USE Assumption DEF Assumption, IInv, Resume, Load, ResumeAt, InEpoch, disk
<1> DEFINE s == tracker
           q == tracker \div StepsPerEpoch
<1>0. s \in Steps /\ s \in Nat /\ data[s] = Position(s) /\ s < Total + crashes
  BY LimitIsStep DEF EndInv, TrackerInv, Steps
<1>1. /\ Position(s) \in 1 .. StepsPerEpoch
      /\ \E n \in 0 .. s : s = n * StepsPerEpoch + Position(s)
      /\ AtEpochEnd(s) => s = q * StepsPerEpoch
      /\ ~AtEpochEnd(s) => s = q * StepsPerEpoch + Position(s)
      /\ q \in 0 .. s /\ q \in 0 .. Epochs /\ (q < Epochs \/ s = Limit)
  <2>1. /\ s < Limit => q < Epochs
        /\ s = Limit => q = Epochs
        /\ s <= Limit /\ q \in 0 .. s
    BY <1>0, ResumePosition
  <2>2. q \in 0 .. Epochs /\ (q < Epochs \/ s = Limit)
    <3>. HIDE DEF q
    <3>. QED  BY <1>0, <2>1, LimitIsStep
  <2>. QED  BY <1>0, <2>2, ResumePosition
<1>2. pos' = IF SkipsAtEpoch /\ AtEpochEnd(s) THEN 0 ELSE Position(s)
  BY <1>0, <1>1 DEF Restored, Absent
<1>3. TypeOK'
  <2>1. q \in 0 .. Epochs /\ s \in 0 .. Limit /\ pos' \in 0 .. StepsPerEpoch
    <3>. HIDE DEF q
    <3>. QED  BY <1>0, <1>1, <1>2 DEF Steps
  <2>. QED  BY <2>1 DEF TypeOK
<1>4. LoopInv'
  <2>1. \E n \in 0 .. q : s = n * StepsPerEpoch + pos'
    <3>1. CASE SkipsAtEpoch /\ AtEpochEnd(s)
      <4>1. q \in 0 .. q /\ s = q * StepsPerEpoch + pos'
        BY <1>0, <1>1, <1>2, <3>1
      <4>. QED  BY <4>1
    <3>. QED  BY <1>1, <1>2, <3>1
  <2>2. SkipsAtEpoch => s = q * StepsPerEpoch + pos'
    BY <1>0, <1>1, <1>2
  <2>. QED  BY <1>0, <1>1, <2>1, <2>2 DEF LoopInv, Saving, Aligned
<1>7. EndInv'
  BY <1>0 DEF EndInv, Saving
<1>8. FinalCheckpoint'
  BY <1>0, <1>1, LimitIsStep DEF FinalCheckpoint, TypeOK
<1>5. saved = Nothing /\ \A ro \in Roles : Len(saved[ro]) = 0
  BY DEF SavedInv, Nothing
<1>6. SavedInv' /\ WrittenInv' /\ TrackerInv'
  BY <1>0, <1>5 DEF SavedInv, WrittenInv, TrackerInv, Registered, Saving
<1>. QED  BY <1>3, <1>4, <1>6, <1>7, <1>8, SameSpace

LEMMA LoadRaisesKeeps == ASSUME IInv, LoadRaises PROVE IInv'
<1> USE DEF IInv, LoadRaises, disk, loop
<1>1. TypeOK'
  BY DEF TypeOK
<1>2. LoopInv' /\ EndInv' /\ SavedInv' /\ WrittenInv' /\ TrackerInv'
  BY DEF LoopInv, EndInv, SavedInv, WrittenInv, TrackerInv, Registered, Saving, Aligned, Torn
<1>. QED  BY <1>1, <1>2, SameSpace DEF FinalCheckpoint

LEMMA TrainKeeps == ASSUME IInv, Train PROVE IInv'
<1> USE Assumption DEF Assumption, IInv, Train, disk
<1>0. /\ step \in Nat /\ step < Total + crashes /\ Total \in Nat /\ pos \in Nat
      /\ step' = step + 1 /\ pos' = pos + 1 /\ epoch' = epoch /\ epoch < Epochs
      /\ crashes \in Nat /\ epoch \in Nat
  BY LimitIsStep DEF TypeOK, LoopInv, EndInv
<1>1. PICK expiring \in {FALSE, Expiring} :
        pc' = IF Saves(step', expiring) THEN "prepare" ELSE "after"
  BY Zenon
<1>2. /\ pc' \in {"prepare", "after"}
      /\ pc' = "after" /\ IsLast(step') => ~(SaveFreq > 0 /\ Warmup <= Total)
  BY <1>0, <1>1 DEF Saves, IsLast
<1>10. PICK n \in 0 .. epoch : step = n * StepsPerEpoch + pos
  BY DEF LoopInv
<1>3. TypeOK'
  <2>1. n \in Nat /\ n < Epochs /\ pos \in 0 .. StepsPerEpoch - 1
    BY <1>0, <1>10 DEF TypeOK
  <2>2. step < Limit
    BY <1>10, <2>1, StepFits
  <2>3. step' \in 0 .. Limit
    BY <1>0, <2>2, LimitIsStep
  <2>. QED  BY <1>0, <1>2, <2>3 DEF TypeOK
<1>4. LoopInv'
  <2>2. n \in 0 .. epoch' /\ step' = n * StepsPerEpoch + pos'
    BY <1>0, <1>10
  <2>3. SkipsAtEpoch => step' = epoch' * StepsPerEpoch + pos'
    BY <1>0 DEF LoopInv, Aligned, TypeOK
  <2>4. epoch' < Epochs /\ step' >= 1 /\ pos' >= 1 /\ role' = "actor"
    BY <1>0, <1>2 DEF LoopInv
  <2>. QED  BY <1>2, <2>2, <2>3, <2>4 DEF LoopInv, Aligned
<1>9. EndInv'
  BY <1>0, <1>2 DEF EndInv, Saving, IsLast
<1>5. SavedInv'
  <2>1. \A ro \in Roles : ~Registered(ro)'
    BY <1>2 DEF Registered, LoopInv
  <2>2. pc' \notin {"load", "failed"} /\ saved' = saved
    BY <1>2
  <2>3. \A ro \in Roles : \A i \in 1 .. Len(saved[ro]) :
            saved[ro][i] \in Int /\ saved[ro][i] <= step /\ saved[ro][i] < step'
    <3> TAKE ro \in Roles
    <3> TAKE i \in 1 .. Len(saved[ro])
    <3>1. saved[ro] \in Seq(Steps)
      BY DEF TypeOK
    <3>2. saved[ro][i] \in Int
      BY <3>1, PathIsStep
    <3>3. saved[ro][i] <= step
      BY DEF SavedInv
    <3>. QED  BY <1>0, <3>2, <3>3
  <2>4. \A ro \in Roles : \A i \in 1 .. Len(saved[ro]) : saved[ro][i] <= step'
    BY <1>0, <2>3
  <2>. QED  BY <2>1, <2>2, <2>3, <2>4 DEF SavedInv
<1>6. WrittenInv' /\ TrackerInv'
  BY <1>0, <1>2 DEF WrittenInv, TrackerInv, Registered, LoopInv, Saving, Steps
<1>7. FinalCheckpoint'
  BY <1>2 DEF FinalCheckpoint
<1>8. SpaceInv'
  BY <1>2, SameSpace
<1>. QED  BY <1>3, <1>4, <1>5, <1>6, <1>7, <1>8, <1>9

LEMMA EndStepKeeps == ASSUME IInv, EndStep PROVE IInv'
<1> USE Assumption DEF Assumption, IInv, EndStep, disk, loop
<1>0. /\ step \in Nat /\ Total \in Nat \ {0} /\ crashes \in Nat /\ step <= Total + crashes
      /\ pc' \in {"train", "done"}
      /\ pc' = "train" => step < Total
      /\ pc' = "done" => step >= Total
  BY LimitIsStep DEF TypeOK, EndInv, IsLast
<1>1. TypeOK'
  BY <1>0 DEF TypeOK
<1>2. LoopInv' /\ SavedInv' /\ WrittenInv' /\ TrackerInv'
  BY <1>0 DEF LoopInv, SavedInv, WrittenInv, TrackerInv, Registered, Saving, Aligned
<1>3. EndInv'
  BY <1>0 DEF EndInv, Saving
<1>4. FinalCheckpoint'
  BY <1>0 DEF FinalCheckpoint, EndInv, IsLast
<1>. QED  BY <1>0, <1>1, <1>2, <1>3, <1>4, SameSpace

LEMMA NextEpochKeeps == ASSUME IInv, NextEpoch PROVE IInv'
<1> USE Assumption DEF Assumption, IInv, NextEpoch, InEpoch, disk
<1>0. /\ step \in Nat /\ step < Total + crashes /\ pos = StepsPerEpoch /\ epoch \in Nat
      /\ epoch < Epochs /\ step' = step /\ pos' = 0 /\ epoch' = epoch + 1
      /\ pc' \in {"train", "done"} /\ crashes \in Nat
      /\ pc' = "train" <=> epoch' < Epochs
  BY DEF TypeOK, LoopInv, EndInv
<1>1. SkipsAtEpoch => step = epoch' * StepsPerEpoch + pos'
  BY <1>0 DEF LoopInv, Aligned
<1>2. TypeOK'
  BY <1>0 DEF TypeOK
<1>3. LoopInv'
  <2>1. PICK n \in 0 .. epoch : step = n * StepsPerEpoch + pos
    BY DEF LoopInv
  <2>2. step' = (n + 1) * StepsPerEpoch + pos' /\ n + 1 \in Nat
    BY <1>0, <2>1
  <2>4. n + 1 \in 0 .. epoch'
    BY <1>0, <2>1
  <2>. QED  BY <1>0, <1>1, <2>2, <2>4 DEF LoopInv, Aligned, Saving
<1>4. SavedInv' /\ WrittenInv' /\ TrackerInv'
  BY <1>0 DEF SavedInv, WrittenInv, TrackerInv, Registered, Saving
<1>5. SkipsAtEpoch => FinalCheckpoint'
  <2>1. CASE SkipsAtEpoch /\ pc' = "done"
    <3>1. epoch' = Epochs
      BY <1>0, <2>1
    <3>2. step = Limit
      BY <1>0, <1>1, <2>1, <3>1 DEF Limit
    <3>3. step < Total \/ tracker = step
      BY DEF EndInv
    <3>. QED  BY <1>0, <3>2, <3>3, LimitIsStep DEF FinalCheckpoint
  <2>. QED  BY <2>1 DEF FinalCheckpoint
<1>6. SpaceInv'
  BY <1>0, SameSpace
<1>7. EndInv'
  BY <1>0 DEF EndInv, Saving
<1>. QED  BY <1>2, <1>3, <1>4, <1>5, <1>6, <1>7

LEMMA EnsureCapacityKeeps == ASSUME IInv, EnsureCapacity PROVE IInv'
<1> USE Assumption DEF Assumption, IInv, EnsureCapacity, loop
<1> DEFINE paths == saved[role]
           n     == Excess(Len(paths))
           gone  == Without(n)
<1>0. /\ paths \in Seq(Steps) /\ Len(paths) \in Nat /\ role \in Roles
      /\ shard' = Removed(gone) /\ saved' = [saved EXCEPT ![role] = Drop(paths, n)]
      /\ ~Registered(role) /\ \A ro \in Roles : Registered(ro)' <=> Registered(ro)
  BY DEF TypeOK, Registered
<1>1. n \in 0 .. Len(paths)
  BY <1>0 DEF Excess
<1>2. \/ n = 0 /\ ~(MaxKeep > 1 /\ Len(paths) >= MaxKeep)
      \/ MaxKeep > 1 /\ n < Len(paths) /\ Len(paths) - n = MaxKeep - 1
  BY <1>0 DEF Excess
<1> HIDE DEF n
<1>3. /\ saved'[role] \in Seq(Steps) /\ Len(saved'[role]) = Len(paths) - n
      /\ \A i \in 1 .. Len(paths) - n : saved'[role][i] = paths[i + n]
      /\ \A ro \in Roles : ro # role => saved'[ro] = saved[ro]
  <2>1. /\ Drop(paths, n) \in Seq(Steps) /\ Len(Drop(paths, n)) = Len(paths) - n
        /\ \A i \in 1 .. Len(paths) - n : Drop(paths, n)[i] = paths[i + n]
    BY <1>0, <1>1, DropPaths
  <2>2. saved'[role] = Drop(paths, n) /\ \A ro \in Roles : ro # role => saved'[ro] = saved[ro]
    BY <1>0 DEF TypeOK
  <2>. QED  BY <2>1, <2>2
<1>4. gone = {paths[k] : k \in 1 .. n}
  BY DEF Without
<1> HIDE DEF gone
<1>5. /\ shard' \in [Roles -> [Steps -> [Ranks -> {"absent", "torn", "whole"}]]]
      /\ \A ro \in Roles, s \in Steps : ro # role \/ s \notin gone =>
            shard'[ro][s] = shard[ro][s]
      /\ \A s \in Steps, r \in Ranks : s \in gone => shard'[role][s][r] = "absent"
  BY <1>0, RemovedDirs
<1>6. TypeOK'
  <2>1. saved' \in [Roles -> Seq(Steps)]
    BY <1>0, <1>3 DEF TypeOK
  <2>2. file' \in [Ranks -> {"unopened", "open", "closed"}]
    BY DEF Unopened
  <2>. QED  BY <1>5, <2>1, <2>2 DEF TypeOK
<1>7. LoopInv' /\ EndInv'
  BY DEF LoopInv, EndInv, Saving, Aligned
<1>8. step \in Steps /\ \A i \in 1 .. Len(paths) : paths[i] \in Steps /\ paths[i] < step
  <2>1. step \in Steps
    BY DEF LoopInv, Saving, TypeOK, Steps
  <2>2. \A i \in 1 .. Len(paths) : paths[i] \in Steps
    BY <1>0
  <2>. QED  BY <1>0, <2>1, <2>2 DEF SavedInv
<1>9. SavedInv'
  <2>1. ASSUME NEW ro \in Roles
        PROVE  /\ \A i, j \in 1 .. Len(saved'[ro]) : i < j => saved'[ro][i] < saved'[ro][j]
               /\ \A i \in 1 .. Len(saved'[ro]) :
                    saved'[ro][i] <= step /\ (~Registered(ro) => saved'[ro][i] < step)
               /\ Registered(ro) => Len(saved'[ro]) > 0 /\ saved'[ro][Len(saved'[ro])] = step
    <3>1. CASE ro = role
      <4>1. \A i \in 1 .. Len(paths) - n : i + n \in 1 .. Len(paths)
        BY <1>0, <1>1
      <4>2. \A i, j \in 1 .. Len(paths) : i < j => paths[i] < paths[j]
        BY <1>0 DEF SavedInv
      <4>3. ASSUME NEW i \in 1 .. Len(paths) - n, NEW j \in 1 .. Len(paths) - n, i < j
            PROVE  saved'[role][i] < saved'[role][j]
        <5>1. i + n < j + n
          BY <1>1, <4>3
        <5>. QED  BY <1>3, <4>1, <4>2, <5>1
      <4>4. \A i \in 1 .. Len(paths) - n : saved'[role][i] <= step /\ saved'[role][i] < step
        BY <1>3, <1>8, <4>1 DEF Steps
      <4>. QED  BY <1>0, <1>3, <3>1, <4>3, <4>4
    <3>2. CASE ro # role
      BY <1>3, <3>2 DEF SavedInv
    <3>. QED  BY <3>1, <3>2
  <2>. QED  BY <1>0, <2>1 DEF SavedInv
<1>10. WrittenInv'
  <2>1. \A ro \in Roles : Registered(ro) => shard'[ro][step] = shard[ro][step]
    BY <1>0, <1>5, <1>8
  <2>. QED  BY <1>0, <2>1 DEF WrittenInv, Unopened
<1>11. TrackerInv'
  <2>1. ASSUME tracker \in Steps, NEW ro \in Roles, NEW i \in 1 .. Len(saved'[ro])
        PROVE  saved'[ro][i] <= tracker \/ (Registered(ro) /\ saved'[ro][i] = step)
    <3>1. CASE ro = role
      <4>1. i + n \in 1 .. Len(paths) /\ saved'[ro][i] = paths[i + n]
        BY <1>0, <1>1, <1>3, <3>1
      <4>. QED  BY <2>1, <3>1, <4>1 DEF TrackerInv
    <3>2. CASE ro # role
      BY <1>3, <2>1, <3>2 DEF TrackerInv
    <3>. QED  BY <3>1, <3>2
  <2>2. ASSUME tracker \in Steps, tracker \in gone PROVE FALSE
    <3>1. PICK k \in 1 .. n : paths[k] = tracker
      BY <1>4, <2>2
    <3>2. k \in 1 .. Len(paths) /\ k + 1 \in 1 .. Len(paths) /\ k < k + 1
      BY <1>0, <1>1, <1>2
    <3>3. paths[k] < paths[k + 1]
      BY <1>0, <3>2 DEF SavedInv
    <3>4. paths[k + 1] <= tracker
      BY <1>0, <1>8, <2>2, <3>2 DEF TrackerInv
    <3>. QED  BY <1>8, <3>1, <3>2, <3>3, <3>4 DEF Steps
  <2>3. tracker \in Steps => \A ro \in Roles : shard'[ro][tracker] = shard[ro][tracker]
    BY <1>5, <2>2
  <2>. QED  BY <1>0, <2>1, <2>3 DEF TrackerInv, Saving
<1>12. SpaceInv'
  <2> SUFFICES ASSUME MaxKeep > 0, NEW ro \in Roles
               PROVE  /\ Len(saved'[ro]) <= MaxKeep
                      /\ role = ro => Len(saved'[ro]) + 1 <= Kept
                      /\ Cardinality(OnDisk(ro)' \ Mine(ro)') <= crashes * Kept
    BY DEF SpaceInv, Kept
  <2>1. Len(saved'[ro]) <= MaxKeep /\ (role = ro => Len(saved'[ro]) + 1 <= Kept)
    <3>1. Len(saved[ro]) <= MaxKeep /\ Len(saved[ro]) \in Nat
      <4>1. Len(saved[ro]) <= MaxKeep
        BY DEF SpaceInv
      <4>. QED  BY <4>1 DEF TypeOK
    <3>2. CASE ro = role
      BY <1>0, <1>1, <1>2, <1>3, <3>1, <3>2 DEF Kept
    <3>. QED  BY <1>3, <3>1, <3>2
  <2>2. OnDisk(ro)' \ Mine(ro)' \subseteq OnDisk(ro) \ Mine(ro)
    <3>1. CASE ro # role
      <4>1. saved'[ro] = saved[ro] /\ \A s \in Steps : shard'[ro][s] = shard[ro][s]
        BY <1>3, <1>5, <3>1
      <4>2. OnDisk(ro)' = OnDisk(ro) /\ Paths(ro)' = Paths(ro)
        BY <4>1 DEF OnDisk, Paths
      <4>3. Mine(ro)' = Mine(ro)
        BY <3>1, <4>2 DEF Mine
      <4>. QED  BY <4>2, <4>3
    <3>2. CASE ro = role
      <4>1. ASSUME NEW s \in OnDisk(ro)', s \notin Mine(ro)'
            PROVE  s \in OnDisk(ro) /\ s \notin Mine(ro)
        <5>1. s \in Steps /\ \E r \in Ranks : shard'[ro][s][r] # "absent"
          BY <4>1 DEF OnDisk
        <5>2. s \notin gone
          BY <1>5, <3>2, <5>1
        <5>3. s \in OnDisk(ro)
          BY <1>5, <5>1, <5>2 DEF OnDisk
        <5>4. ASSUME NEW i \in 1 .. Len(paths), s = paths[i] PROVE FALSE
          <6>1. CASE i <= n
            BY <1>0, <1>1, <1>4, <5>2, <5>4, <6>1
          <6>2. CASE i > n
            <7>1. i - n \in 1 .. Len(paths) - n /\ (i - n) + n = i
              BY <1>0, <1>1, <6>2
            <7>2. saved'[role][i - n] = s /\ i - n \in 1 .. Len(saved'[role])
              BY <1>3, <5>4, <7>1
            <7>. QED  BY <3>2, <4>1, <7>2 DEF Mine, Paths
          <6>. QED  BY <1>0, <1>1, <6>1, <6>2
        <5>. QED  BY <3>2, <5>3, <5>4 DEF Mine, Paths
      <4>. QED  BY <4>1
    <3>. QED  BY <3>1, <3>2
  <2>3. crashes * Kept \in Nat
    BY DEF TypeOK, Kept
  <2>4. IsFiniteSet(OnDisk(ro) \ Mine(ro))
    BY FiniteDirs, FS_Subset
  <2>5. Cardinality(OnDisk(ro) \ Mine(ro)) <= crashes * Kept
    BY DEF SpaceInv
  <2>. QED  BY <2>1, <2>2, <2>3, <2>4, <2>5, FewerDirs
<1>. QED  BY <1>6, <1>7, <1>9, <1>10, <1>11, <1>12 DEF FinalCheckpoint

LEMMA WriteKeeps ==
    ASSUME IInv, NEW r \in Ranks, NEW from \in {"unopened", "open"},
           NEW to, NEW content, Write(r, from, to, content),
           <<to, content>> \in {<<"open", "torn">>, <<"closed", "whole">>}
    PROVE  IInv'
<1> USE Assumption DEF Assumption, IInv, Write, loop
<1>0. /\ step \in Steps /\ role \in Roles /\ ~Registered(role) /\ step \in Int
      /\ \A ro \in Roles : Registered(ro)' <=> Registered(ro)
      /\ to \in {"open", "closed"} /\ content \in {"torn", "whole"}
      /\ to = "closed" => content = "whole"
  BY DEF TypeOK, Registered, LoopInv, Saving, Steps
<1>1. /\ shard'[role][step][r] = content
      /\ \A ro \in Roles, s \in Steps, q \in Ranks :
            <<ro, s, q>> # <<role, step, r>> => shard'[ro][s][q] = shard[ro][s][q]
  BY <1>0 DEF TypeOK
<1>2. TypeOK'
  BY <1>0 DEF TypeOK
<1>3. LoopInv' /\ EndInv' /\ SavedInv'
  BY <1>0 DEF LoopInv, EndInv, SavedInv, Saving, Aligned
<1>4. WrittenInv'
  <2>1. \A q \in Ranks : file'[q] = "closed" => shard'[role][step][q] = "whole"
    BY <1>0, <1>1 DEF WrittenInv, TypeOK
  <2>2. \A ro \in Roles, q \in Ranks : Registered(ro) => shard'[ro][step][q] = "whole"
    BY <1>0, <1>1 DEF WrittenInv
  <2>. QED  BY <1>0, <2>1, <2>2 DEF WrittenInv
<1>5. TrackerInv'
  <2>1. tracker \in Steps => tracker # step
    BY <1>0 DEF TrackerInv, Saving, Steps
  <2>2. tracker \in Steps => \A ro \in Roles, q \in Ranks :
            shard'[ro][tracker][q] = shard[ro][tracker][q]
    BY <1>1, <2>1
  <2>. QED  BY <1>0, <2>2 DEF TrackerInv, Saving
<1>6. SpaceInv'
  <2> SUFFICES ASSUME MaxKeep > 0, NEW ro \in Roles
               PROVE  Cardinality(OnDisk(ro)' \ Mine(ro)') <= crashes * Kept
    BY DEF SpaceInv, Kept
  <2>1. Mine(ro)' = Mine(ro)
    BY DEF Mine, Paths
  <2>2. OnDisk(ro)' \ Mine(ro) \subseteq OnDisk(ro) \ Mine(ro)
    BY <1>1 DEF OnDisk, Mine
  <2>3. crashes * Kept \in Nat
    BY DEF TypeOK, Kept
  <2>4. IsFiniteSet(OnDisk(ro) \ Mine(ro))
    BY FiniteDirs, FS_Subset
  <2>5. Cardinality(OnDisk(ro) \ Mine(ro)) <= crashes * Kept
    BY DEF SpaceInv
  <2>. QED  BY <2>1, <2>2, <2>3, <2>4, <2>5, FewerDirs
<1>. QED  BY <1>2, <1>3, <1>4, <1>5, <1>6 DEF FinalCheckpoint

LEMMA RegisterKeeps == ASSUME IInv, Register PROVE IInv'
<1> USE Assumption DEF Assumption, IInv, Register, loop
<1> DEFINE old   == saved[role]
           paths == Append(old, step)
           n     == IF MaxKeep > 0 /\ Len(paths) > MaxKeep THEN Len(paths) - MaxKeep ELSE 0
           gone  == {paths[k] : k \in 1 .. n}
<1>0. /\ old \in Seq(Steps) /\ role \in Roles /\ step \in Steps /\ ~Registered(role)
      /\ shard' = Removed(gone) /\ saved' = [saved EXCEPT ![role] = Drop(paths, n)]
  BY DEF TypeOK, Registered, LoopInv, Saving, Steps
<1>1. /\ paths \in Seq(Steps) /\ Len(paths) = Len(old) + 1 /\ Len(old) \in Nat
      /\ paths[Len(paths)] = step /\ \A i \in 1 .. Len(old) : paths[i] = old[i]
  BY <1>0
<1> HIDE DEF paths
<1>2. /\ n \in 0 .. Len(old)
      /\ n = 0 \/ (MaxKeep > 0 /\ Len(paths) - n = MaxKeep)
      /\ MaxKeep > 0 => Len(paths) - n <= MaxKeep
  BY <1>1
<1>3. MaxKeep > 1 => n = 0
  <2>1. MaxKeep > 1 => Len(old) + 1 <= MaxKeep
    <3>1. MaxKeep > 0 => Len(old) + 1 <= Kept
      BY <1>0 DEF SpaceInv
    <3>. QED  BY <3>1 DEF Kept
  <2>. QED  BY <1>1, <2>1
<1> HIDE DEF n
<1>4. /\ saved'[role] \in Seq(Steps) /\ Len(saved'[role]) = Len(paths) - n
      /\ \A i \in 1 .. Len(paths) - n : saved'[role][i] = paths[i + n]
      /\ \A ro \in Roles : ro # role => saved'[ro] = saved[ro]
  <2>1. /\ Drop(paths, n) \in Seq(Steps) /\ Len(Drop(paths, n)) = Len(paths) - n
        /\ \A i \in 1 .. Len(paths) - n : Drop(paths, n)[i] = paths[i + n]
    <3>1. n \in 0 .. Len(paths)
      BY <1>1, <1>2
    <3>. QED  BY <1>1, <3>1, DropPaths
  <2>2. saved'[role] = Drop(paths, n) /\ \A ro \in Roles : ro # role => saved'[ro] = saved[ro]
    BY <1>0 DEF TypeOK
  <2>. QED  BY <2>1, <2>2
<1>5. \A i \in 1 .. Len(old) : old[i] \in Steps /\ old[i] < step
  BY <1>0 DEF SavedInv
<1>6. \A s \in gone : s < step
  <2>1. ASSUME NEW k \in 1 .. n PROVE paths[k] < step
    <3>1. k \in 1 .. Len(old)
      BY <1>1, <1>2
    <3>. QED  BY <1>1, <1>5, <3>1
  <2>. QED  BY <2>1
<1>7. MaxKeep # 1 => gone = {}
  BY <1>2, <1>3
<1> HIDE DEF gone
<1>8. /\ shard' \in [Roles -> [Steps -> [Ranks -> {"absent", "torn", "whole"}]]]
      /\ \A ro \in Roles, s \in Steps : ro # role \/ s \notin gone =>
            shard'[ro][s] = shard[ro][s]
      /\ \A s \in Steps, r \in Ranks : s \in gone => shard'[role][s][r] = "absent"
  <2>1. shard' = Removed(gone) /\ TypeOK
    BY <1>0
  <2>. HIDE DEF Register, IInv
  <2>. QED  BY <2>1, RemovedDirs
<1>9. /\ role' \in Roles /\ pc' \in {"prepare", "data"}
      /\ pc' = "prepare" => role = "actor" /\ role' = "critic"
      /\ pc' = "data" => role' = "actor" /\ (role = "critic" \/ ~UseCritic)
  <2>1. role \in {"actor", "critic"} /\ (role = "critic" => UseCritic)
    BY <1>0 DEF Roles
  <2>2. \/ UseCritic /\ role = "actor" /\ role' = "critic" /\ pc' = "prepare"
        \/ ~(UseCritic /\ role = "actor") /\ role' = "actor" /\ pc' = "data"
    BY <1>0
  <2>. QED  BY <2>1, <2>2 DEF Roles
<1>10. \A ro \in Roles : Registered(ro)' <=> (ro = role \/ Registered(ro))
  BY <1>0, <1>9 DEF Registered, Roles
<1>11. TypeOK'
  BY <1>0, <1>4, <1>8, <1>9 DEF TypeOK
<1>12. LoopInv' /\ EndInv'
  BY <1>9 DEF LoopInv, EndInv, Saving, Aligned
<1>13. SavedInv'
  <2>1. ASSUME NEW ro \in Roles
        PROVE  /\ \A i, j \in 1 .. Len(saved'[ro]) : i < j => saved'[ro][i] < saved'[ro][j]
               /\ \A i \in 1 .. Len(saved'[ro]) :
                    saved'[ro][i] <= step /\ (~Registered(ro)' => saved'[ro][i] < step)
               /\ Registered(ro)' => Len(saved'[ro]) > 0 /\ saved'[ro][Len(saved'[ro])] = step
    <3>1. CASE ro = role
      <4>1. \A i, j \in 1 .. Len(old) : i < j => old[i] < old[j]
        BY <1>0 DEF SavedInv
      <4>2. \A i, j \in 1 .. Len(paths) : i < j => paths[i] < paths[j]
        BY <1>1, <1>5, <4>1
      <4>3. \A i \in 1 .. Len(paths) : paths[i] <= step
        BY <1>0, <1>1, <1>5 DEF Steps
      <4>4. \A i \in 1 .. Len(paths) - n : i + n \in 1 .. Len(paths)
        BY <1>1, <1>2
      <4>5. \A i, j \in 1 .. Len(paths) - n : i < j => saved'[role][i] < saved'[role][j]
        <5> TAKE i, j \in 1 .. Len(paths) - n
        <5>1. i < j => i + n < j + n
          BY <1>2
        <5>. QED  BY <1>4, <4>2, <4>4, <5>1
      <4>6. \A i \in 1 .. Len(paths) - n : saved'[role][i] <= step
        BY <1>4, <4>3, <4>4
      <4>7. Len(paths) - n > 0 /\ saved'[role][Len(paths) - n] = step
        <5>1. Len(paths) - n \in 1 .. Len(paths) - n /\ Len(paths) - n + n = Len(paths)
          BY <1>1, <1>2
        <5>. QED  BY <1>1, <1>4, <5>1
      <4>. QED  BY <1>4, <1>10, <3>1, <4>5, <4>6, <4>7
    <3>2. CASE ro # role
      BY <1>4, <1>10, <3>2 DEF SavedInv
    <3>. QED  BY <3>1, <3>2
  <2>. QED  BY <1>9, <2>1 DEF SavedInv
<1>14. WrittenInv'
  <2>1. \A ro \in Roles : shard'[ro][step] = shard[ro][step]
    <3>1. step \notin gone
      BY <1>0, <1>6 DEF Steps
    <3>. QED  BY <1>0, <1>8, <3>1
  <2>2. \A ro \in Roles, r \in Ranks : Registered(ro)' => shard[ro][step][r] = "whole"
    BY <1>10 DEF WrittenInv, AllWritten
  <2>. QED  BY <1>9, <2>1, <2>2 DEF WrittenInv
<1>15. TrackerInv'
  <2>1. ASSUME tracker \in Steps, NEW ro \in Roles, NEW i \in 1 .. Len(saved'[ro])
        PROVE  saved'[ro][i] <= tracker \/ (Registered(ro)' /\ saved'[ro][i] = step)
    <3>1. CASE ro = role
      <4>1. i + n \in 1 .. Len(paths) /\ saved'[ro][i] = paths[i + n]
        BY <1>1, <1>2, <1>4, <3>1
      <4>2. CASE i + n = Len(paths)
        BY <1>1, <1>10, <3>1, <4>1, <4>2
      <4>3. CASE i + n # Len(paths)
        <5>0. i + n \in 1 .. Len(old)
          BY <1>1, <1>2, <4>1, <4>3
        <5>1. i + n \in 1 .. Len(old) /\ saved'[ro][i] = old[i + n]
          BY <1>1, <4>1, <5>0
        <5>. QED  BY <1>0, <2>1, <3>1, <5>1 DEF TrackerInv
      <4>. QED  BY <4>2, <4>3
    <3>2. CASE ro # role
      BY <1>4, <1>10, <2>1, <3>2 DEF TrackerInv
    <3>. QED  BY <3>1, <3>2
  <2>2. tracker \in Steps /\ MaxKeep # 1 =>
            \A ro \in Roles : shard'[ro][tracker] = shard[ro][tracker]
    BY <1>7, <1>8
  <2>. QED  BY <1>9, <2>1, <2>2 DEF TrackerInv, Saving
<1>16. SpaceInv'
  <2> SUFFICES ASSUME MaxKeep > 0, NEW ro \in Roles
               PROVE  /\ Len(saved'[ro]) <= MaxKeep
                      /\ Cardinality(OnDisk(ro)' \ Mine(ro)') <= crashes * Kept
    BY <1>9 DEF SpaceInv, Kept
  <2>1. Len(saved'[ro]) <= MaxKeep
    <3>1. Len(saved[ro]) <= MaxKeep
      BY DEF SpaceInv
    <3>. QED  BY <1>2, <1>4, <3>1
  <2>2. OnDisk(ro)' \ Mine(ro)' \subseteq OnDisk(ro) \ Mine(ro)
    <3>1. CASE ro # role
      <4>1. OnDisk(ro)' = OnDisk(ro)
        BY <1>8, <3>1 DEF OnDisk
      <4>2. Mine(ro)' = Mine(ro)
        BY <1>4, <1>9, <3>1 DEF Mine, Paths
      <4>. QED  BY <4>1, <4>2
    <3>2. CASE ro = role
      <4>1. ASSUME NEW s \in OnDisk(ro)', s \notin Mine(ro)'
            PROVE  s \in OnDisk(ro) /\ s \notin Mine(ro)
        <5>1. s \in Steps /\ \E r \in Ranks : shard'[ro][s][r] # "absent"
          BY <4>1 DEF OnDisk
        <5>2. s \notin gone
          BY <1>8, <3>2, <5>1
        <5>3. s \in OnDisk(ro)
          BY <1>8, <5>1, <5>2 DEF OnDisk
        <5>4. ASSUME NEW i \in 1 .. Len(paths), s = paths[i] PROVE FALSE
          <6>1. CASE i <= n
            BY <1>1, <1>2, <5>2, <5>4, <6>1 DEF gone
          <6>2. CASE i > n
            <7>1. i - n \in 1 .. Len(paths) - n /\ (i - n) + n = i
              BY <1>1, <1>2, <6>2
            <7>2. saved'[role][i - n] = s /\ i - n \in 1 .. Len(saved'[role])
              BY <1>4, <5>4, <7>1
            <7>. QED  BY <3>2, <4>1, <7>2 DEF Mine, Paths
          <6>. QED  BY <1>1, <1>2, <6>1, <6>2
        <5>5. Mine(ro) \subseteq {paths[i] : i \in 1 .. Len(paths)}
          BY <1>1, <3>2 DEF Mine, Paths
        <5>. QED  BY <5>3, <5>4, <5>5
      <4>. QED  BY <4>1
    <3>. QED  BY <3>1, <3>2
  <2>3. crashes * Kept \in Nat
    BY DEF TypeOK, Kept
  <2>4. IsFiniteSet(OnDisk(ro) \ Mine(ro))
    BY FiniteDirs, FS_Subset
  <2>5. Cardinality(OnDisk(ro) \ Mine(ro)) <= crashes * Kept
    BY DEF SpaceInv
  <2>. QED  BY <2>1, <2>2, <2>3, <2>4, <2>5, FewerDirs
<1>. QED  BY <1>9, <1>11, <1>12, <1>13, <1>14, <1>15, <1>16 DEF FinalCheckpoint

LEMMA DataKeeps == ASSUME IInv, OpenData \/ WriteData PROVE IInv'
<1> USE Assumption DEF Assumption, IInv, loop
<1>0. /\ step \in Steps /\ step \in Int /\ pos \in 1 .. StepsPerEpoch
      /\ \A ro \in Roles : Registered(ro) /\ Registered(ro)'
      /\ \A s \in Steps : s # step => data'[s] = data[s]
      /\ pc \in {"data", "served"} /\ pc' \in {"served", "tracker"}
      /\ pc' = "tracker" => data'[step] = pos
      /\ UNCHANGED <<shard, tracker, role, file, step, epoch, pos, saved, crashes>>
  <2>1. step \in Steps /\ step \in Int /\ pos \in 1 .. StepsPerEpoch
    BY DEF OpenData, WriteData, TypeOK, LoopInv, Saving, Steps
  <2>2. CASE OpenData
    BY <2>1, <2>2 DEF OpenData, Registered, TypeOK
  <2>3. CASE WriteData
    BY <2>1, <2>3 DEF WriteData, Registered, TypeOK
  <2>. QED  BY <2>2, <2>3
<1>1. TypeOK'
  BY <1>0 DEF OpenData, WriteData, TypeOK
<1>2. LoopInv' /\ EndInv' /\ SavedInv' /\ WrittenInv'
  BY <1>0 DEF LoopInv, EndInv, SavedInv, WrittenInv, Saving, Aligned
<1>3. TrackerInv'
  <2>1. tracker \in Steps => tracker < step
    BY <1>0 DEF TrackerInv, Saving
  <2>2. tracker \in Steps => data'[tracker] = data[tracker]
    BY <1>0, <2>1 DEF Steps
  <2>. QED  BY <1>0, <2>2 DEF TrackerInv, Saving, Position
<1>4. SpaceInv'
  BY <1>0, SameSpace
<1>. QED  BY <1>0, <1>1, <1>2, <1>3, <1>4 DEF FinalCheckpoint

LEMMA OpenTrackerKeeps == ASSUME IInv, OpenTracker PROVE IInv'
<1> USE Assumption DEF Assumption, IInv, OpenTracker, loop
<1>0. Torn \notin Steps /\ \A ro \in Roles : Registered(ro) /\ Registered(ro)'
  BY DEF Torn, Steps, Registered
<1>1. TypeOK'
  BY DEF TypeOK
<1>2. LoopInv' /\ EndInv' /\ SavedInv' /\ WrittenInv' /\ TrackerInv'
  BY <1>0 DEF LoopInv, EndInv, SavedInv, WrittenInv, TrackerInv, Saving, Aligned
<1>. QED  BY <1>1, <1>2, SameSpace DEF FinalCheckpoint

LEMMA WriteTrackerKeeps == ASSUME IInv, WriteTracker PROVE IInv'
<1> USE Assumption DEF Assumption, IInv, WriteTracker, loop
<1>0. /\ step \in Steps /\ step \in Nat /\ pos \in 1 .. StepsPerEpoch /\ data[step] = pos
      /\ epoch \in Nat /\ tracker' = step /\ step <= Total + crashes
      /\ \A ro \in Roles : Registered(ro)
  BY DEF TypeOK, LoopInv, EndInv, WrittenInv, Saving, Steps, Registered
<1>1. pc' = "after"
  OBVIOUS
<1>2. PICK n \in 0 .. epoch : step = n * StepsPerEpoch + pos
  BY DEF LoopInv
<1>3. Position(step) = pos
  <2>0. n \in Nat
    BY <1>0
  <2>1. Position(n * StepsPerEpoch + pos) = pos
    BY <1>0, <2>0, PositionOf
  <2>. QED  BY <1>2, <2>1
<1>4. \A ro \in Roles : ~Registered(ro)' /\ role = "actor"
  BY <1>1 DEF Registered, LoopInv
<1>5. TypeOK'
  BY <1>0, <1>1 DEF TypeOK
<1>6. LoopInv' /\ EndInv'
  BY <1>0, <1>1, <1>4 DEF LoopInv, EndInv, Saving, Aligned
<1>7. SavedInv' /\ WrittenInv'
  BY <1>1, <1>4 DEF SavedInv, WrittenInv
<1>8. TrackerInv'
  <2>1. \A ro \in Roles : \A i \in 1 .. Len(saved[ro]) : saved[ro][i] <= step
    BY DEF SavedInv
  <2>2. \A ro \in Roles, r \in Ranks : shard[ro][step][r] = "whole"
    BY <1>0 DEF WrittenInv
  <2>. QED  BY <1>0, <1>1, <1>3, <2>1, <2>2 DEF TrackerInv, Saving, Position
<1>9. SpaceInv'
  BY <1>1, SameSpace
<1>. QED  BY <1>0, <1>1, <1>5, <1>6, <1>7, <1>8, <1>9 DEF FinalCheckpoint

\* One life adds what it may keep to what the others have left.
LEMMA LifeAdds ==
    ASSUME IInv, MaxKeep > 0, NEW ro \in Roles
    PROVE  Cardinality(OnDisk(ro)) <= (crashes + 1) * Kept
<1> USE Assumption DEF Assumption, IInv
<1> DEFINE old == OnDisk(ro) \ Mine(ro)
<1>0. Kept \in Nat /\ MaxKeep <= Kept /\ crashes \in Nat
  BY DEF Kept, TypeOK
<1>1. /\ IsFiniteSet(OnDisk(ro)) /\ IsFiniteSet(Paths(ro))
      /\ Cardinality(Paths(ro)) <= Len(saved[ro]) /\ Cardinality(Paths(ro)) \in Nat
  BY FiniteDirs
<1>2. Len(saved[ro]) \in Nat
  BY DEF TypeOK
<1>3. /\ Len(saved[ro]) <= MaxKeep /\ Cardinality(old) <= crashes * Kept
      /\ pc = "write" /\ role = ro => Len(saved[ro]) + 1 <= Kept
  BY DEF SpaceInv
<1>4. IsFiniteSet(Mine(ro)) /\ Cardinality(Mine(ro)) <= Kept
  <2>1. CASE pc = "write" /\ role = ro
    <3>1. Mine(ro) = Paths(ro) \cup {step}
      BY <2>1 DEF Mine
    <3>2. /\ IsFiniteSet(Mine(ro))
          /\ Cardinality(Mine(ro)) = IF step \in Paths(ro) THEN Cardinality(Paths(ro))
                                     ELSE Cardinality(Paths(ro)) + 1
      BY <1>1, <3>1, FS_AddElement
    <3>. QED  BY <1>0, <1>1, <1>2, <1>3, <2>1, <3>2
  <2>2. CASE ~(pc = "write" /\ role = ro)
    <3>1. Mine(ro) = Paths(ro)
      BY <2>2 DEF Mine
    <3>. QED  BY <1>0, <1>1, <1>2, <1>3, <3>1
  <2>. QED  BY <2>1, <2>2
<1>5. IsFiniteSet(old)
  BY <1>1, FS_Subset
<1>6. /\ IsFiniteSet(old \cup Mine(ro))
      /\ Cardinality(old \cup Mine(ro))
            = Cardinality(old) + Cardinality(Mine(ro)) - Cardinality(old \cap Mine(ro))
  BY <1>4, <1>5, FS_Union
<1>7. Cardinality(old \cap Mine(ro)) = 0
  BY FS_EmptySet
<1>8. Cardinality(OnDisk(ro)) <= Cardinality(old \cup Mine(ro))
  BY <1>6, FS_Subset
<1>9. /\ Cardinality(OnDisk(ro)) \in Nat /\ Cardinality(old) \in Nat
      /\ Cardinality(Mine(ro)) \in Nat
  BY <1>1, <1>4, <1>5, FS_CardinalityType
<1>10. (crashes + 1) * Kept = crashes * Kept + Kept /\ crashes * Kept \in Nat
  BY <1>0
<1> HIDE DEF old, IInv
<1>. QED  BY <1>0, <1>3, <1>4, <1>6, <1>7, <1>8, <1>9, <1>10

LEMMA CrashKeeps == ASSUME IInv, Crash PROVE IInv'
<1> USE Assumption DEF Assumption, IInv, Crash, disk
<1>0. /\ \A ro \in Roles : saved'[ro] = <<>> /\ Len(saved'[ro]) = 0 /\ ~Registered(ro)'
      /\ 0 \in 0 .. Limit /\ "actor" \in Roles /\ crashes' = crashes + 1 /\ crashes \in Nat
  BY LimitIsStep DEF Nothing, Registered, Roles, TypeOK
<1>1. TypeOK'
  <2>1. saved' \in [Roles -> Seq(Steps)]
    BY DEF Nothing
  <2>. QED  BY <1>0, <2>1 DEF TypeOK, Unopened
<1>2. LoopInv' /\ EndInv' /\ SavedInv' /\ WrittenInv' /\ TrackerInv'
  <2>1. tracker \in Steps => tracker < Total + crashes'
    BY <1>0, LimitIsStep DEF EndInv, Steps
  <2>. QED  BY <1>0, <2>1
       DEF LoopInv, EndInv, SavedInv, WrittenInv, TrackerInv, Saving, Steps, Aligned
<1>3. SpaceInv'
  <2> SUFFICES ASSUME MaxKeep > 0, NEW ro \in Roles
               PROVE  Cardinality(OnDisk(ro)' \ Mine(ro)') <= crashes' * Kept
    BY <1>0 DEF SpaceInv, Kept
  <2>1. OnDisk(ro)' = OnDisk(ro) /\ Mine(ro)' = {}
    BY <1>0 DEF OnDisk, Mine, Paths
  <2>2. OnDisk(ro)' \ Mine(ro)' = OnDisk(ro)
    BY <2>1
  <2>. QED  BY <1>0, <2>2, LifeAdds
<1>. QED  BY <1>1, <1>2, <1>3 DEF FinalCheckpoint

LEMMA StutterKeeps == ASSUME IInv, UNCHANGED vars PROVE IInv'
<1> USE DEF IInv, vars, disk, loop
<1>1. TypeOK' /\ LoopInv' /\ EndInv' /\ SavedInv'
  BY DEF TypeOK, LoopInv, EndInv, SavedInv, Saving, Registered, Aligned
<1>2. WrittenInv' /\ TrackerInv'
  BY DEF WrittenInv, TrackerInv, Saving, Registered, Position
<1>3. SpaceInv'
  <2>1. \A ro \in Roles : OnDisk(ro)' = OnDisk(ro) /\ Mine(ro)' = Mine(ro)
    BY DEF Mine, Paths, OnDisk
  <2>. QED  BY <2>1 DEF SpaceInv
<1>. QED  BY <1>1, <1>2, <1>3 DEF FinalCheckpoint

-----------------------------------------------------------------------------
(* What follows                                                            *)

\* The invariant survives training, saving, rotation, a kill anywhere and what
\* the next life finds on disk.
THEOREM Inductive == Spec => []IInv
<1>1. Init => IInv
  BY InitIInv
<1>2. IInv /\ [Next]_vars => IInv'
  <2> SUFFICES ASSUME IInv, [Next]_vars PROVE IInv'
    OBVIOUS
  <2>1. CASE FromScratch \/ Resume \/ LoadRaises
    BY <2>1, FromScratchKeeps, ResumeKeeps, LoadRaisesKeeps
  <2>2. CASE Train \/ EndStep \/ NextEpoch
    BY <2>2, TrainKeeps, EndStepKeeps, NextEpochKeeps
  <2>3. CASE EnsureCapacity \/ Register
    BY <2>3, EnsureCapacityKeeps, RegisterKeeps
  <2>4. ASSUME NEW r \in Ranks, OpenShard(r) \/ CloseShard(r) PROVE IInv'
    BY <2>4, WriteKeeps DEF OpenShard, CloseShard
  <2>5. CASE OpenData \/ WriteData
    BY <2>5, DataKeeps
  <2>6. CASE OpenTracker \/ WriteTracker
    BY <2>6, OpenTrackerKeeps, WriteTrackerKeeps
  <2>7. CASE Crash
    BY <2>7, CrashKeeps
  <2>8. CASE Stop \/ UNCHANGED vars
    BY <2>8, StutterKeeps DEF Stop
  <2>. QED  BY <2>1, <2>2, <2>3, <2>4, <2>5, <2>6, <2>7, <2>8 DEF Next
<1>. QED  BY <1>1, <1>2, PTL DEF Spec

\* The state is well typed: training never runs past the last step or the last
\* epoch, and the dataloader's position stays within it.
THEOREM TypeCorrect == Spec => []TypeOK
<1>1. IInv => TypeOK
  BY DEF IInv
<1>. QED  BY <1>1, Inductive, PTL

\* Unless a group keeps a single checkpoint, the checkpoint named by the tracker
\* is whole on every rank of every group, with the dataloader's position of its
\* step: at every instant at which the job may be killed.
THEOREM AlwaysResumable == ASSUME MaxKeep # 1 PROVE Spec => []Resumable
<1>1. IInv => Resumable
  <2> SUFFICES ASSUME IInv, tracker \in Steps
               PROVE  Readable(tracker) /\ data[tracker] = Position(tracker)
    BY DEF Resumable, Position
  <2>1. data[tracker] = Position(tracker) /\ Position(tracker) \in 1 .. StepsPerEpoch
    BY ResumePosition DEF IInv, TrackerInv
  <2>2. data[tracker] # Torn
    BY <2>1, Assumption DEF Torn, Assumption
  <2>. QED  BY <2>1, <2>2, MaxKeep # 1 DEF IInv, TrackerInv, Readable
<1>. QED  BY <1>1, Inductive, PTL

\* With the trainer that skips the dataloader at the end of an epoch, step s
\* trains on batch s, through any number of kills and resumes.
THEOREM StepsAligned == ASSUME SkipsAtEpoch PROVE Spec => []Aligned
<1>1. IInv => Aligned
  BY SkipsAtEpoch DEF IInv, LoopInv
<1>. QED  BY <1>1, Inductive, PTL

\* A run of that trainer ends after its last step or its last epoch.  With epochs
\* enough for total_training_steps, what it ends with is on disk and named by the
\* tracker, however often it was killed, also between its last save and its end.
THEOREM EndsWithCheckpoint == ASSUME SkipsAtEpoch PROVE Spec => []FinalCheckpoint
<1>1. IInv => FinalCheckpoint
  BY SkipsAtEpoch DEF IInv
<1>. QED  BY <1>1, Inductive, PTL

\* Each life leaves at most max_ckpt_to_keep checkpoints of a group on disk, two
\* if it keeps one.
THEOREM DiskIsBounded == Spec => []DiskBound
<1>1. IInv => DiskBound
  BY LifeAdds DEF DiskBound, Kept
<1>. QED  BY <1>1, Inductive, PTL
=============================================================================
