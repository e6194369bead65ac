------------------------ MODULE CheckpointingProofs ------------------------
(***************************************************************************)
(* Theorems about the checkpoints: the one the tracker names is whole and  *)
(* can be loaded, for any number of ranks, steps and crashes.              *)
(*                                                                         *)
(* TrackedWhole is not inductive alone: that no write touches the tracked  *)
(* folder needs that a run is always past the tracked step (Ahead), that   *)
(* rotation spares it needs that it is the last of the paths a run         *)
(* remembers (Remembered), and that the tracker may be moved needs what    *)
(* the writes before it have left (Phases).                                *)
(*                                                                         *)
(* Three further invariants build on it: that what is on disk and in memory*)
(* depends on the number of steps alone (UInv), that no more than SaveFreq *)
(* steps lie between the tracker and the training (Regular), and, needing  *)
(* nothing of the others, that a run remembers what it has written (Known).*)
(***************************************************************************)
EXTENDS Checkpointing, FiniteSetTheorems, TLAPS

(* What the theorems assume of the configuration.  One checkpoint kept is  *)
(* none while the next is written; the other resume modes go back to a     *)
(* step before the tracked one and overwrite it.                           *)
Careful == Keep # 1 /\ Modes \subseteq {"auto"}

(* Part p has been saved in this round, and rank 0 remembers it. *)
SavedNow(p) ==
  \/ at \in {"data", "tracker"}
  \/ at \in {"rotate", "shards"} /\ part = "critic" /\ p = "actor"

Last(paths) == paths[Len(paths)]

Ahead ==
  /\ part \in PartsSaved
  /\ at \in Working =>
       runs > 0 /\ step > 0 /\ tracker # TornTracker /\ tracker < step

Remembered ==
  at \in Working => \A p \in PartsSaved :
    /\ \A i, j \in DOMAIN saved[p] : i < j => saved[p][i] < saved[p][j]
    /\ saved[p] # <<>> => Last(saved[p]) = IF SavedNow(p) THEN step ELSE tracker

Phases ==
  /\ \A p \in PartsSaved : SavedNow(p) => \A r \in Ranks : shards[step][p][r].by = runs
  /\ at = "shards" => \A r \in Ranks \ pending : shards[step][part][r].by = runs
  /\ at = "tracker" => data[step].by = runs

IInv == TypeOK /\ Ahead /\ Remembered /\ Phases /\ TrackedWhole /\ FailsOnlyTorn

-----------------------------------------------------------------------------
(* What rotation leaves of the remembered paths: never nothing, if there   *)
(* was something.                                                          *)
LEMMA RotatedPaths ==
  ASSUME NEW paths \in Seq(Steps), Keep # 1, NEW n, n = Outdated(paths)
  PROVE  /\ n \in 0 .. Len(paths)
         /\ paths # <<>> => n < Len(paths)
         /\ SubSeq(paths, n + 1, Len(paths)) \in Seq(Steps)
         /\ Len(SubSeq(paths, n + 1, Len(paths))) = Len(paths) - n
         /\ \A i \in 1 .. Len(paths) - n :
              SubSeq(paths, n + 1, Len(paths))[i] = paths[i + n]
<1>1. Keep \in Nat /\ Len(paths) \in Nat
  BY CheckpointingAssumption
<1>2. n \in 0 .. Len(paths) /\ (paths # <<>> => n < Len(paths))
  BY <1>1 DEF Outdated
<1>. QED
  BY <1>1, <1>2

(* Only a whole checkpoint is tracked, so what is tracked exists and can be *)
(* loaded.                                                                  *)
LEMMA WholeIsLoadable ==
  ASSUME IInv, NEW s \in Steps, Whole(s)
  PROVE  Exists(s) /\ Loadable(s)
<1>1. data[s] # Absent /\ data[s] # Torn
  BY DEF Whole, Absent, Torn
<1>2. ASSUME NEW p \in PartsSaved, NEW r \in Ranks
      PROVE  shards[s][p][r] \notin {Absent, Torn}
  BY DEF Whole, Absent, Torn
<1>. QED
  BY <1>1, <1>2 DEF Exists, Loadable

LEMMA InitInv == ASSUME Careful PROVE Init => IInv
<1>. SUFFICES ASSUME Init PROVE IInv
  OBVIOUS
<1>. USE CheckpointingAssumption
<1>1. TypeOK
  BY DEF Init, TypeOK, File, Absent, NoShards, Parts, Working, NoTracker, Untrained
<1>2. Ahead /\ Remembered /\ FailsOnlyTorn
  BY DEF Init, Ahead, Remembered, FailsOnlyTorn, Working, PartsSaved, Parts
<1>3. Phases
  BY DEF Init, Phases, SavedNow
<1>4. TrackedWhole
  BY DEF Init, TrackedWhole, NoTracker, Steps
<1>. QED
  BY <1>1, <1>2, <1>3, <1>4 DEF IInv

-----------------------------------------------------------------------------
(* One lemma per phase of the program. *)

(* A run starts where the tracker says, or not at all. *)
LEMMA ResumeStep == ASSUME Careful PROVE IInv /\ Resume => IInv'
<1>. SUFFICES ASSUME IInv, NEW mode \in Modes,
                     \/ StartFromScratch(mode)
                     \/ \E s \in Steps : ResumeFrom(mode, s)
                     \/ ResumeFails(mode)
              PROVE  IInv'
  BY DEF Resume
<1>. USE CheckpointingAssumption DEF IInv
<1>1. mode = "auto" /\ Candidates(mode) = Latest
  BY DEF Careful, Candidates
<1>2. /\ at \notin Working /\ runs < MaxRuns /\ runs' = runs + 1 /\ epoch' = 0
      /\ saved' = [p \in Parts |-> <<>>]
      /\ UNCHANGED <<shards, data, tracker, part, pending, reached>>
  BY DEF StartFromScratch, ResumeFrom, ResumeFails, Start, disk
<1>3. TrackedWhole'
  BY <1>2 DEF TrackedWhole, Whole
<1>4. ASSUME NEW s \in Latest PROVE s = tracker /\ Loadable(s)
  BY WholeIsLoadable DEF Latest, TrackedWhole
<1>5. ASSUME at' \in {"training", "failed"}, step' \in Nat,
             served' \in 0 .. StepsPerEpoch, updates' \in [Parts -> [Ranks -> Nat]]
      PROVE  TypeOK'
  <2>1. saved' \in [Parts -> Seq(Steps)]
    BY <1>2
  <2>2. epoch' \in 0 .. Epochs - 1 /\ runs' \in 0 .. MaxRuns
    BY <1>2 DEF TypeOK
  <2>. QED
    BY <1>2, <1>5, <2>1, <2>2 DEF TypeOK, Working
<1>6. ASSUME at' = "training" PROVE Remembered' /\ Phases' /\ FailsOnlyTorn'
  BY <1>2, <1>6, PartsSaved \subseteq Parts
     DEF Remembered, Phases, SavedNow, FailsOnlyTorn, PartsSaved, Parts
<1>7. CASE StartFromScratch(mode)
  <2>1. tracker = NoTracker
    BY <1>1, <1>7, WholeIsLoadable
       DEF StartFromScratch, Latest, TrackedWhole, TypeOK
  <2>2. at' = "training" /\ step' = 1 /\ served' = 0 /\ updates' = Untrained
    BY <1>7 DEF StartFromScratch, FirstStep
  <2>3. TypeOK'
    BY <1>5, <2>2 DEF Untrained
  <2>4. Ahead'
    BY <1>2, <2>1, <2>2 DEF Ahead, NoTracker, TornTracker, TypeOK, PartsSaved
  <2>. QED
    BY <1>3, <1>6, <2>2, <2>3, <2>4
<1>8. CASE \E s \in Steps : ResumeFrom(mode, s)
  <2>1. PICK s \in Steps : ResumeFrom(mode, s)
    BY <1>8
  <2>2. s = tracker /\ at' = "training" /\ step' = s + 1
    BY <1>1, <1>4, <2>1 DEF ResumeFrom, FirstStep
  <2>3. served' \in 0 .. StepsPerEpoch /\ updates' \in [Parts -> [Ranks -> Nat]]
    BY <2>1 DEF ResumeFrom, Position, TypeOK, File
  <2>4. TypeOK'
    BY <1>5, <2>2, <2>3 DEF Steps
  <2>5. Ahead'
    BY <1>2, <2>2 DEF Ahead, TornTracker, Steps, TypeOK, PartsSaved
  <2>. QED
    BY <1>3, <1>6, <2>2, <2>4, <2>5
<1>9. CASE ResumeFails(mode)
  <2>1. at' = "failed" /\ tracker = TornTracker
    BY <1>1, <1>4, <1>9 DEF ResumeFails
  <2>2. TypeOK'
    BY <1>5, <1>9, <2>1 DEF ResumeFails, TypeOK
  <2>. QED
    BY <1>2, <1>3, <2>1, <2>2
       DEF Ahead, Remembered, Phases, SavedNow, FailsOnlyTorn, Working, PartsSaved
<1>. QED
  BY <1>7, <1>8, <1>9

(* Training writes nothing, and leaves the step of the last checkpoint.    *)
LEMMA TrainingStep ==
  ASSUME Careful
  PROVE  IInv /\ (NextEpoch \/ \E esi \in Esi : TrainStep(esi)) => IInv'
<1>. USE CheckpointingAssumption DEF IInv
<1>1. ASSUME IInv, NextEpoch PROVE IInv'
  <2>1. UNCHANGED <<shards, data, tracker, part, pending, saved, step, updates, runs, reached>>
    BY <1>1 DEF NextEpoch, disk, saving
  <2>2. at = "training" /\ at' \in {"training", "done"}
    BY <1>1 DEF NextEpoch
  <2>3. epoch' \in 0 .. Epochs - 1 /\ served' \in 0 .. StepsPerEpoch
    BY <1>1 DEF NextEpoch, TypeOK
  <2>4. TypeOK'
    BY <1>1, <2>1, <2>2, <2>3 DEF TypeOK, Working
  <2>5. TrackedWhole' /\ FailsOnlyTorn'
    BY <1>1, <2>1, <2>2 DEF TrackedWhole, Whole, FailsOnlyTorn
  <2>6. Ahead' /\ Remembered' /\ Phases'
    BY <1>1, <2>1, <2>2 DEF Ahead, Remembered, Phases, SavedNow, Working, PartsSaved
  <2>. QED
    BY <2>4, <2>5, <2>6
<1>2. ASSUME IInv, NEW esi \in Esi, TrainStep(esi) PROVE IInv'
  <2>1. UNCHANGED <<shards, data, tracker, pending, saved, epoch, runs>>
    BY <1>2 DEF TrainStep, disk
  <2>2. at = "training" /\ step \in Steps
    BY <1>2 DEF TrainStep
  <2>3. \/ at' = "rotate" /\ part' = "actor" /\ step' = step
        \/ at' \in {"training", "done"} /\ part' = part /\ step' = step + 1
    BY <1>2 DEF TrainStep, Advance
  <2>4. served' \in 0 .. StepsPerEpoch /\ reached' \in Nat
    BY <1>2, <2>2 DEF TrainStep, MoreBatches, TypeOK, Steps
  <2>5. updates' \in [Parts -> [Ranks -> Nat]]
    <3>1. ASSUME NEW p \in Parts, NEW r \in Ranks
          PROVE  updates[p][r] \in Nat /\ updates[p][r] + 1 \in Nat
      BY <1>2 DEF TypeOK
    <3>. QED
      BY <1>2, <3>1 DEF TrainStep
  <2>6. TypeOK'
    <3>1. step' \in Nat /\ (at' \in Working \ {"training"} => step' \in Steps)
      BY <1>2, <2>2, <2>3 DEF TypeOK, Working
    <3>2. at' \in Working \cup {"done"} /\ part' \in Parts
      BY <1>2, <2>3 DEF TypeOK, Working, Parts
    <3>. QED
      BY <1>2, <2>1, <2>4, <2>5, <3>1, <3>2 DEF TypeOK
  <2>7. TrackedWhole' /\ FailsOnlyTorn'
    BY <1>2, <2>1, <2>3 DEF TrackedWhole, Whole, FailsOnlyTorn
  <2>8. Ahead'
    BY <1>2, <2>1, <2>2, <2>3 DEF Ahead, TypeOK, Working, PartsSaved, Parts, Steps, TornTracker,
                                   NoTracker
  <2>9. \A p \in PartsSaved : ~SavedNow(p) /\ ~SavedNow(p)'
    BY <2>2, <2>3 DEF SavedNow
  <2>10. Remembered' /\ Phases'
    BY <1>2, <2>1, <2>2, <2>3, <2>9 DEF Remembered, Phases, Working, Last, PartsSaved
  <2>. QED
    BY <2>6, <2>7, <2>8, <2>10
<1>. QED
  BY <1>1, <1>2

(* Rotation removes folders of steps before the tracked one only. *)
LEMMA RotateStep == ASSUME Careful, IInv, Rotate PROVE IInv'
<1>. USE CheckpointingAssumption DEF IInv
<1>. DEFINE paths == saved[part]
            n == Outdated(paths)
            removed == {paths[i] : i \in 1 .. n}
<1>1. /\ at = "rotate" /\ at' = "shards" /\ pending' = Ranks
      /\ shards' = [s \in Steps |-> IF s \in removed
                      THEN [shards[s] EXCEPT ![part] = NoShards[part]] ELSE shards[s]]
      /\ saved' = [saved EXCEPT ![part] = SubSeq(@, n + 1, Len(@))]
      /\ UNCHANGED <<data, tracker, part, step, epoch, served, updates, runs, reached>>
  BY DEF Rotate, training
<1>2. part \in PartsSaved /\ part \in Parts /\ paths \in Seq(Steps) /\ step \in Steps
  BY <1>1 DEF Ahead, TypeOK, Working
<1>. HIDE DEF paths
<1>3. /\ n \in 0 .. Len(paths)
      /\ paths # <<>> => n < Len(paths)
      /\ saved'[part] \in Seq(Steps) /\ Len(saved'[part]) = Len(paths) - n
      /\ \A i \in 1 .. Len(paths) - n : saved'[part][i] = paths[i + n]
  <2>1. saved'[part] = SubSeq(paths, n + 1, Len(paths))
    BY <1>1, <1>2 DEF TypeOK, paths
  <2>. QED
    BY <1>2, <2>1, RotatedPaths DEF Careful
<1>. HIDE DEF n
<1>4. ~SavedNow(part)
  BY <1>1 DEF SavedNow
<1>5. /\ \A i, j \in DOMAIN paths : i < j => paths[i] < paths[j]
      /\ paths # <<>> => Last(paths) = tracker
  BY <1>1, <1>2, <1>4 DEF Remembered, Working, paths
<1>6. tracker \notin removed
  <2>. SUFFICES ASSUME NEW i \in 1 .. n PROVE paths[i] # tracker
    OBVIOUS
  <2>1. i < Len(paths) /\ {i, Len(paths)} \subseteq DOMAIN paths /\ paths # <<>>
    BY <1>2, <1>3
  <2>2. paths[i] < tracker
    BY <1>5, <2>1 DEF Last
  <2>. QED
    BY <1>2, <2>1, <2>2 DEF Steps
<1>7. TypeOK'
  <2>1. shards' \in [Steps -> [Parts -> [Ranks -> File]]]
    BY <1>1, <1>2 DEF TypeOK, NoShards, Absent, File
  <2>2. saved' \in [Parts -> Seq(Steps)]
    BY <1>1, <1>2, <1>3 DEF TypeOK
  <2>. QED
    BY <1>1, <2>1, <2>2 DEF TypeOK, Working
<1>8. TrackedWhole'
  BY <1>1, <1>6 DEF TrackedWhole, Whole, TypeOK
<1>9. Ahead' /\ FailsOnlyTorn'
  BY <1>1 DEF Ahead, FailsOnlyTorn, Working, PartsSaved
<1>10. \A p \in PartsSaved : SavedNow(p)' = SavedNow(p)
  BY <1>1 DEF SavedNow
<1>11. Remembered'
  <2>. SUFFICES ASSUME NEW p \in PartsSaved
                PROVE  /\ \A i, j \in DOMAIN saved'[p] : i < j => saved'[p][i] < saved'[p][j]
                       /\ saved'[p] # <<>> =>
                            Last(saved'[p]) = IF SavedNow(p) THEN step ELSE tracker
    BY <1>1, <1>10 DEF Remembered, PartsSaved
  <2>1. CASE p # part
    BY <1>1, <2>1 DEF Remembered, Working, TypeOK, PartsSaved, Parts
  <2>2. CASE p = part
    <3>1. (paths # <<>> /\ Len(saved'[part]) > 0) \/ saved'[part] = <<>>
      BY <1>2, <1>3
    <3>2. saved'[part] # <<>> => Last(saved'[part]) = Last(paths)
      BY <1>2, <1>3, <3>1 DEF Last
    <3>3. \A i, j \in DOMAIN saved'[part] : i < j => saved'[part][i] < saved'[part][j]
      <4>. SUFFICES ASSUME NEW i \in DOMAIN saved'[part], NEW j \in DOMAIN saved'[part], i < j
                    PROVE  saved'[part][i] < saved'[part][j]
        OBVIOUS
      <4>1. i \in 1 .. Len(paths) - n /\ j \in 1 .. Len(paths) - n
        BY <1>3
      <4>2. DOMAIN paths = 1 .. Len(paths) /\ Len(paths) \in Nat /\ n \in Nat
        BY <1>2, <1>3
      <4>3. i + n \in DOMAIN paths /\ j + n \in DOMAIN paths
        BY <4>1, <4>2
      <4>4. i \in Int /\ j \in Int /\ i + n < j + n
        BY <4>1, <4>2
      <4>. QED
        BY <1>3, <1>5, <4>1, <4>3, <4>4
    <3>. QED
      BY <1>4, <1>5, <2>2, <3>1, <3>2, <3>3
  <2>. QED
    BY <2>1, <2>2
<1>12. Phases'
  <2>1. ASSUME NEW p \in PartsSaved, SavedNow(p), NEW r \in Ranks
        PROVE  shards'[step][p][r].by = runs
    BY <1>1, <1>2, <1>4, <2>1 DEF Phases, TypeOK, PartsSaved, Parts
  <2>. QED
    BY <1>1, <1>10, <2>1 DEF Phases, PartsSaved
<1>. QED
  BY <1>7, <1>8, <1>9, <1>11, <1>12

(* A shard is written into the folder of a step the tracker does not name. *)
LEMMA SaveShardStep == ASSUME IInv, NEW r \in Ranks, SaveShard(r) PROVE IInv'
<1>. USE CheckpointingAssumption DEF IInv
<1>1. /\ at = "shards" /\ r \in pending /\ pending' = pending \ {r}
      /\ shards' = [shards EXCEPT ![step][part][r] = [by |-> runs, n |-> updates[part][r]]]
      /\ UNCHANGED <<data, tracker, at, part, saved, step, epoch, served, updates, runs, reached>>
  BY DEF SaveShard, training
<1>2. step \in Steps /\ part \in Parts /\ part \in PartsSaved /\ tracker # step
  BY <1>1 DEF TypeOK, Working, Ahead, Steps, TornTracker, NoTracker
<1>3. TypeOK'
  <2>1. [by |-> runs, n |-> updates[part][r]] \in File
    BY <1>2 DEF TypeOK, File
  <2>2. shards' \in [Steps -> [Parts -> [Ranks -> File]]]
    BY <1>1, <1>2, <2>1 DEF TypeOK
  <2>. QED
    BY <1>1, <2>2 DEF TypeOK
<1>4. \A p \in PartsSaved : SavedNow(p)' = SavedNow(p)
  BY <1>1 DEF SavedNow
<1>5. Ahead' /\ FailsOnlyTorn' /\ Remembered'
  BY <1>1, <1>4 DEF Ahead, FailsOnlyTorn, Remembered, Working, PartsSaved
<1>6. TrackedWhole'
  BY <1>1, <1>2 DEF TrackedWhole, Whole, TypeOK, PartsSaved
<1>7. Phases'
  <2>1. ASSUME NEW p \in PartsSaved, SavedNow(p), NEW q \in Ranks
        PROVE  shards'[step][p][q].by = runs
    BY <1>1, <1>2, <2>1 DEF Phases, SavedNow, TypeOK, PartsSaved, Parts
  <2>2. ASSUME NEW q \in Ranks \ pending'
        PROVE  shards'[step][part][q].by = runs
    <3>1. shards'[step][part] = [shards[step][part] EXCEPT ![r] =
                                   [by |-> runs, n |-> updates[part][r]]]
      BY <1>1, <1>2 DEF TypeOK
    <3>2. DOMAIN shards[step][part] = Ranks
      BY <1>2 DEF TypeOK
    <3>3. CASE q = r
      BY <3>1, <3>2, <3>3
    <3>4. CASE q # r
      <4>1. q \in Ranks \ pending
        BY <1>1, <3>4
      <4>2. shards[step][part][q].by = runs
        BY <1>1, <4>1 DEF Phases
      <4>. QED
        BY <3>1, <3>2, <3>4, <4>2
    <3>. QED
      BY <3>3, <3>4
  <2>3. step' = step /\ part' = part /\ runs' = runs /\ at' = "shards"
    BY <1>1
  <2>4. \A p \in PartsSaved : SavedNow(p)' => \A q \in Ranks : shards'[step][p][q].by = runs
    BY <1>4, <2>1
  <2>5. PartsSaved' = PartsSaved
    BY DEF PartsSaved
  <2>. QED
    BY <2>2, <2>3, <2>4, <2>5 DEF Phases
<1>. QED
  BY <1>3, <1>5, <1>6, <1>7

(* With its last shard a worker group is done: its path is remembered. *)
LEMMA PartSavedStep == ASSUME IInv, PartSaved PROVE IInv'
<1>. USE CheckpointingAssumption DEF IInv
<1>1. /\ at = "shards" /\ pending = {}
      /\ saved' = [saved EXCEPT ![part] = Append(@, step)]
      /\ UNCHANGED <<shards, data, tracker, pending, step, epoch, served, updates, runs, reached>>
  BY DEF PartSaved, disk, training
<1>2. \/ part = "actor" /\ UseCritic /\ part' = "critic" /\ at' = "rotate"
      \/ ~(part = "actor" /\ UseCritic) /\ part' = part /\ at' = "data"
  BY DEF PartSaved, MoreParts
<1>3. step \in Steps /\ part \in Parts /\ part \in PartsSaved
  BY <1>1 DEF TypeOK, Working, Ahead
<1>4. /\ saved[part] \in Seq(Steps) /\ saved'[part] = Append(saved[part], step)
      /\ \A p \in Parts : p # part => saved'[p] = saved[p]
  BY <1>1, <1>3 DEF TypeOK
<1>5. TypeOK'
  <2>1. saved' \in [Parts -> Seq(Steps)]
    BY <1>1, <1>3, <1>4 DEF TypeOK
  <2>. QED
    BY <1>1, <1>2, <1>3, <2>1 DEF TypeOK, Working, Parts
<1>6. Ahead' /\ FailsOnlyTorn' /\ TrackedWhole'
  BY <1>1, <1>2, <1>3
     DEF Ahead, FailsOnlyTorn, TrackedWhole, Whole, Working, PartsSaved, Parts
<1>7. ~SavedNow(part)
  BY <1>1 DEF SavedNow
<1>8. \A p \in PartsSaved : SavedNow(p)' <=> SavedNow(p) \/ p = part
  BY <1>1, <1>2, <1>3 DEF SavedNow, PartsSaved, Parts
<1>9. Remembered'
  <2>. SUFFICES ASSUME NEW p \in PartsSaved
                PROVE  /\ \A i, j \in DOMAIN saved'[p] : i < j => saved'[p][i] < saved'[p][j]
                       /\ saved'[p] # <<>> =>
                            Last(saved'[p]) = IF SavedNow(p)' THEN step ELSE tracker
    BY <1>1 DEF Remembered, PartsSaved
  <2>1. CASE p # part
    BY <1>1, <1>4, <1>8, <2>1 DEF Remembered, Working, PartsSaved, Parts
  <2>2. CASE p = part
    <3>. DEFINE paths == saved[part]
    <3>1. /\ \A i, j \in DOMAIN paths : i < j => paths[i] < paths[j]
          /\ paths # <<>> => Last(paths) < step
      BY <1>1, <1>3, <1>7 DEF Remembered, Ahead, Working
    <3>2. /\ Len(paths) \in Nat /\ DOMAIN paths = 1 .. Len(paths)
          /\ DOMAIN saved'[part] = 1 .. Len(paths) + 1
          /\ \A i \in 1 .. Len(paths) : saved'[part][i] = paths[i] /\ paths[i] \in Steps
          /\ saved'[part][Len(paths) + 1] = step /\ Len(saved'[part]) = Len(paths) + 1
      BY <1>3, <1>4
    <3>. HIDE DEF paths
    <3>5. Len(paths) \in Nat
      BY <3>2
    <3>3. ASSUME NEW i \in 1 .. Len(paths) PROVE paths[i] < step
      <4>1. i = Len(paths) \/ i < Len(paths)
        BY <3>5
      <4>2. Len(paths) \in DOMAIN paths /\ i \in DOMAIN paths /\ paths # <<>>
        BY <3>2
      <4>3. paths[Len(paths)] < step
        BY <3>1, <4>2 DEF Last
      <4>4. paths[i] = paths[Len(paths)] \/ paths[i] < paths[Len(paths)]
        BY <3>1, <4>1, <4>2
      <4>5. paths[i] \in Int /\ paths[Len(paths)] \in Int /\ step \in Int
        BY <1>3, <3>2, <4>2 DEF Steps
      <4>. QED
        BY <4>3, <4>4, <4>5
    <3>4. ASSUME NEW i \in DOMAIN saved'[part], NEW j \in DOMAIN saved'[part], i < j
          PROVE  saved'[part][i] < saved'[part][j]
      <4>1. i \in 1 .. Len(paths) /\ (j \in 1 .. Len(paths) \/ j = Len(paths) + 1)
        BY <3>2, <3>4
      <4>2. CASE j = Len(paths) + 1
        BY <3>2, <3>3, <4>1, <4>2
      <4>3. CASE j \in 1 .. Len(paths)
        BY <3>1, <3>2, <3>4, <4>1, <4>3
      <4>. QED
        BY <4>1, <4>2, <4>3
    <3>. QED
      BY <1>3, <1>8, <2>2, <3>2, <3>4 DEF Last
  <2>. QED
    BY <2>1, <2>2
<1>10. Phases'
  <2>1. \A r \in Ranks : shards[step][part][r].by = runs
    BY <1>1 DEF Phases
  <2>. QED
    BY <1>1, <1>2, <1>8, <2>1 DEF Phases, PartsSaved
<1>. QED
  BY <1>5, <1>6, <1>9, <1>10

LEMMA SaveDataStep == ASSUME IInv, SaveData PROVE IInv'
<1>. USE CheckpointingAssumption DEF IInv
<1>1. /\ at = "data" /\ at' = "tracker"
      /\ data' = [data EXCEPT ![step] = [by |-> runs, n |-> served]]
      /\ UNCHANGED <<shards, tracker, part, pending, saved, step, epoch, served, updates, runs,
                     reached>>
  BY DEF SaveData, saving, training
<1>2. step \in Steps /\ tracker # step
  BY <1>1 DEF TypeOK, Working, Ahead, Steps, TornTracker, NoTracker
<1>3. TypeOK'
  <2>1. runs \in Nat /\ served \in 0 .. StepsPerEpoch
    BY DEF TypeOK
  <2>2. data' \in [Steps -> [by : Nat, n : 0 .. StepsPerEpoch]]
    BY <1>1, <2>1 DEF TypeOK
  <2>. QED
    BY <1>1, <1>2, <2>2 DEF TypeOK, Working
<1>4. \A p \in PartsSaved : SavedNow(p)' = SavedNow(p)
  BY <1>1 DEF SavedNow
<1>5. Ahead' /\ FailsOnlyTorn' /\ Remembered'
  BY <1>1, <1>4 DEF Ahead, FailsOnlyTorn, Remembered, Working, PartsSaved
<1>6. TrackedWhole'
  BY <1>1, <1>2 DEF TrackedWhole, Whole, TypeOK, PartsSaved
<1>7. Phases'
  BY <1>1, <1>2, <1>4 DEF Phases, TypeOK, PartsSaved
<1>. QED
  BY <1>3, <1>5, <1>6, <1>7

(* The tracker moves to a step all of whose files this run has written. *)
LEMMA SaveTrackerStep == ASSUME IInv, SaveTracker PROVE IInv'
<1>. USE CheckpointingAssumption DEF IInv
<1>1. /\ at = "tracker" /\ at' \in {"training", "done"}
      /\ tracker' = step /\ step' = step + 1
      /\ UNCHANGED <<shards, data, part, pending, saved, epoch, served, updates, runs, reached>>
  BY DEF SaveTracker, Advance, saving
<1>2. step \in Steps /\ runs > 0
  BY <1>1 DEF TypeOK, Working, Ahead
<1>3. TypeOK'
  <2>1. step' \in Nat /\ tracker' \in Steps /\ at' \in Working \cup {"done"}
    BY <1>1, <1>2 DEF TypeOK, Working
  <2>2. at' \notin Working \ {"training"}
    BY <1>1 DEF Working
  <2>. QED
    BY <1>1, <2>1, <2>2 DEF TypeOK
<1>4. Ahead' /\ FailsOnlyTorn'
  BY <1>1, <1>2 DEF Ahead, FailsOnlyTorn, Working, PartsSaved, Steps, TornTracker
<1>5. Whole(step)
  BY <1>1, <1>2 DEF Phases, SavedNow, Whole
<1>6. TrackedWhole'
  BY <1>1, <1>5 DEF TrackedWhole, Whole
<1>7. \A p \in PartsSaved : SavedNow(p) /\ ~SavedNow(p)'
  BY <1>1 DEF SavedNow
<1>8. Remembered'
  BY <1>1, <1>7 DEF Remembered, Working, Last, PartsSaved
<1>9. Phases'
  BY <1>1, <1>7 DEF Phases, PartsSaved
<1>. QED
  BY <1>3, <1>4, <1>6, <1>8, <1>9

(* A crash tears only what was being written, never the tracked step. *)
LEMMA CrashStep == ASSUME IInv, Crash PROVE IInv'
<1>. USE CheckpointingAssumption DEF IInv
<1>1. PICK torn \in SUBSET pending :
        shards' = [s \in Steps |-> IF s # step THEN shards[s] ELSE
                     [shards[s] EXCEPT ![part] = [r \in Ranks |->
                        IF r \in torn THEN Torn ELSE shards[s][part][r]]]]
  BY DEF Crash
<1>2. /\ at \in Working /\ at' = "down"
      /\ data' = data \/ (at = "data" /\ data' = [data EXCEPT ![step] = Torn])
      /\ tracker' \in {tracker, TornTracker}
      /\ part' = "actor" /\ pending' = {} /\ saved' = [p \in Parts |-> <<>>]
      /\ step' = 0 /\ epoch' = 0 /\ served' = 0 /\ updates' = Untrained
      /\ UNCHANGED <<runs, reached>>
  BY DEF Crash
<1>3. part \in Parts /\ tracker # step /\ (at = "data" => step \in Steps)
  BY <1>2 DEF TypeOK, Working, Ahead, Steps, TornTracker, NoTracker
<1>4. TypeOK'
  <2>1. shards' \in [Steps -> [Parts -> [Ranks -> File]]]
    <3>1. ASSUME NEW s \in Steps
          PROVE  [shards[s] EXCEPT ![part] = [r \in Ranks |->
                     IF r \in torn THEN Torn ELSE shards[s][part][r]]]
                   \in [Parts -> [Ranks -> File]]
      BY <1>3 DEF TypeOK, Torn, File
    <3>. QED
      BY <1>1, <3>1 DEF TypeOK
  <2>2. data' \in [Steps -> [by : Nat, n : 0 .. StepsPerEpoch]]
    <3>1. Torn \in [by : Nat, n : 0 .. StepsPerEpoch]
      BY DEF Torn
    <3>. QED
      BY <1>2, <1>3, <3>1 DEF TypeOK
  <2>3. updates' \in [Parts -> [Ranks -> Nat]] /\ saved' \in [Parts -> Seq(Steps)]
    BY <1>2 DEF Untrained
  <2>4. epoch' \in 0 .. Epochs - 1 /\ served' \in 0 .. StepsPerEpoch /\ step' \in Nat
    BY <1>2
  <2>5. tracker' \in Steps \cup {NoTracker, TornTracker} /\ runs' \in 0 .. MaxRuns /\ reached' \in Nat
    BY <1>2 DEF TypeOK
  <2>6. at' = "down" /\ part' \in Parts /\ pending' \in SUBSET Ranks
    BY <1>2 DEF Parts
  <2>. QED
    BY <2>1, <2>2, <2>3, <2>4, <2>5, <2>6 DEF TypeOK, Working
<1>5. Ahead' /\ Remembered' /\ Phases' /\ FailsOnlyTorn'
  BY <1>2 DEF Ahead, Remembered, Phases, FailsOnlyTorn, SavedNow, Working, PartsSaved, Parts
<1>6. TrackedWhole'
  <2>. SUFFICES ASSUME NEW s \in Steps, tracker' = s PROVE Whole(s)'
    BY DEF TrackedWhole
  <2>1. tracker = s /\ s # step
    BY <1>2, <1>3 DEF Steps, TornTracker
  <2>2. shards'[s] = shards[s] /\ data'[s] = data[s]
    BY <1>1, <1>2, <1>3, <2>1 DEF TypeOK
  <2>. QED
    BY <2>1, <2>2 DEF TrackedWhole, Whole, PartsSaved
<1>. QED
  BY <1>4, <1>5, <1>6

LEMMA NextInv == ASSUME Careful PROVE IInv /\ [Next]_vars => IInv'
<1>. SUFFICES ASSUME IInv, [Next]_vars PROVE IInv'
  OBVIOUS
<1>1. CASE Resume
  BY <1>1, ResumeStep
<1>2. CASE Progress
  BY <1>2, TrainingStep, RotateStep, SaveShardStep, PartSavedStep, SaveDataStep, SaveTrackerStep
     DEF Progress, Save
<1>3. CASE Crash
  BY <1>3, CrashStep
<1>4. CASE UNCHANGED vars
  <2>. USE <1>4 DEF vars, disk, saving, training
  <2>1. TypeOK' /\ Ahead' /\ FailsOnlyTorn'
    BY DEF IInv, TypeOK, Ahead, FailsOnlyTorn, PartsSaved
  <2>2. Remembered' /\ Phases'
    BY DEF IInv, Remembered, Phases, SavedNow, PartsSaved
  <2>3. TrackedWhole'
    BY DEF IInv, TrackedWhole, Whole, PartsSaved
  <2>. QED
    BY <2>1, <2>2, <2>3 DEF IInv
<1>. QED
  BY <1>1, <1>2, <1>3, <1>4 DEF Next

-----------------------------------------------------------------------------
(* The invariant holds in every reachable state of a careful configuration. *)
THEOREM InductiveInvariant == ASSUME Careful PROVE Spec => []IInv
BY InitInv, NextInv, PTL DEF Spec

(* Every variable keeps its type: steps, ranks and files are those of the  *)
(* configuration, whatever crashes.                                        *)
THEOREM TypeCorrect == ASSUME Careful PROVE Spec => []TypeOK
<1>1. IInv => TypeOK
  BY DEF IInv
<1>. QED
  BY InductiveInvariant, <1>1, PTL

(* Whatever the number of ranks, steps, epochs and crashes: what            *)
(* latest_checkpointed_iteration.txt names is complete and of one run       *)
(* (_save_checkpoint), if more than one checkpoint is kept.                 *)
THEOREM TrackedIsWhole == ASSUME Careful PROVE Spec => []TrackedWhole
<1>1. IInv => TrackedWhole
  BY DEF IInv
<1>. QED
  BY InductiveInvariant, <1>1, PTL

(* A start fails only when the tracker itself was torn by a crash           *)
(* (_load_checkpoint, find_latest_ckpt_path).                               *)
THEOREM ResumeFailsOnlyTorn == ASSUME Careful PROVE Spec => []FailsOnlyTorn
<1>1. IInv => FailsOnlyTorn
  BY DEF IInv
<1>. QED
  BY InductiveInvariant, <1>1, PTL

(* The step the tracker names only grows, over any number of crashes and    *)
(* restarts (_save_checkpoint, fit).                                        *)
THEOREM TrackerOnlyAdvances == ASSUME Careful PROVE Spec => TrackerAdvances
<1>1. ASSUME IInv, [Next]_vars
      PROVE  [{tracker, tracker'} \subseteq Steps => tracker' >= tracker]_vars
  <2>1. CASE SaveTracker
    BY <1>1, <2>1 DEF IInv, Ahead, Working, SaveTracker, TypeOK, Steps, TornTracker, NoTracker
  <2>2. CASE Crash
    BY <1>1, <2>2 DEF Crash, Steps, TornTracker
  <2>3. CASE ~SaveTracker /\ ~Crash
    <3>1. tracker' = tracker
      BY <1>1, <2>3 DEF Next, Resume, StartFromScratch, ResumeFrom, ResumeFails, Start, disk,
         Progress, NextEpoch, TrainStep, Save, Rotate, SaveShard, PartSaved, SaveData, vars
    <3>. QED
      BY <3>1 DEF Steps
  <2>. QED
    BY <2>1, <2>2, <2>3
<1>. QED
  BY InductiveInvariant, <1>1, PTL DEF Spec, TrackerAdvances

(* All of it: a start finds a checkpoint it can use, or a torn tracker.     *)
THEOREM CheckpointsStaySound == ASSUME Careful PROVE Spec => []CheckpointsAreSound
<1>1. IInv => CheckpointsAreSound
  BY DEF IInv, CheckpointsAreSound
<1>. QED
  BY InductiveInvariant, <1>1, PTL

-----------------------------------------------------------------------------
(* Interruptions. *)

(* How many steps a run has taken, those before it was interrupted too. *)
Taken == IF at = "training" THEN step - 1 ELSE step

(* After n steps, b batches of the epoch have been served. *)
InEpoch(n, b) == \E k \in Nat : n = k * StepsPerEpoch + b

(* What is on disk, and in memory, after n steps depends on n only. *)
Alike ==
  /\ \A s \in Steps, r \in Ranks :
       /\ shards[s]["actor"][r].by > 0 => shards[s]["actor"][r].n = ActorUpdates(s)
       /\ UseCritic /\ shards[s]["critic"][r].by > 0 => shards[s]["critic"][r].n = s
  /\ \A s \in Steps : data[s].by > 0 => InEpoch(s, data[s].n)

Continued ==
  at \in Working =>
    /\ \A r \in Ranks : /\ updates["actor"][r] = ActorUpdates(Taken)
                        /\ UseCritic => updates["critic"][r] = Taken
    /\ InEpoch(Taken, served)
    /\ epoch * StepsPerEpoch + served <= Taken

(* The steps of the first run are those asked for, every later run may add one. *)
Counted ==
  /\ at \in Working => step <= TotalSteps + runs - 1
  /\ at \in Working \ {"training"} => step <= reached
  /\ tracker <= reached
  /\ runs = 0 => reached = 0
  /\ OneStepTooMany

Ended ==
  /\ at = "training" /\ step > TotalSteps => tracker = step - 1
  /\ DoneIsSaved

UInv == Alike /\ Continued /\ Counted /\ Ended

(* total_training_steps is len(train_dataloader) * total_epochs, if it is   *)
(* not configured to be less.                                               *)
Attainable == TotalSteps <= StepsPerEpoch * Epochs

(* The remainder is what a multiple leaves. *)
LEMMA Remainder ==
  ASSUME NEW m \in Nat \ {0}, NEW q \in Nat, NEW r \in 0 .. m - 1
  PROVE  (q * m + r) % m = r
<1>. DEFINE a == q * m + r
            p == a \div m
            s == a % m
<1>1. a \in Int
  OBVIOUS
<1>. HIDE DEF a
<1>2. a = m * p + s /\ s \in 0 .. m - 1 /\ p \in Int
  BY <1>1
<1>3. a = m * q + r
  BY DEF a
<1>. HIDE DEF p, s
<1>4. m * (q - p) = s - r
  BY <1>2, <1>3
<1>5. q - p >= 1 => m * (q - p) >= m
  BY <1>2
<1>6. p - q >= 1 => m * (q - p) <= -m
  BY <1>2
<1>7. s = r
  BY <1>2, <1>4, <1>5, <1>6
<1>. QED
  BY <1>7 DEF a, s

(* Every number lies between two multiples. *)
LEMMA Quotient ==
  ASSUME NEW m \in Nat \ {0}, NEW a \in Nat
  PROVE  \E k \in Nat : k * m <= a /\ a < (k + 1) * m
<1>. DEFINE k == a \div m
            s == a % m
<1>1. a = m * k + s /\ s \in 0 .. m - 1 /\ k \in Int
  OBVIOUS
<1>. HIDE DEF k, s
<1>2. k <= -1 => m * k <= -m
  BY <1>1
<1>3. k \in Nat
  BY <1>1, <1>2
<1>4. k * m = m * k /\ (k + 1) * m = m * k + m
  BY <1>1
<1>5. k * m <= a /\ a < (k + 1) * m
  BY <1>1, <1>4
<1>. QED
  BY <1>3, <1>5

(* One more step, one more update of the actor, once it is warmed up. *)
LEMMA OneMoreUpdate ==
  ASSUME NEW n \in Nat \ {0}
  PROVE  /\ ActorUpdates(n) = ActorUpdates(n - 1) + (IF Warmup <= n THEN 1 ELSE 0)
         /\ ActorUpdates(0) = 0
<1>1. Warmup \in Nat
  BY CheckpointingAssumption
<1>2. CASE Warmup = 0
  BY <1>2 DEF ActorUpdates
<1>3. CASE Warmup # 0
  <2>1. ActorUpdates(0) = 0
    BY <1>1, <1>3 DEF ActorUpdates
  <2>2. CASE n < Warmup
    BY <1>1, <1>3, <2>2 DEF ActorUpdates
  <2>3. CASE ~(n < Warmup)
    BY <1>1, <1>3, <2>3 DEF ActorUpdates
  <2>. QED
    BY <2>1, <2>2, <2>3
<1>. QED
  BY <1>2, <1>3

(* Where a run starts. *)
LEMMA StartsAfterTracked ==
  ASSUME Careful, IInv, Resume
  PROVE  /\ UNCHANGED <<tracker, reached>>
         /\ \/ at' = "training" /\ tracker \in Nat /\ step' = tracker + 1
            \/ at' = "failed" /\ UNCHANGED step
<1>1. PICK mode \in Modes : \/ StartFromScratch(mode)
                            \/ \E s \in Steps : ResumeFrom(mode, s)
                            \/ ResumeFails(mode)
  BY DEF Resume
<1>2. mode = "auto" /\ Candidates(mode) = Latest
  BY DEF Careful, Candidates
<1>3. CASE StartFromScratch(mode)
  BY <1>2, <1>3, WholeIsLoadable
     DEF StartFromScratch, Start, disk, Latest, TrackedWhole, TypeOK, IInv, FirstStep, NoTracker
<1>4. CASE \E s \in Steps : ResumeFrom(mode, s)
  BY <1>2, <1>4 DEF ResumeFrom, Start, disk, Latest, FirstStep, Steps
<1>5. CASE ResumeFails(mode)
  BY <1>5 DEF ResumeFails, Start, disk
<1>. QED
  BY <1>1, <1>3, <1>4, <1>5

(* Nothing has been trained or written before the first run. *)
LEMMA InitUInv == Init => UInv
<1>. SUFFICES ASSUME Init PROVE UInv
  OBVIOUS
<1>. USE CheckpointingAssumption
<1>1. Alike
  BY DEF Init, Alike, NoShards, Absent, Parts
<1>2. Continued /\ Counted /\ Ended
  BY DEF Init, Continued, Counted, Ended, DoneIsSaved, OneStepTooMany, Working, NoTracker
<1>. QED
  BY <1>1, <1>2 DEF UInv

(* A run that is resumed has what an uninterrupted one would have. *)
LEMMA ResumeUInv == ASSUME Careful, IInv, UInv, Resume PROVE UInv'
<1>. USE CheckpointingAssumption
<1>0. PICK mode \in Modes : \/ StartFromScratch(mode)
                            \/ \E s \in Steps : ResumeFrom(mode, s)
                            \/ ResumeFails(mode)
  BY DEF Resume
<1>1. mode = "auto" /\ Candidates(mode) = Latest
  BY DEF Careful, Candidates
<1>2. /\ runs' = runs + 1 /\ epoch' = 0
      /\ UNCHANGED <<shards, data, tracker, reached>>
  BY <1>0 DEF StartFromScratch, ResumeFrom, ResumeFails, Start, disk
<1>3. runs \in Nat /\ reached \in Nat /\ TotalSteps \in Nat
  BY DEF IInv, TypeOK
<1>4. Alike'
  BY <1>2 DEF UInv, Alike, InEpoch, ActorUpdates
<1>5. reached + 1 <= TotalSteps + runs
  BY <1>3 DEF UInv, Counted, OneStepTooMany
<1>6. tracker <= reached
  BY DEF UInv, Counted
<1>7. OneStepTooMany' /\ runs' # 0 /\ tracker' <= reached'
  BY <1>2, <1>3, <1>5, <1>6 DEF OneStepTooMany
<1>8. CASE at' = "training" /\ tracker \in Nat /\ step' = tracker + 1
  <2>1. step' <= TotalSteps + runs' - 1
    BY <1>2, <1>3, <1>5, <1>6, <1>8
  <2>2. Counted'
    BY <1>7, <1>8, <2>1 DEF Counted
  <2>3. Ended'
    BY <1>2, <1>8 DEF Ended, DoneIsSaved
  <2>4. Taken' = tracker
    BY <1>8 DEF Taken
  <2>5. CASE StartFromScratch(mode)
    <3>1. tracker = 0
      BY <1>1, <1>8, <2>5, WholeIsLoadable
         DEF StartFromScratch, Latest, TrackedWhole, TypeOK, IInv, NoTracker
    <3>2. served' = 0 /\ updates' = Untrained
      BY <2>5 DEF StartFromScratch
    <3>3. ActorUpdates(0) = 0
      BY OneMoreUpdate
    <3>4. \A r \in Ranks : updates'["actor"][r] = 0 /\ updates'["critic"][r] = 0
      BY <3>2 DEF Untrained, Parts
    <3>5. InEpoch(0, 0)
      <4>1. 0 = 0 * StepsPerEpoch + 0 /\ 0 \in Nat
        OBVIOUS
      <4>. QED
        BY <4>1 DEF InEpoch
    <3>6. epoch' * StepsPerEpoch + served' <= tracker
      BY <1>2, <3>1, <3>2
    <3>7. InEpoch(tracker, served')
      BY <3>1, <3>2, <3>5
    <3>8. ASSUME NEW r \in Ranks
          PROVE  /\ updates'["actor"][r] = ActorUpdates(tracker)
                 /\ UseCritic => updates'["critic"][r] = tracker
      BY <3>1, <3>3, <3>4
    <3>9. Continued'
      BY <1>2, <1>8, <2>4, <3>6, <3>7, <3>8 DEF Continued, InEpoch, ActorUpdates
    <3>. QED
      BY <1>4, <2>2, <2>3, <3>9 DEF UInv
  <2>6. CASE \E s \in Steps : ResumeFrom(mode, s)
    <3>1. PICK s \in Steps : ResumeFrom(mode, s)
      BY <2>6
    <3>2. s = tracker
      BY <1>1, <3>1 DEF ResumeFrom, Latest
    <3>3. Whole(s)
      BY <3>2 DEF IInv, TrackedWhole
    <3>4. /\ data[s].by > 0 /\ data[s].n \in Nat /\ served' = data[s].n
      BY <3>1, <3>3 DEF Whole, ResumeFrom, Position, IInv, TypeOK
    <3>5. InEpoch(s, served')
      BY <3>4 DEF UInv, Alike
    <3>6. served' <= s
      <4>1. PICK k \in Nat : s = k * StepsPerEpoch + served'
        BY <3>5 DEF InEpoch
      <4>2. k * StepsPerEpoch \in Nat
        OBVIOUS
      <4>. QED
        BY <3>4, <4>1, <4>2
    <3>7. ASSUME NEW r \in Ranks
          PROVE  /\ updates'["actor"][r] = ActorUpdates(s)
                 /\ UseCritic => updates'["critic"][r] = s
      <4>1. ASSUME NEW p \in PartsSaved
            PROVE  shards[s][p][r].by > 0 /\ updates'[p][r] = shards[s][p][r].n
        BY <3>1, <3>3, <3>4 DEF Whole, ResumeFrom, PartsSaved, Parts
      <4>. QED
        BY <4>1 DEF UInv, Alike, PartsSaved, Parts
    <3>8. Continued'
      BY <1>2, <1>8, <2>4, <3>2, <3>4, <3>5, <3>6, <3>7 DEF Continued, InEpoch, ActorUpdates
    <3>. QED
      BY <1>4, <2>2, <2>3, <3>8 DEF UInv
  <2>7. CASE ResumeFails(mode)
    BY <1>8, <2>7 DEF ResumeFails
  <2>. QED
    BY <1>0, <2>5, <2>6, <2>7
<1>9. CASE at' = "failed"
  BY <1>4, <1>7, <1>9 DEF UInv, Continued, Counted, Ended, DoneIsSaved, Working
<1>. QED
  BY <1>8, <1>9, StartsAfterTracked

(* After the last epoch, all steps that were asked for have been taken. *)
LEMMA NextEpochUInv == ASSUME Attainable, IInv, UInv, NextEpoch PROVE UInv'
<1>. USE CheckpointingAssumption
<1>1. /\ at = "training" /\ UNCHANGED <<shards, data, tracker, step, updates, runs, reached>>
      /\ \/ epoch + 1 < Epochs /\ epoch' = epoch + 1 /\ served' = 0 /\ at' = "training"
         \/ ~(epoch + 1 < Epochs) /\ at' = "done"
  BY DEF NextEpoch, disk
<1>2. /\ epoch \in 0 .. Epochs - 1 /\ served = StepsPerEpoch /\ step \in Nat
      /\ StepsPerEpoch \in Nat /\ Epochs \in Nat /\ TotalSteps \in Nat /\ tracker \in Int
  BY DEF NextEpoch, MoreBatches, IInv, TypeOK, Steps, NoTracker, TornTracker
<1>3. /\ InEpoch(step - 1, served) /\ epoch * StepsPerEpoch + served <= step - 1
      /\ \A r \in Ranks : /\ updates["actor"][r] = ActorUpdates(step - 1)
                          /\ UseCritic => updates["critic"][r] = step - 1
  BY <1>1 DEF UInv, Continued, Taken, Working
<1>4. (epoch + 1) * StepsPerEpoch <= step - 1
  BY <1>2, <1>3
<1>5. Alike'
  BY <1>1 DEF UInv, Alike, InEpoch, ActorUpdates
<1>6. Counted'
  BY <1>1 DEF UInv, Counted, OneStepTooMany, Working
<1>7. CASE at' = "training"
  <2>1. InEpoch(step - 1, 0)
    <3>1. PICK k \in Nat : step - 1 = k * StepsPerEpoch + StepsPerEpoch
      BY <1>2, <1>3 DEF InEpoch
    <3>2. step - 1 = (k + 1) * StepsPerEpoch + 0
      BY <1>2, <3>1
    <3>. QED
      BY <3>2 DEF InEpoch
  <2>2. Continued'
    BY <1>1, <1>2, <1>3, <1>4, <1>7, <2>1 DEF Continued, Taken, InEpoch, ActorUpdates
  <2>3. Ended'
    BY <1>1, <1>7 DEF UInv, Ended, DoneIsSaved
  <2>. QED
    BY <1>5, <1>6, <2>2, <2>3 DEF UInv
<1>8. CASE at' = "done"
  <2>1. epoch + 1 = Epochs
    BY <1>1, <1>2, <1>8
  <2>2. TotalSteps <= step - 1
    BY <1>2, <1>4, <2>1 DEF Attainable
  <2>3. tracker = step - 1
    BY <1>1, <1>2, <2>2 DEF UInv, Ended
  <2>. QED
    BY <1>1, <1>2, <1>5, <1>6, <1>8, <2>2, <2>3 DEF UInv, Continued, Ended, DoneIsSaved, Working
<1>. QED
  BY <1>1, <1>7, <1>8

(* A step takes one batch and updates every rank once. *)
LEMMA TrainStepUInv == ASSUME IInv, UInv, NEW esi \in Esi, TrainStep(esi) PROVE UInv'
<1>. USE CheckpointingAssumption
<1>1. /\ at = "training" /\ step \in Steps /\ served' = served + 1
      /\ UNCHANGED <<shards, data, tracker, epoch, runs>>
      /\ reached' = IF step > reached THEN step ELSE reached
  BY DEF TrainStep, disk
<1>2. \/ at' = "rotate" /\ step' = step
      \/ at' = "training" /\ step' = step + 1 /\ step < TotalSteps
  BY <1>1 DEF TrainStep, SaveDue, Advance, IsLast, Steps
<1>3. /\ step \in Nat \ {0} /\ served \in Nat /\ epoch \in Nat /\ runs \in Nat /\ reached \in Nat
      /\ runs > 0 /\ tracker \in Int /\ tracker < step
  BY <1>1 DEF IInv, TypeOK, Ahead, Working, Steps, NoTracker, TornTracker
<1>4. Taken' = step
  BY <1>2, <1>3 DEF Taken
<1>5. ASSUME NEW r \in Ranks
      PROVE  /\ updates'["actor"][r] = ActorUpdates(step)
             /\ UseCritic => updates'["critic"][r] = step
  <2>1. /\ updates["actor"][r] = ActorUpdates(step - 1)
        /\ UseCritic => updates["critic"][r] = step - 1
    BY <1>1 DEF UInv, Continued, Taken, Working
  <2>2. /\ updates'["actor"][r] = IF Warmup <= step THEN updates["actor"][r] + 1
                                  ELSE updates["actor"][r]
        /\ UseCritic => updates'["critic"][r] = updates["critic"][r] + 1
    BY DEF TrainStep, Parts
  <2>3. updates["actor"][r] \in Nat
    BY DEF IInv, TypeOK, Parts
  <2>4. ActorUpdates(step) = ActorUpdates(step - 1) + (IF Warmup <= step THEN 1 ELSE 0)
    BY <1>3, OneMoreUpdate
  <2>. QED
    BY <1>3, <2>1, <2>2, <2>3, <2>4
<1>6. InEpoch(step, served + 1) /\ epoch * StepsPerEpoch + (served + 1) <= step
  <2>1. InEpoch(step - 1, served) /\ epoch * StepsPerEpoch + served <= step - 1
    BY <1>1 DEF UInv, Continued, Taken, Working
  <2>2. PICK k \in Nat : step - 1 = k * StepsPerEpoch + served
    BY <2>1 DEF InEpoch
  <2>3. k * StepsPerEpoch \in Nat /\ epoch * StepsPerEpoch \in Nat
    BY <1>3
  <2>4. step = k * StepsPerEpoch + (served + 1)
    BY <1>3, <2>2, <2>3
  <2>. QED
    BY <1>3, <2>1, <2>3, <2>4 DEF InEpoch
<1>7. Continued'
  BY <1>1, <1>4, <1>5, <1>6 DEF Continued, InEpoch, ActorUpdates
<1>8. Alike'
  BY <1>1 DEF UInv, Alike, InEpoch, ActorUpdates
<1>9. step <= TotalSteps + runs - 1
  BY <1>1 DEF UInv, Counted, Working
<1>10. Counted'
  <2>1. reached' <= TotalSteps + runs' - 1 /\ tracker' <= reached' /\ step <= reached'
    BY <1>1, <1>3, <1>9 DEF UInv, Counted, OneStepTooMany
  <2>2. step' <= TotalSteps + runs' - 1
    BY <1>1, <1>2, <1>3, <1>9
  <2>. QED
    BY <1>1, <1>2, <1>3, <2>1, <2>2 DEF Counted, OneStepTooMany, Working
<1>11. Ended'
  BY <1>1, <1>2, <1>3 DEF Ended, DoneIsSaved
<1>. QED
  BY <1>7, <1>8, <1>10, <1>11 DEF UInv

(* What rotation leaves of a step is still of that step. *)
LEMMA RotateUInv == ASSUME IInv, UInv, Rotate PROVE UInv'
<1>. USE CheckpointingAssumption
<1>1. /\ at = "rotate" /\ at' = "shards"
      /\ UNCHANGED <<data, tracker, step, epoch, served, updates, runs, reached>>
  BY DEF Rotate, training
<1>2. \A s \in Steps, p \in Parts, r \in Ranks : shards'[s][p][r] \in {shards[s][p][r], Absent}
  BY DEF Rotate, IInv, TypeOK, NoShards
<1>3. Alike'
  BY <1>1, <1>2 DEF UInv, Alike, InEpoch, ActorUpdates, Absent, Parts
<1>4. Taken' = Taken
  BY <1>1 DEF Taken
<1>5. Continued'
  BY <1>1, <1>4 DEF UInv, Continued, InEpoch, ActorUpdates, Working
<1>. QED
  BY <1>1, <1>3, <1>5 DEF UInv, Counted, OneStepTooMany, Ended, DoneIsSaved, Working

(* The shard of a step holds the weights after as many steps. *)
LEMMA SaveShardUInv == ASSUME IInv, UInv, NEW r \in Ranks, SaveShard(r) PROVE UInv'
<1>. USE CheckpointingAssumption
<1>1. /\ at = "shards" /\ at' = at
      /\ shards' = [shards EXCEPT ![step][part][r] = [by |-> runs, n |-> updates[part][r]]]
      /\ UNCHANGED <<data, tracker, step, epoch, served, updates, runs, reached>>
  BY DEF SaveShard, training
<1>2. Taken' = Taken /\ Taken = step
  BY <1>1 DEF Taken
<1>3. /\ updates["actor"][r] = ActorUpdates(step)
      /\ UseCritic => updates["critic"][r] = step
  BY <1>1, <1>2 DEF UInv, Continued, Working
<1>4. \A s \in Steps, p \in Parts, q \in Ranks :
        \/ shards'[s][p][q] = shards[s][p][q]
        \/ s = step /\ q = r /\ shards'[s][p][q].n = updates[p][q]
  <2>1. step \in Steps /\ part \in Parts
    BY <1>1 DEF IInv, TypeOK, Working
  <2>2. shards \in [Steps -> [Parts -> [Ranks -> File]]]
    BY DEF IInv, TypeOK
  <2>3. shards'[step][part][r].n = updates[part][r]
    BY <1>1, <2>1, <2>2
  <2>. QED
    BY <1>1, <2>1, <2>2, <2>3
<1>5. Alike'
  BY <1>1, <1>3, <1>4 DEF UInv, Alike, InEpoch, ActorUpdates, Parts
<1>6. Continued'
  BY <1>1, <1>2 DEF UInv, Continued, InEpoch, ActorUpdates
<1>. QED
  BY <1>1, <1>5, <1>6 DEF UInv, Counted, OneStepTooMany, Ended, DoneIsSaved, Working

(* Remembering a path changes neither. *)
LEMMA PartSavedUInv == ASSUME UInv, PartSaved PROVE UInv'
<1>1. /\ at = "shards" /\ at' \in {"rotate", "data"}
      /\ UNCHANGED <<shards, data, tracker, step, epoch, served, updates, runs, reached>>
  BY DEF PartSaved, disk, training
<1>2. Taken' = Taken
  BY <1>1 DEF Taken
<1>3. Alike' /\ Continued'
  BY <1>1, <1>2 DEF UInv, Alike, Continued, InEpoch, ActorUpdates, Working
<1>. QED
  BY <1>1, <1>3 DEF UInv, Counted, OneStepTooMany, Ended, DoneIsSaved, Working

(* data.pt holds the position after as many batches. *)
LEMMA SaveDataUInv == ASSUME IInv, UInv, SaveData PROVE UInv'
<1>1. /\ at = "data" /\ at' = "tracker"
      /\ data' = [data EXCEPT ![step] = [by |-> runs, n |-> served]]
      /\ UNCHANGED <<shards, tracker, step, epoch, served, updates, runs, reached>>
  BY DEF SaveData, saving, training
<1>2. Taken' = Taken /\ Taken = step
  BY <1>1 DEF Taken
<1>3. InEpoch(step, served)
  BY <1>1, <1>2 DEF UInv, Continued, Working
<1>4. \A s \in Steps : data'[s] = data[s] \/ (s = step /\ data'[s].n = served)
  BY <1>1 DEF IInv, TypeOK
<1>5. Alike'
  BY <1>1, <1>3, <1>4 DEF UInv, Alike, InEpoch, ActorUpdates
<1>6. Continued'
  BY <1>1, <1>2 DEF UInv, Continued, InEpoch, ActorUpdates, Working
<1>. QED
  BY <1>1, <1>5, <1>6 DEF UInv, Counted, OneStepTooMany, Ended, DoneIsSaved, Working

(* With the tracker the step is done; after the last one so is the run. *)
LEMMA SaveTrackerUInv == ASSUME IInv, UInv, SaveTracker PROVE UInv'
<1>. USE CheckpointingAssumption
<1>1. /\ at = "tracker" /\ tracker' = step /\ step' = step + 1
      /\ at' = IF step >= TotalSteps THEN "done" ELSE "training"
      /\ UNCHANGED <<shards, data, epoch, served, updates, runs, reached>>
  BY DEF SaveTracker, Advance, IsLast
<1>2. step \in Nat /\ runs \in Nat /\ runs > 0 /\ reached \in Nat
  BY <1>1 DEF IInv, TypeOK, Ahead, Working
<1>3. Taken = step /\ (at' = "training" => Taken' = step)
  BY <1>1, <1>2 DEF Taken
<1>4. Alike' /\ Continued'
  BY <1>1, <1>3 DEF UInv, Alike, Continued, InEpoch, ActorUpdates, Working
<1>5. Counted'
  BY <1>1, <1>2 DEF UInv, Counted, OneStepTooMany, Working
<1>6. Ended'
  BY <1>1, <1>2 DEF Ended, DoneIsSaved
<1>. QED
  BY <1>4, <1>5, <1>6 DEF UInv

(* A crash leaves torn files, but none that looks whole. *)
LEMMA CrashUInv == ASSUME IInv, UInv, Crash PROVE UInv'
<1>. USE CheckpointingAssumption
<1>1. /\ at \in Working /\ at' = "down" /\ UNCHANGED <<runs, reached>>
      /\ tracker' \in {tracker, TornTracker} /\ reached \in Nat /\ runs > 0
  BY DEF Crash, IInv, TypeOK, Ahead
<1>2. \A s \in Steps, p \in Parts, r \in Ranks : shards'[s][p][r] \in {shards[s][p][r], Torn}
  BY DEF Crash, IInv, TypeOK
<1>3. \A s \in Steps : data'[s] \in {data[s], Torn}
  BY DEF Crash, IInv, TypeOK
<1>4. Alike'
  BY <1>2, <1>3 DEF UInv, Alike, InEpoch, ActorUpdates, Torn, Parts
<1>. QED
  BY <1>1, <1>4 DEF UInv, Continued, Counted, OneStepTooMany, Ended, DoneIsSaved, Working,
                    TornTracker

(* Every step leaves it so. *)
LEMMA NextUInv == ASSUME Careful, Attainable PROVE IInv /\ UInv /\ [Next]_vars => UInv'
<1>. SUFFICES ASSUME IInv, UInv, [Next]_vars PROVE UInv'
  OBVIOUS
<1>1. CASE UNCHANGED vars
  <2>1. UNCHANGED <<shards, data, tracker, at, step, epoch, served, updates, runs, reached>>
    BY <1>1 DEF vars, disk, saving, training
  <2>2. Alike' /\ Continued'
    BY <2>1 DEF UInv, Alike, Continued, Taken, InEpoch, ActorUpdates
  <2>. QED
    BY <2>1, <2>2 DEF UInv, Counted, OneStepTooMany, Ended, DoneIsSaved
<1>. QED
  BY <1>1, ResumeUInv, NextEpochUInv, TrainStepUInv, RotateUInv, SaveShardUInv, PartSavedUInv,
     SaveDataUInv, SaveTrackerUInv, CrashUInv DEF Next, Progress, Save

(* Whatever the number of crashes and restarts: a run that trains has the   *)
(* weights and the position in the data of one that was never interrupted,  *)
(* saves the last step it was asked for, and a rerun adds at most one (fit, *)
(* _save_checkpoint, _load_checkpoint).                                     *)
THEOREM InterruptionsLeaveNoTrace ==
  ASSUME Careful, Attainable PROVE Spec => []AsUninterrupted
<1>1. IInv /\ UInv => AsUninterrupted
  <2>. SUFFICES ASSUME IInv, UInv PROVE Undisturbed
    BY DEF UInv, Counted, Ended, AsUninterrupted
  <2>. SUFFICES ASSUME at = "training"
                PROVE  served % StepsPerEpoch = (step - 1) % StepsPerEpoch
    BY DEF Undisturbed, UInv, Continued, Taken, Working
  <2>1. /\ StepsPerEpoch \in Nat \ {0} /\ served \in 0 .. StepsPerEpoch
        /\ InEpoch(step - 1, served)
    BY CheckpointingAssumption DEF IInv, TypeOK, UInv, Continued, Taken, Working
  <2>2. PICK k \in Nat : step - 1 = k * StepsPerEpoch + served
    BY <2>1 DEF InEpoch
  <2>3. CASE served < StepsPerEpoch
    <3>1. (k * StepsPerEpoch + served) % StepsPerEpoch = served
      BY <2>1, <2>3, Remainder
    <3>2. (0 * StepsPerEpoch + served) % StepsPerEpoch = served
      BY <2>1, <2>3, Remainder
    <3>. QED
      BY <2>1, <2>2, <3>1, <3>2
  <2>4. CASE served = StepsPerEpoch
    <3>1. ((k + 1) * StepsPerEpoch + 0) % StepsPerEpoch = 0
      BY <2>1, Remainder
    <3>2. (1 * StepsPerEpoch + 0) % StepsPerEpoch = 0
      BY <2>1, Remainder
    <3>3. step - 1 = (k + 1) * StepsPerEpoch + 0 /\ served = 1 * StepsPerEpoch + 0
      BY <2>1, <2>2, <2>4
    <3>. QED
      BY <3>1, <3>2, <3>3
  <2>. QED
    BY <2>1, <2>3, <2>4
<1>. QED
  BY InductiveInvariant, InitUInv, NextUInv, <1>1, PTL DEF Spec

-----------------------------------------------------------------------------
(* Losses. *)

(* No multiple of SaveFreq has gone by without a checkpoint. *)
Regular ==
  /\ tracker # TornTracker => reached <= tracker + SaveFreq
  /\ at \in Working => step <= tracker + SaveFreq
  /\ at = "training" =>
       \E k \in Nat : k * SaveFreq <= tracker /\ step <= (k + 1) * SaveFreq


(* Before the first run nothing is lost. *)
LEMMA InitRegular == Init => Regular
BY CheckpointingAssumption DEF Init, Regular, Working, NoTracker

(* The step after a saved one lies before the next multiple, or on it. *)
LEMMA RegularAfter ==
  ASSUME NEW t \in Nat
  PROVE  \E k \in Nat : k * SaveFreq <= t /\ t + 1 <= (k + 1) * SaveFreq
<1>1. SaveFreq \in Nat \ {0}
  BY CheckpointingAssumption
<1>2. PICK k \in Nat : k * SaveFreq <= t /\ t < (k + 1) * SaveFreq
  BY <1>1, Quotient
<1>3. (k + 1) * SaveFreq \in Nat
  BY <1>1
<1>. QED
  BY <1>2, <1>3

(* A step that is not saved is no multiple, so the next is not past one. *)
LEMMA NextRegular == ASSUME Careful PROVE IInv /\ Regular /\ [Next]_vars => Regular'
<1>. SUFFICES ASSUME IInv, Regular, [Next]_vars PROVE Regular'
  OBVIOUS
<1>. USE CheckpointingAssumption
<1>1. SaveFreq \in Nat \ {0} /\ tracker \in Int /\ step \in Nat /\ reached \in Nat
  BY DEF IInv, TypeOK, Steps, NoTracker, TornTracker
<1>2. CASE Resume
  <2>1. CASE at' = "training" /\ tracker \in Nat /\ step' = tracker + 1
    <3>1. UNCHANGED <<tracker, reached>>
      BY <1>2, StartsAfterTracked
    <3>2. \E k \in Nat : k * SaveFreq <= tracker /\ tracker + 1 <= (k + 1) * SaveFreq
      BY <2>1, RegularAfter
    <3>. QED
      BY <1>1, <2>1, <3>1, <3>2 DEF Regular
  <2>2. CASE at' = "failed"
    BY <1>2, <2>2, StartsAfterTracked DEF Regular, Working
  <2>. QED
    BY <1>2, <2>1, <2>2, StartsAfterTracked
<1>3. CASE NextEpoch
  BY <1>3 DEF NextEpoch, disk, Regular, Working
<1>4. ASSUME NEW esi \in Esi, TrainStep(esi) PROVE Regular'
  <2>1. /\ at = "training" /\ tracker' = tracker /\ tracker # TornTracker /\ step \in Nat
        /\ reached' = IF step > reached THEN step ELSE reached
        /\ \/ at' = "rotate" /\ step' = step
           \/ at' \in {"training", "done"} /\ step' = step + 1 /\ step % SaveFreq # 0
    BY <1>4 DEF TrainStep, disk, SaveDue, Advance, IInv, Ahead, TypeOK, Working
  <2>2. reached <= tracker + SaveFreq /\ step <= tracker + SaveFreq
    BY <2>1 DEF Regular, Working
  <2>3. reached' <= tracker + SaveFreq
    BY <2>1, <2>2
  <2>4. PICK k \in Nat : k * SaveFreq <= tracker /\ step <= (k + 1) * SaveFreq
    BY <2>1 DEF Regular
  <2>5. CASE at' = "rotate" /\ step' = step
    BY <2>1, <2>2, <2>3, <2>5 DEF Regular, Working
  <2>6. CASE at' \in {"training", "done"} /\ step' = step + 1 /\ step % SaveFreq # 0
    <3>1. ((k + 1) * SaveFreq + 0) % SaveFreq = 0
      BY <1>1, Remainder
    <3>2. (k + 1) * SaveFreq \in Nat /\ (k + 1) * SaveFreq = k * SaveFreq + SaveFreq
          /\ k * SaveFreq \in Nat
      BY <1>1
    <3>3. step # (k + 1) * SaveFreq
      BY <1>1, <2>6, <3>1, <3>2
    <3>4. step + 1 <= (k + 1) * SaveFreq
      BY <1>1, <2>1, <2>4, <3>2, <3>3
    <3>5. step + 1 <= tracker + SaveFreq
      BY <1>1, <2>1, <2>4, <3>2, <3>4
    <3>. QED
      BY <2>1, <2>3, <2>4, <2>6, <3>4, <3>5 DEF Regular
  <2>. QED
    BY <2>1, <2>5, <2>6
<1>5. CASE SaveTracker
  <2>1. /\ at = "tracker" /\ at' \in {"training", "done"} /\ tracker' = step /\ step' = step + 1
        /\ reached' = reached /\ tracker # TornTracker /\ tracker < step
    BY <1>5 DEF SaveTracker, Advance, IInv, Ahead, Working
  <2>2. reached <= tracker + SaveFreq
    BY <2>1 DEF Regular
  <2>3. \E k \in Nat : k * SaveFreq <= step /\ step + 1 <= (k + 1) * SaveFreq
    BY <1>1, RegularAfter
  <2>. QED
    BY <1>1, <2>1, <2>2, <2>3 DEF Regular
<1>6. CASE Rotate \/ (\E r \in Ranks : SaveShard(r)) \/ PartSaved \/ SaveData
  <2>1. at \in Working /\ at' # "training" /\ UNCHANGED <<tracker, reached, step>>
    BY <1>6 DEF Rotate, SaveShard, PartSaved, SaveData, disk, training, Working
  <2>. QED
    BY <2>1 DEF Regular
<1>7. CASE Crash
  <2>1. at' = "down" /\ tracker' \in {tracker, TornTracker} /\ reached' = reached
    BY <1>7 DEF Crash
  <2>. QED
    BY <2>1 DEF Regular, Working
<1>8. CASE UNCHANGED vars
  BY <1>8 DEF vars, disk, training, Regular
<1>. QED
  BY <1>2, <1>3, <1>4, <1>5, <1>6, <1>7, <1>8 DEF Next, Progress, Save

(* A restart goes back by no more steps than lie between two checkpoints    *)
(* (fit, save_freq).                                                        *)
THEOREM RestartsRepeatLittle == ASSUME Careful PROVE Spec => LossBounded
<1>1. ASSUME IInv, Regular, [Next]_vars
      PROVE  [at \notin Working /\ at' = "training" => step' + SaveFreq > reached]_vars
  <2>. SUFFICES ASSUME at \notin Working, at' = "training", Next
                PROVE  step' + SaveFreq > reached
    BY <1>1 DEF vars
  <2>1. Resume
    BY DEF Next, Progress, NextEpoch, TrainStep, Save, Rotate, SaveShard, PartSaved, SaveData,
           SaveTracker, Crash, Working
  <2>2. tracker \in Nat /\ step' = tracker + 1
    BY <1>1, <2>1, StartsAfterTracked
  <2>3. reached <= tracker + SaveFreq /\ reached \in Nat /\ SaveFreq \in Nat
    BY <1>1, <2>2, CheckpointingAssumption DEF Regular, IInv, TypeOK, TornTracker
  <2>. QED
    BY <2>2, <2>3
<1>. QED
  BY InductiveInvariant, InitRegular, NextRegular, <1>1, PTL DEF Spec, LossBounded

-----------------------------------------------------------------------------
(* Rotation. *)

(* What a run has written, it remembers.  This needs nothing of Careful, so *)
(* types are those of the variables it is about.                            *)
KnownTypes ==
  /\ shards \in [Steps -> [Parts -> [Ranks -> File]]]
  /\ saved \in [Parts -> Seq(Steps)]
  /\ part \in Parts /\ runs \in Nat
  /\ updates \in [Parts -> [Ranks -> Nat]]
  /\ at \in Working \ {"training"} => step \in Steps

Known ==
  /\ KnownTypes
  /\ \A s \in Steps, p \in Parts, r \in Ranks : shards[s][p][r].by <= runs
  /\ at \in Working =>
       /\ runs > 0
       /\ \A p \in Parts : \A s \in Written(p) :
            \/ \E i \in DOMAIN saved[p] : saved[p][i] = s
            \/ at = "shards" /\ part = p /\ s = step
       /\ Keep > 0 =>
            /\ \A p \in Parts : Len(saved[p]) <= Keep
            /\ at = "shards" => Len(saved[part]) < Keep

(* A run begins with nothing written, and nothing remembered. *)
LEMMA StartKnown ==
  ASSUME Known, Start, at' \in {"training", "failed"}, updates' \in [Parts -> [Ranks -> Nat]]
  PROVE  Known'
<1>. USE CheckpointingAssumption
<1>1. /\ runs' = runs + 1 /\ saved' = [p \in Parts |-> <<>>]
      /\ UNCHANGED <<shards, part>>
  BY DEF Start, disk
<1>2. runs \in Nat /\ shards \in [Steps -> [Parts -> [Ranks -> File]]] /\ part \in Parts
  BY DEF Known, KnownTypes
<1>3. \A s \in Steps, p \in Parts, r \in Ranks : shards[s][p][r].by \in Nat
  BY <1>2 DEF File
<1>4. \A s \in Steps, p \in Parts, r \in Ranks : shards[s][p][r].by <= runs
  BY DEF Known
<1>5. \A p \in Parts : Written(p)' = {}
  BY <1>1, <1>2, <1>3, <1>4 DEF Written
<1>6. saved' \in [Parts -> Seq(Steps)]
  BY <1>1
<1>7. KnownTypes'
  BY <1>1, <1>2, <1>6 DEF KnownTypes, Working
<1>8. \A s \in Steps, p \in Parts, r \in Ranks : shards'[s][p][r].by <= runs'
  BY <1>1, <1>2, <1>3, <1>4
<1>9. runs' > 0 /\ \A p \in Parts : Len(saved'[p]) = 0
  BY <1>1, <1>2
<1>. QED
  BY <1>5, <1>7, <1>8, <1>9 DEF Known

(* Training and what is written besides the shards. *)
LEMMA OtherKnown ==
  ASSUME Known, UNCHANGED <<shards, saved, runs>>, part' \in Parts,
         updates' \in [Parts -> [Ranks -> Nat]],
         at' \in Working => at \in Working /\ at' # "shards",
         at' \in Working \ {"training"} => step' \in Steps,
         at # "shards"
  PROVE  Known'
<1>1. \A p \in Parts : Written(p)' = Written(p)
  BY DEF Written
<1>. QED
  BY <1>1 DEF Known, KnownTypes

(* Rotation forgets the paths it removes, and makes room for one more. *)
LEMMA RotateKnown == ASSUME Known, Rotate PROVE Known'
<1>. USE CheckpointingAssumption
<1>. DEFINE paths == saved[part]
            n == Outdated(paths)
            removed == {paths[i] : i \in 1 .. n}
<1>1. /\ at = "rotate" /\ at' = "shards"
      /\ shards' = [s \in Steps |-> IF s \in removed
                      THEN [shards[s] EXCEPT ![part] = NoShards[part]] ELSE shards[s]]
      /\ saved' = [saved EXCEPT ![part] = SubSeq(@, n + 1, Len(@))]
      /\ UNCHANGED <<part, step, runs, updates>>
  BY DEF Rotate, training
<1>2. /\ part \in Parts /\ paths \in Seq(Steps) /\ step \in Steps /\ Len(paths) \in Nat
      /\ runs \in Nat /\ runs > 0 /\ Keep \in Nat
      /\ DOMAIN paths = 1 .. Len(paths)
  BY <1>1 DEF Known, KnownTypes, Working
<1>3. n \in 0 .. Len(paths) /\ (Keep > 0 /\ Len(paths) <= Keep => Len(paths) - n < Keep)
  BY <1>2 DEF Outdated
<1>4. saved'[part] = SubSeq(paths, n + 1, Len(paths))
  BY <1>1, <1>2 DEF Known, KnownTypes
<1>. HIDE DEF paths, n
<1>5. /\ saved'[part] \in Seq(Steps) /\ Len(saved'[part]) = Len(paths) - n
      /\ \A i \in 1 .. Len(paths) - n : saved'[part][i] = paths[i + n]
  BY <1>2, <1>3, <1>4
<1>6. \A p \in Parts : p # part => saved'[p] = saved[p]
  BY <1>1 DEF Known, KnownTypes
<1>7. \A s \in Steps, p \in Parts, r \in Ranks :
        shards'[s][p][r] = IF s \in removed /\ p = part THEN Absent ELSE shards[s][p][r]
  BY <1>1, <1>2 DEF Known, KnownTypes, NoShards
<1>8. KnownTypes'
  <2>1. shards' \in [Steps -> [Parts -> [Ranks -> File]]]
    BY <1>1, <1>2 DEF Known, KnownTypes, NoShards, Absent, File
  <2>2. saved' \in [Parts -> Seq(Steps)]
    BY <1>1, <1>5, <1>2 DEF Known, KnownTypes
  <2>. QED
    BY <1>1, <1>2, <2>1, <2>2 DEF Known, KnownTypes
<1>9. \A s \in Steps, p \in Parts, r \in Ranks : shards'[s][p][r].by <= runs
  BY <1>2, <1>7 DEF Known, Absent
<1>10. ASSUME NEW p \in Parts, NEW s \in Written(p)'
       PROVE  \E i \in DOMAIN saved'[p] : saved'[p][i] = s
  <2>1. s \in Steps /\ s \in Written(p) /\ ~(s \in removed /\ p = part)
    BY <1>1, <1>2, <1>7, <1>10 DEF Written, Absent
  <2>2. PICK i \in DOMAIN saved[p] : saved[p][i] = s
    BY <1>1, <2>1 DEF Known, Working
  <2>3. CASE p # part
    BY <1>6, <2>2, <2>3
  <2>4. CASE p = part
    <3>1. i \in 1 .. Len(paths) /\ paths[i] = s
      BY <1>2, <2>2, <2>4 DEF paths
    <3>2. i \notin 1 .. n
      BY <2>1, <2>4, <3>1
    <3>3. i - n \in 1 .. Len(paths) - n /\ (i - n) + n = i
      BY <1>2, <1>3, <3>1, <3>2
    <3>4. DOMAIN saved'[part] = 1 .. Len(paths) - n
      BY <1>5
    <3>. QED
      BY <1>5, <2>4, <3>1, <3>3, <3>4
  <2>. QED
    BY <2>3, <2>4
<1>11. ASSUME Keep > 0
       PROVE  /\ \A p \in Parts : Len(saved'[p]) <= Keep
              /\ Len(saved'[part]) < Keep
  <2>1. \A p \in Parts : Len(saved[p]) <= Keep
    BY <1>1, <1>11 DEF Known, Working
  <2>2. Len(saved'[part]) < Keep
    BY <1>2, <1>3, <1>5, <1>11, <2>1 DEF paths
  <2>3. Len(saved'[part]) <= Keep
    <3>1. Len(saved'[part]) \in Int
      BY <1>5
    <3>. QED
      BY <1>2, <2>2, <3>1
  <2>4. ASSUME NEW p \in Parts, p # part PROVE Len(saved'[p]) <= Keep
    BY <1>6, <2>1, <2>4
  <2>. QED
    BY <2>2, <2>3, <2>4
<1>12. runs' > 0
  BY <1>1, <1>2
<1>. QED
  <2>1. at' = "shards" /\ part' = part /\ runs' = runs
    BY <1>1
  <2>. QED
    BY <1>8, <1>9, <1>10, <1>11, <1>12, <2>1 DEF Known

(* A run writes into the folder of its step only. *)
LEMMA SaveShardKnown == ASSUME Known, NEW r \in Ranks, SaveShard(r) PROVE Known'
<1>. USE CheckpointingAssumption
<1>1. /\ at = "shards" /\ at' = at
      /\ shards' = [shards EXCEPT ![step][part][r] = [by |-> runs, n |-> updates[part][r]]]
      /\ UNCHANGED <<saved, part, step, runs, updates>>
  BY DEF SaveShard, training
<1>2. part \in Parts /\ step \in Steps /\ runs \in Nat
  BY <1>1 DEF Known, KnownTypes, Working
<1>3. updates[part][r] \in Nat
  BY <1>2 DEF Known, KnownTypes
<1>4. shards' \in [Steps -> [Parts -> [Ranks -> File]]]
  BY <1>1, <1>2, <1>3 DEF Known, KnownTypes, File
<1>5. KnownTypes'
  BY <1>1, <1>4 DEF Known, KnownTypes
<1>6. \A s \in Steps, p \in Parts, q \in Ranks :
        \/ shards'[s][p][q] = shards[s][p][q]
        \/ s = step /\ p = part /\ shards'[s][p][q].by = runs
  BY <1>1, <1>2 DEF Known, KnownTypes
<1>7. \A s \in Steps, p \in Parts, q \in Ranks : shards'[s][p][q].by <= runs
  BY <1>2, <1>6 DEF Known
<1>8. \A p \in Parts : \A s \in Written(p)' : s \in Written(p) \/ (s = step /\ p = part)
  BY <1>1, <1>6 DEF Written
<1>. QED
  BY <1>1, <1>5, <1>7, <1>8 DEF Known

(* The folder that was written is remembered, in the room that was made. *)
LEMMA PartSavedKnown == ASSUME Known, PartSaved PROVE Known'
<1>. USE CheckpointingAssumption
<1>1. /\ at = "shards" /\ at' \in {"rotate", "data"} /\ part' \in Parts
      /\ saved' = [saved EXCEPT ![part] = Append(@, step)]
      /\ UNCHANGED <<shards, step, runs, updates>>
  BY DEF PartSaved, disk, training, Known, KnownTypes, Parts
<1>2. part \in Parts /\ step \in Steps /\ saved[part] \in Seq(Steps) /\ Keep \in Nat
  BY <1>1 DEF Known, KnownTypes, Working
<1>3. /\ saved'[part] = Append(saved[part], step)
      /\ \A p \in Parts : p # part => saved'[p] = saved[p]
  BY <1>1, <1>2 DEF Known, KnownTypes
<1>4. /\ saved'[part] \in Seq(Steps) /\ Len(saved'[part]) = Len(saved[part]) + 1
      /\ Len(saved[part]) \in Nat
      /\ \A i \in DOMAIN saved[part] : i \in DOMAIN saved'[part] /\ saved'[part][i] = saved[part][i]
      /\ Len(saved[part]) + 1 \in DOMAIN saved'[part]
      /\ saved'[part][Len(saved[part]) + 1] = step
  BY <1>2, <1>3
<1>5. saved' \in [Parts -> Seq(Steps)]
  BY <1>1, <1>2, <1>3, <1>4 DEF Known, KnownTypes
<1>6. KnownTypes'
  BY <1>1, <1>2, <1>5 DEF Known, KnownTypes
<1>7. ASSUME NEW p \in Parts, NEW s \in Written(p)'
      PROVE  \E i \in DOMAIN saved'[p] : saved'[p][i] = s
  <2>1. s \in Written(p)
    BY <1>1, <1>7 DEF Written
  <2>2. (\E i \in DOMAIN saved[p] : saved[p][i] = s) \/ (p = part /\ s = step)
    BY <1>1, <2>1 DEF Known, Working
  <2>3. CASE p # part
    BY <1>3, <2>2, <2>3
  <2>4. CASE p = part
    BY <1>4, <2>2, <2>4
  <2>. QED
    BY <2>3, <2>4
<1>8. ASSUME Keep > 0, NEW p \in Parts PROVE Len(saved'[p]) <= Keep
  <2>1. Len(saved[p]) <= Keep /\ Len(saved[part]) < Keep
    BY <1>1, <1>8 DEF Known, Working
  <2>2. CASE p # part
    BY <1>3, <2>1, <2>2
  <2>3. CASE p = part
    BY <1>2, <1>4, <2>1, <2>3
  <2>. QED
    BY <2>2, <2>3
<1>. QED
  BY <1>1, <1>6, <1>7, <1>8 DEF Known, Working

(* A crash writes only torn files, which no run has written whole. *)
LEMMA CrashKnown == ASSUME Known, Crash PROVE Known'
<1>. USE CheckpointingAssumption
<1>1. PICK torn \in SUBSET pending :
        shards' = [s \in Steps |-> IF s # step THEN shards[s] ELSE
                     [shards[s] EXCEPT ![part] = [r \in Ranks |->
                        IF r \in torn THEN Torn ELSE shards[s][part][r]]]]
  BY DEF Crash
<1>2. /\ at' = "down" /\ part' = "actor" /\ saved' = [p \in Parts |-> <<>>]
      /\ updates' = Untrained /\ UNCHANGED runs
  BY DEF Crash
<1>3. part \in Parts /\ runs \in Nat
  BY DEF Known, KnownTypes
<1>4. ASSUME NEW s \in Steps, NEW p \in Parts, NEW r \in Ranks
      PROVE  shards'[s][p][r] \in {shards[s][p][r], Torn}
  BY <1>1, <1>3 DEF Known, KnownTypes
<1>5. shards' \in [Steps -> [Parts -> [Ranks -> File]]]
  <2>1. ASSUME NEW s \in Steps
        PROVE  [shards[s] EXCEPT ![part] = [r \in Ranks |->
                   IF r \in torn THEN Torn ELSE shards[s][part][r]]]
                 \in [Parts -> [Ranks -> File]]
    BY <1>3 DEF Known, KnownTypes, Torn, File
  <2>. QED
    BY <1>1, <2>1 DEF Known, KnownTypes
<1>6. KnownTypes'
  BY <1>2, <1>3, <1>5 DEF KnownTypes, Working, Parts, Untrained
<1>7. \A s \in Steps, p \in Parts, r \in Ranks : shards'[s][p][r].by <= runs
  BY <1>3, <1>4 DEF Known, Torn
<1>. QED
  BY <1>2, <1>6, <1>7 DEF Known, Working

(* No run, nothing written. *)
LEMMA InitKnown == Init => Known
<1>. SUFFICES ASSUME Init PROVE Known
  OBVIOUS
<1>. USE CheckpointingAssumption
<1>1. KnownTypes
  BY DEF Init, KnownTypes, File, Absent, NoShards, Parts, Working, Untrained
<1>2. \A s \in Steps, p \in Parts, r \in Ranks : shards[s][p][r].by <= runs
  BY DEF Init, NoShards, Absent
<1>. QED
  BY <1>1, <1>2 DEF Init, Known, Working

(* Every step leaves it so. *)
LEMMA NextKnown == Known /\ [Next]_vars => Known'
<1>. SUFFICES ASSUME Known, [Next]_vars PROVE Known'
  OBVIOUS
<1>. USE CheckpointingAssumption
<1>1. CASE Resume
  <2>1. PICK mode \in Modes : \/ StartFromScratch(mode)
                              \/ \E s \in Steps : ResumeFrom(mode, s)
                              \/ ResumeFails(mode)
    BY <1>1 DEF Resume
  <2>2. CASE StartFromScratch(mode)
    BY <2>2, StartKnown DEF StartFromScratch, Untrained
  <2>3. ASSUME NEW s \in Steps, ResumeFrom(mode, s) PROVE Known'
    <3>1. updates' \in [Parts -> [Ranks -> Nat]]
      BY <2>3 DEF ResumeFrom, Known, KnownTypes, File
    <3>. QED
      BY <2>3, <3>1, StartKnown DEF ResumeFrom
  <2>4. CASE ResumeFails(mode)
    BY <2>4, StartKnown DEF ResumeFails, Known, KnownTypes
  <2>. QED
    BY <2>1, <2>2, <2>3, <2>4
<1>2. CASE NextEpoch
  BY <1>2, OtherKnown DEF NextEpoch, disk, saving, Working, Known, KnownTypes
<1>3. ASSUME NEW esi \in Esi, TrainStep(esi) PROVE Known'
  <2>1. updates' \in [Parts -> [Ranks -> Nat]]
    <3>1. ASSUME NEW p \in Parts, NEW r \in Ranks
          PROVE  updates[p][r] \in Nat /\ updates[p][r] + 1 \in Nat
      BY DEF Known, KnownTypes
    <3>. QED
      BY <1>3, <3>1 DEF TrainStep
  <2>2. /\ at = "training" /\ step \in Steps /\ UNCHANGED <<shards, saved, runs>>
        /\ \/ at' = "rotate" /\ step' = step /\ part' = "actor"
           \/ at' \in {"training", "done"} /\ part' = part
    BY <1>3 DEF TrainStep, Advance, disk
  <2>3. part' \in Parts /\ (at' \in Working \ {"training"} => step' \in Steps)
    BY <2>2 DEF Known, KnownTypes, Parts, Working
  <2>. QED
    BY <2>1, <2>2, <2>3, OtherKnown DEF Working
<1>4. CASE Rotate
  BY <1>4, RotateKnown
<1>5. ASSUME NEW r \in Ranks, SaveShard(r) PROVE Known'
  BY <1>5, SaveShardKnown
<1>6. CASE PartSaved
  BY <1>6, PartSavedKnown
<1>7. CASE SaveData
  BY <1>7, OtherKnown DEF SaveData, saving, training, Working, Known, KnownTypes
<1>8. CASE SaveTracker
  <2>1. /\ at = "tracker" /\ at' \in {"training", "done"}
        /\ UNCHANGED <<shards, saved, part, updates, runs>>
    BY <1>8 DEF SaveTracker, Advance, saving
  <2>. QED
    BY <2>1, OtherKnown DEF Working, Known, KnownTypes
<1>9. CASE Crash
  BY <1>9, CrashKnown
<1>10. CASE UNCHANGED vars
  <2>1. UNCHANGED <<shards, saved, part, runs, step, at, updates>>
    BY <1>10 DEF vars, disk, saving, training
  <2>2. \A p \in Parts : Written(p)' = Written(p)
    BY <2>1 DEF Written
  <2>. QED
    BY <2>1, <2>2 DEF Known, KnownTypes
<1>. QED
  BY <1>1, <1>2, <1>3, <1>4, <1>5, <1>6, <1>7, <1>8, <1>9, <1>10 DEF Next, Progress, Save

(* No more folders than paths: a set all of whose members but one are in a  *)
(* list is no larger than the list.                                         *)
LEMMA ListedCardinality ==
  ASSUME NEW paths \in Seq(Steps), NEW S \in SUBSET Steps,
         \A s \in S : \E i \in DOMAIN paths : paths[i] = s
  PROVE  IsFiniteSet(S) /\ Cardinality(S) <= Len(paths)
<1>1. paths \in [1 .. Len(paths) -> Steps] /\ Len(paths) \in Nat
  OBVIOUS
<1>2. IsFiniteSet(1 .. Len(paths)) /\ Cardinality(1 .. Len(paths)) = Len(paths)
  <2>. DEFINE m == Len(paths)
  <2>1. m \in Int /\ m >= 0 /\ 1 \in Int
    BY <1>1
  <2>. HIDE DEF m
  <2>2. IsFiniteSet(1 .. m) /\ Cardinality(1 .. m) = IF 1 > m THEN 0 ELSE m - 1 + 1
    BY <2>1, FS_Interval
  <2>3. Cardinality(1 .. m) = m
    BY <2>1, <2>2
  <2>. QED
    BY <2>2, <2>3 DEF m
<1>3. DEFINE R == {paths[i] : i \in 1 .. Len(paths)}
             f == [i \in 1 .. Len(paths) |-> paths[i]]
<1>4. f \in Surjection(1 .. Len(paths), R)
  BY DEF Surjection
<1>5. IsFiniteSet(R) /\ Cardinality(R) <= Len(paths)
  <2>. HIDE DEF R, f
  <2>. QED
    BY <1>2, <1>4, FS_SurjCardinalityBound, FS_Surjection
<1>6. S \subseteq R
  BY <1>1
<1>. HIDE DEF R
<1>. QED
  BY <1>1, <1>5, <1>6, FS_Subset, FS_CardinalityType

(* Rotation never leaves more than max_actor_ckpt_to_keep and               *)
(* max_critic_ckpt_to_keep checkpoints of one run on disk, in every mode of *)
(* resuming and whatever the limit (checkpoint_manager.py, save_checkpoint, *)
(* ensure_checkpoint_capacity).                                             *)
THEOREM RotationKeepsBounds == Spec => []RotationBounds
<1>1. Known => RotationBounds
  <2>. SUFFICES ASSUME Known, Keep > 0, at \in Working, NEW p \in Parts
                PROVE  Cardinality(Written(p)) <= Keep
    BY DEF RotationBounds
  <2>1. /\ saved[p] \in Seq(Steps) /\ Len(saved[p]) \in Nat /\ Keep \in Nat
        /\ Len(saved[p]) <= Keep
    BY CheckpointingAssumption DEF Known, KnownTypes
  <2>2. Written(p) \in SUBSET Steps
    BY DEF Written
  <2>3. CASE at = "shards" /\ p = part
    <3>. DEFINE S == Written(p) \ {step}
    <3>1. \A s \in S : \E i \in DOMAIN saved[p] : saved[p][i] = s
      BY DEF Known
    <3>. HIDE DEF S
    <3>2. IsFiniteSet(S) /\ Cardinality(S) <= Len(saved[p])
      BY <2>1, <2>2, <3>1, ListedCardinality DEF S
    <3>3. Len(saved[p]) < Keep
      BY <2>3 DEF Known
    <3>4. IsFiniteSet(S \cup {step}) /\ Cardinality(S \cup {step}) <= Cardinality(S) + 1
      <4>1. Cardinality(S) \in Nat
        BY <3>2, FS_CardinalityType
      <4>2. IsFiniteSet(S \cup {step}) /\ Cardinality(S \cup {step}) = Cardinality(S) + 1
        BY <3>2, FS_AddElement DEF S
      <4>. QED
        BY <4>1, <4>2
    <3>5. Written(p) \subseteq S \cup {step}
      BY DEF S
    <3>6. Cardinality(Written(p)) <= Cardinality(S \cup {step}) /\ Cardinality(Written(p)) \in Nat
      BY <3>4, <3>5, FS_Subset, FS_CardinalityType
    <3>7. Cardinality(S) \in Nat /\ Cardinality(S \cup {step}) \in Nat
      BY <3>2, <3>4, FS_CardinalityType
    <3>. QED
      BY <2>1, <3>2, <3>3, <3>4, <3>6, <3>7
  <2>4. CASE ~(at = "shards" /\ p = part)
    <3>1. \A s \in Written(p) : \E i \in DOMAIN saved[p] : saved[p][i] = s
      BY <2>4 DEF Known
    <3>2. IsFiniteSet(Written(p)) /\ Cardinality(Written(p)) <= Len(saved[p])
      BY <2>1, <2>2, <3>1, ListedCardinality
    <3>. QED
      BY <2>1, <3>2, FS_CardinalityType
  <2>. QED
    BY <2>3, <2>4
<1>. QED
  BY InitKnown, NextKnown, <1>1, PTL DEF Spec
=============================================================================
