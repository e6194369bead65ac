--------------------------- MODULE Checkpointing ---------------------------
(***************************************************************************)
(* The trainer's checkpoints (verl/trainer/ppo/ray_trainer.py, fit,        *)
(* _save_checkpoint, _load_checkpoint; verl/utils/checkpoint).  A run      *)
(* trains step after step; every so often all ranks write their shards     *)
(* into the folder of the step, the driver adds the data loader's position *)
(* and last the tracker file that names the step.  The process may be      *)
(* killed between any two writes, or within one, and be started again.     *)
(***************************************************************************)
EXTENDS Integers, Sequences, FiniteSets

CONSTANTS
  Ranks,         \* workers of a worker group, one shard each
  UseCritic,     \* use_critic
  TotalSteps,    \* total_training_steps
  StepsPerEpoch, \* len(train_dataloader)
  Epochs,        \* trainer.total_epochs
  SaveFreq,      \* trainer.save_freq
  Keep,          \* max_actor_ckpt_to_keep and max_critic_ckpt_to_keep, 0 for None
  Warmup,        \* trainer.critic_warmup
  Esi,           \* answers of should_save_ckpt_esi
  Modes,         \* values of trainer.resume_mode a run may be started with
  MaxRuns        \* bound: how often the program is started

ASSUME CheckpointingAssumption ==
  /\ Ranks # {} /\ UseCritic \in BOOLEAN
  /\ {TotalSteps, StepsPerEpoch, Epochs, SaveFreq, MaxRuns} \subseteq Nat \ {0}
  /\ {Keep, Warmup} \subseteq Nat
  /\ Esi \subseteq BOOLEAN
  /\ Modes \subseteq {"auto", "disable", "resume_path"}

VARIABLES
  shards,  \* shards[s][p][r]: global_step_s/<p>/*_rank_r.pt
  data,    \* data[s]: global_step_s/data.pt
  tracker, \* latest_checkpointed_iteration.txt
  at,      \* where the run is
  part,    \* the worker group that is saving
  pending, \* ranks whose shard is still to be written
  saved,   \* saved[p]: previous_saved_paths of rank 0
  step,    \* global_steps
  epoch, served,  \* epochs begun, batches taken from this one
  updates, \* updates[p][r]: optimizer steps in rank r's weights
  runs,    \* how often the program was started
  reached  \* auxiliary: the furthest step ever trained

disk == <<shards, data, tracker>>
saving == <<part, pending, saved>>
training == <<step, epoch, served, updates>>
vars == <<disk, at, saving, training, runs, reached>>

-----------------------------------------------------------------------------
\* A rerun of finished training takes one more step: steps stay below this.
Steps == 1 .. TotalSteps + MaxRuns
Parts == {"actor", "critic"}
Working == {"training", "rotate", "shards", "data", "tracker"}

(* A file is what run `by' wrote into it; run 0 wrote none of them. *)
File == [by : Nat, n : Nat]
Absent == [by |-> 0, n |-> 0]
Torn == [by |-> 0, n |-> 1]
NoShards == [p \in Parts |-> [r \in Ranks |-> Absent]]

NoTracker == 0
TornTracker == -1     \* opened for writing, and empty

Untrained == [p \in Parts |-> [r \in Ranks |-> 0]]

PartsSaved == IF UseCritic THEN Parts ELSE {"actor"}

(* os.path.exists of the folder of step s. *)
Exists(s) == data[s] # Absent \/ shards[s] # NoShards

Loadable(s) ==
  /\ \A p \in PartsSaved, r \in Ranks : shards[s][p][r] \notin {Absent, Torn}
  /\ data[s] # Torn

Init ==
  /\ shards = [s \in Steps |-> NoShards]
  /\ data = [s \in Steps |-> Absent]
  /\ tracker = NoTracker
  /\ at = "down" /\ part = "actor" /\ pending = {}
  /\ saved = [p \in Parts |-> <<>>]
  /\ step = 0 /\ epoch = 0 /\ served = 0 /\ updates = Untrained
  /\ runs = 0 /\ reached = 0

-----------------------------------------------------------------------------
(* fit and _load_checkpoint, up to the first batch. *)
Start ==
  /\ at \notin Working /\ runs < MaxRuns
  /\ runs' = runs + 1
  /\ saved' = [p \in Parts |-> <<>>]
  /\ epoch' = 0
  /\ UNCHANGED <<disk, part, pending, reached>>

(* What find_latest_ckpt_path returns; it raises on a torn tracker, before *)
(* resume_mode is looked at.                                               *)
Bug_Latest == {s \in Steps : s + 1 = tracker /\ Exists(s)}  \* counts from zero

Latest == {s \in Steps : s = tracker /\ Exists(s)}

Candidates(mode) ==
  IF mode = "auto" THEN Latest ELSE {s \in Steps : Exists(s)}

(* The next batch to train, and the place in the data loader: a missing    *)
(* data.pt is only warned about.                                           *)
FirstStep(s) == s + 1
Bug_Position(s) == 0     \* the data loader's state is not loaded
Position(s) == data[s].n

StartFromScratch(mode) ==
  /\ Start
  /\ \/ mode = "disable"
     \/ mode = "auto" /\ tracker # TornTracker /\ Latest = {}
  /\ at' = "training" /\ step' = FirstStep(0) /\ served' = 0 /\ updates' = Untrained

ResumeFrom(mode, s) ==
  /\ Start
  /\ mode # "disable" /\ tracker # TornTracker
  /\ s \in Candidates(mode) /\ Loadable(s)
  /\ at' = "training" /\ step' = FirstStep(s)
  /\ updates' = [p \in Parts |-> [r \in Ranks |->
                   IF p \in PartsSaved THEN shards[s][p][r].n ELSE 0]]
  /\ served' = Position(s)

ResumeFails(mode) ==
  /\ Start
  /\ mode # "disable"
  /\ tracker = TornTracker \/ \E s \in Candidates(mode) : ~Loadable(s)
  /\ at' = "failed"
  /\ UNCHANGED <<step, served, updates>>

-----------------------------------------------------------------------------
Bug_IsLast == step = TotalSteps     \* misses it when resumed beyond it
IsLast == step >= TotalSteps

Advance ==
  /\ step' = step + 1
  /\ at' = IF IsLast THEN "done" ELSE "training"

Bug_OnlyRegular(esi) == step % SaveFreq = 0 \/ esi     \* not after the last step
Bug_Rarely(esi) == IsLast \/ step % (SaveFreq + 1) = 0 \/ esi
SaveDue(esi) == IsLast \/ step % SaveFreq = 0 \/ esi

(* The loop over the data loader is over; so is the run after the last epoch. *)
Bug_MoreBatches == served <= StepsPerEpoch
MoreBatches == served < StepsPerEpoch

NextEpoch ==
  /\ at = "training" /\ ~MoreBatches
  /\ IF epoch + 1 < Epochs
     THEN epoch' = epoch + 1 /\ served' = 0 /\ at' = at
     ELSE at' = "done" /\ UNCHANGED <<epoch, served>>
  /\ UNCHANGED <<disk, saving, step, updates, runs, reached>>

TrainStep(esi) ==
  /\ at = "training" /\ MoreBatches /\ step \in Steps
  /\ served' = served + 1
  /\ updates' = [p \in Parts |-> [r \in Ranks |->
                   IF (p = "actor" /\ Warmup <= step) \/ (p = "critic" /\ UseCritic)
                   THEN updates[p][r] + 1 ELSE updates[p][r]]]
  /\ reached' = IF step > reached THEN step ELSE reached
  /\ IF SaveDue(esi)
     THEN at' = "rotate" /\ part' = "actor" /\ UNCHANGED step
     ELSE Advance /\ UNCHANGED part
  /\ UNCHANGED <<disk, pending, saved, epoch, runs>>

-----------------------------------------------------------------------------
(* save_checkpoint of one worker group. *)
(* How many of its paths rank 0 removes, while the others wait at the barrier. *)
Bug_OneTooMany(paths) ==
  IF Keep > 0 /\ Len(paths) + 1 >= Keep THEN Len(paths) - Keep + 2 ELSE 0
Bug_OneTooFew(paths) ==
  IF Keep > 0 /\ Len(paths) >= Keep THEN Len(paths) - Keep ELSE 0
Outdated(paths) ==
  IF Keep > 0 /\ Len(paths) >= Keep THEN Len(paths) - Keep + 1 ELSE 0

Rotate ==
  LET n == Outdated(saved[part])
      removed == {saved[part][i] : i \in 1 .. n}
  IN /\ at = "rotate"
     /\ shards' = [s \in Steps |-> IF s \in removed
                     THEN [shards[s] EXCEPT ![part] = NoShards[part]] ELSE shards[s]]
     /\ saved' = [saved EXCEPT ![part] = SubSeq(@, n + 1, Len(@))]
     /\ at' = "shards" /\ pending' = Ranks
     /\ UNCHANGED <<data, tracker, part, training, runs, reached>>

(* One rank writes its model, optimizer and extra state. *)
SaveShard(r) ==
  /\ at = "shards" /\ r \in pending
  /\ shards' = [shards EXCEPT ![step][part][r] = [by |-> runs, n |-> updates[part][r]]]
  /\ pending' = pending \ {r}
  /\ UNCHANGED <<data, tracker, at, part, saved, training, runs, reached>>

(* The barrier after the shards; then the next worker group. *)
Bug_MoreParts == UseCritic     \* does not look at which one it was
MoreParts == part = "actor" /\ UseCritic

PartSaved ==
  /\ at = "shards" /\ pending = {}
  /\ saved' = [saved EXCEPT ![part] = Append(@, step)]
  /\ IF MoreParts
     THEN part' = "critic" /\ at' = "rotate"
     ELSE at' = "data" /\ UNCHANGED part
  /\ UNCHANGED <<disk, pending, training, runs, reached>>

SaveData ==
  /\ at = "data"
  /\ data' = [data EXCEPT ![step] = [by |-> runs, n |-> served]]
  /\ at' = "tracker"
  /\ UNCHANGED <<shards, tracker, saving, training, runs, reached>>

SaveTracker ==
  /\ at = "tracker"
  /\ tracker' = step
  /\ Advance
  /\ UNCHANGED <<shards, data, saving, epoch, served, updates, runs, reached>>

-----------------------------------------------------------------------------
(* The job is killed.  The files being written may be torn; everything in  *)
(* memory is lost.                                                         *)
Crash ==
  /\ at \in Working /\ at' = "down"
  /\ \E torn \in SUBSET pending :
       shards' = [s \in Steps |-> IF s # step THEN shards[s] ELSE
                    [shards[s] EXCEPT ![part] = [r \in Ranks |->
                       IF r \in torn THEN Torn ELSE shards[s][part][r]]]]
  /\ \E torn \in {FALSE, at = "data"} :
       data' = IF torn THEN [data EXCEPT ![step] = Torn] ELSE data
  /\ tracker' \in {tracker} \cup (IF at = "tracker" THEN {TornTracker} ELSE {})
  /\ part' = "actor" /\ pending' = {} /\ saved' = [p \in Parts |-> <<>>]
  /\ step' = 0 /\ epoch' = 0 /\ served' = 0 /\ updates' = Untrained
  /\ UNCHANGED <<runs, reached>>

Save == Rotate \/ (\E r \in Ranks : SaveShard(r)) \/ PartSaved \/ SaveData \/ SaveTracker

Progress == NextEpoch \/ (\E esi \in Esi : TrainStep(esi)) \/ Save

Resume == \E mode \in Modes :
  StartFromScratch(mode) \/ (\E s \in Steps : ResumeFrom(mode, s)) \/ ResumeFails(mode)

Next == Resume \/ Progress \/ Crash

Spec == Init /\ [][Next]_vars

(* A process that is not killed goes on. *)
FairSpec == Spec /\ WF_vars(Progress)

-----------------------------------------------------------------------------
TypeOK ==
  /\ shards \in [Steps -> [Parts -> [Ranks -> File]]]
  /\ data \in [Steps -> [by : Nat, n : 0 .. StepsPerEpoch]]
  /\ tracker \in Steps \cup {NoTracker, TornTracker}
  /\ at \in Working \cup {"down", "done", "failed"}
  /\ part \in Parts /\ pending \in SUBSET Ranks
  /\ saved \in [Parts -> Seq(Steps)]
  /\ step \in Nat /\ (at \in Working \ {"training"} => step \in Steps)
  /\ epoch \in 0 .. Epochs - 1 /\ served \in 0 .. StepsPerEpoch
  /\ updates \in [Parts -> [Ranks -> Nat]]
  /\ runs \in 0 .. MaxRuns /\ reached \in Nat

(* The checkpoint the tracker names is there, every shard of it and the    *)
(* data loader's position, and one run wrote all of it: the tracker is     *)
(* written last (`for atomic usage'), and rotation spares what it names.   *)
Whole(s) ==
  /\ data[s].by > 0
  /\ \A p \in PartsSaved, r \in Ranks : shards[s][p][r].by = data[s].by
TrackedWhole == \A s \in Steps : tracker = s => Whole(s)

ActorUpdates(n) == IF n < Warmup THEN 0 ELSE n - (IF Warmup = 0 THEN 0 ELSE Warmup - 1)
Undisturbed ==
  at = "training" =>
    /\ \A r \in Ranks : /\ updates["actor"][r] = ActorUpdates(step - 1)
                        /\ UseCritic => updates["critic"][r] = step - 1
    /\ served % StepsPerEpoch = (step - 1) % StepsPerEpoch

(* A run can be resumed unless the tracker itself was torn. *)
FailsOnlyTorn == at = "failed" => tracker = TornTracker

(* What is on disk can be used.                                            *)
CheckpointsAreSound == TypeOK /\ TrackedWhole /\ FailsOnlyTorn

(* A run that ends has trained what was asked for and saved the result. *)
DoneIsSaved == at = "done" => tracker = step - 1 /\ tracker >= TotalSteps

(* Every further start of finished training takes at most one more step. *)
OneStepTooMany == runs > 0 => reached <= TotalSteps + runs - 1

(* Interruptions leave no trace: the weights of every rank and the place   *)
(* in the data are those of an uninterrupted training that has taken as    *)
(* many steps, and the end is as it should be.                             *)
AsUninterrupted == Undisturbed /\ DoneIsSaved /\ OneStepTooMany

(* Rotation: of what one run has written, no more than Keep actors and     *)
(* critics are on disk at a time.                                          *)
Written(p) == {s \in Steps : \E r \in Ranks : shards[s][p][r].by = runs}
RotationBounds ==
  Keep > 0 /\ at \in Working => \A p \in Parts : Cardinality(Written(p)) <= Keep

(* Training gets on: checkpoints only advance, a restart repeats no more   *)
(* than SaveFreq steps, and a run that is not killed ends.                 *)
TrackerAdvances ==
  [][{tracker, tracker'} \subseteq Steps => tracker' >= tracker]_vars
LossBounded ==
  [][at \notin Working /\ at' = "training" => step' + SaveFreq > reached]_vars
RunEnds == at \in Working ~> at \notin Working
GetsOn == TrackerAdvances /\ LossBounded /\ RunEnds
=============================================================================
