--------------------------- MODULE SftCheckpoint ---------------------------
(***************************************************************************)
(* Checkpointing of the SFT trainer: the save points of SFTTrainer.fit,    *)
(* CheckpointHandler (checkpoint_handler.py), FSDPCheckpointManager and    *)
(* the retention of BaseCheckpointManager, run by every rank of a torchrun *)
(* job on one shared directory, with a job that can crash at any point and *)
(* be launched again.                                                      *)
(*                                                                         *)
(* A file is absent, torn (a crash met it half written) or stands for what *)
(* wrote it: a shard for the launch that wrote it, a dataloader state for  *)
(* the number of batches its rank had consumed.  Training itself, the hf   *)
(* config files and the optional HDFS copy leave no trace a resume reads,  *)
(* and are left out.  Sequence parallelism is off, so every rank is an     *)
(* output rank and its own data-parallel rank, and there is one epoch.     *)
(***************************************************************************)
EXTENDS Integers, Sequences, FiniteSets

CONSTANTS World,         \* world_size
          Files,         \* shard files of a rank: model, optim, extra_state
          EpochSteps,    \* steps_per_epoch
          TotalSteps,    \* total_training_steps
          SaveFreq,      \* save_freq: not positive, only the last step is saved
          MaxKeep,       \* max_ckpt_to_keep, 0 when it is null
          Modes,         \* the resume_modes the job is launched with
          AtomicRename,  \* os.rename onto the tracker file never fails
          MaxLaunches    \* bound on the launches of the job

ASSUME WorldAssumption == World \in Nat \ {0} /\ Files \in Nat \ {0}
ASSUME StepsAssumption == /\ EpochSteps \in Nat \ {0}
                          /\ TotalSteps \in 1..EpochSteps
                          /\ SaveFreq \in Int
ASSUME PolicyAssumption == /\ MaxKeep \in Nat
                           /\ Modes \subseteq {"auto", "disable"}
                           /\ AtomicRename \in BOOLEAN
                           /\ MaxLaunches \in Nat

Ranks == 0..(World - 1)
Kinds == 1..Files
Steps == 1..EpochSteps

VARIABLES
    \* The job: gone with it when it crashes.
    pc,        \* what each rank is doing
    file,      \* the shard file each rank writes next
    loader,    \* batches each rank's train_dataloader has yielded
    step,      \* global_step, the same on every rank
    resumed,   \* resume_global_step
    saved,     \* previous_saved_paths of rank 0, as steps
    launch,    \* how many times the job has been launched
    \* The disk.
    dirs,      \* the global_step_N directories there are
    shard,     \* shard[s][k][r]: the k-th shard file of rank r in directory s
    data,      \* data[s][r]: data_r.pt of directory s
    tracker    \* latest_checkpointed_iteration.txt

memoryVars == <<file, loader, step, resumed, saved, launch>>
diskVars == <<dirs, shard, data, tracker>>
vars == <<pc, memoryVars, diskVars>>

Absent == 0
Torn == -1

Barriers == {"b1", "b2", "b3", "b4"}
PCs == {"down", "train", "room", "mkdir", "shard", "register", "data",
        "tracker", "done"} \cup Barriers

NoShards == [k \in Kinds |-> [r \in Ranks |-> Absent]]
NoData == [r \in Ranks |-> Absent]

TypeOK ==
    /\ pc \in [Ranks -> PCs]
    /\ file \in [Ranks -> 1..(Files + 1)]
    /\ loader \in [Ranks -> 0..EpochSteps]
    /\ step \in 0..EpochSteps
    /\ resumed \in 0..EpochSteps
    /\ saved \in Seq(Steps)
    /\ launch \in 0..MaxLaunches
    /\ dirs \subseteq Steps
    /\ shard \in [Steps -> [Kinds -> [Ranks -> Torn..MaxLaunches]]]
    /\ data \in [Steps -> [Ranks -> Torn..EpochSteps]]
    /\ tracker \in Torn..EpochSteps

Init ==
    /\ pc = [r \in Ranks |-> "down"]
    /\ file = [r \in Ranks |-> 1]
    /\ loader = [r \in Ranks |-> 0]
    /\ step = 0 /\ resumed = 0
    /\ saved = <<>>
    /\ launch = 0
    /\ dirs = {}
    /\ shard = [s \in Steps |-> NoShards]
    /\ data = [s \in Steps |-> NoData]
    /\ tracker = Absent

All(l) == \A r \in Ranks : pc[r] = l

-----------------------------------------------------------------------------
(* Launch: load_checkpoint.                                                 *)

\* _find_latest_checkpoint: the step the tracker names, if its directory is
\* there.
LatestStep == IF tracker \in dirs THEN tracker ELSE 0

\* _resolve_rank_checkpoint_file: a rank whose own file is missing takes that
\* of a replica, when the files there are look like those of one full replica.
Resolve(s, k, r) ==
    LET present == {q \in Ranks : shard[s][k][q] # Absent}
        n == Cardinality(present)
    IN IF r \in present THEN shard[s][k][r]
       ELSE IF n > 0 /\ present = 0..(n - 1) /\ World % n = 0
       THEN shard[s][k][r % n]
       ELSE Absent

\* torch.load succeeds on every file a rank needs.  A missing dataloader state
\* is only warned about.
Loadable(s) == /\ \A k \in Kinds, r \in Ranks : Resolve(s, k, r) > Absent
               /\ \A r \in Ranks : data[s][r] # Torn

BeginLaunch ==
    /\ All("down") /\ launch < MaxLaunches
    /\ launch' = launch + 1
    /\ saved' = <<>>
    /\ UNCHANGED diskVars

\* From scratch: that is what was asked for, or there is nothing to resume.
LaunchFresh(mode) ==
    /\ BeginLaunch
    /\ mode = "disable" \/ (tracker # Torn /\ LatestStep = 0)
    /\ pc' = [r \in Ranks |-> "train"]
    /\ step' = 0 /\ resumed' = 0
    /\ loader' = [r \in Ranks |-> 0]
    /\ UNCHANGED file

LaunchResume(mode) ==
    /\ BeginLaunch
    /\ mode = "auto" /\ LatestStep # 0 /\ Loadable(LatestStep)
    /\ pc' = [r \in Ranks |-> "train"]
    /\ step' = LatestStep /\ resumed' = LatestStep
    /\ loader' = [r \in Ranks |-> data[LatestStep][r]]
    /\ UNCHANGED file

\* The tracker file or a file of the checkpoint cannot be read: the launch
\* ends with an exception.
LaunchFails(mode) ==
    /\ BeginLaunch
    /\ mode = "auto"
    /\ tracker = Torn \/ (LatestStep # 0 /\ ~Loadable(LatestStep))
    /\ UNCHANGED <<pc, file, loader, step, resumed>>

-----------------------------------------------------------------------------
(* fit(): one step of all ranks, held together by its collectives.          *)

\* Mutants: save_freq is not looked at; the last step is not special.
SavesLastOnly(s) == s >= TotalSteps

SavesPeriodically(s) == SaveFreq > 0 /\ s % SaveFreq = 0

IsSaveStep(s) == s >= TotalSteps \/ (SaveFreq > 0 /\ s % SaveFreq = 0)

\* Mutant: the epoch has no end.
TrainOn ==
    /\ All("train")
    /\ step' = step + 1
    /\ loader' = [r \in Ranks |-> loader[r] + 1]
    /\ pc' = [r \in Ranks |-> IF r = 0 THEN "room" ELSE "mkdir"]
    /\ file' = [r \in Ranks |-> 1]
    /\ UNCHANGED <<resumed, saved, launch, diskVars>>

Train ==
    /\ All("train") /\ step < EpochSteps
    /\ step' = step + 1
    /\ loader' = [r \in Ranks |-> loader[r] + 1]
    /\ pc' = IF IsSaveStep(step + 1)
             THEN [r \in Ranks |-> IF r = 0 THEN "room" ELSE "mkdir"]
             ELSE pc
    /\ file' = [r \in Ranks |-> 1]
    /\ UNCHANGED <<resumed, saved, launch, diskVars>>

\* The resumed step ends the last epoch: fit() has nothing to iterate over.
NothingToTrain ==
    /\ All("train") /\ step >= EpochSteps
    /\ pc' = [r \in Ranks |-> "done"]
    /\ UNCHANGED <<memoryVars, diskVars>>

-----------------------------------------------------------------------------
(* save_checkpoint of the handler, the engine and the manager.              *)

Goto(r, l) == pc' = [pc EXCEPT ![r] = l]

\* Mutant: the newest paths are dropped.
DroppedNewest(paths, n) == {paths[i] : i \in (n + 1)..Len(paths)}

Dropped(paths, n) == {paths[i] : i \in 1..(Len(paths) - n)}
Kept(paths, n) == IF Len(paths) > n
                  THEN SubSeq(paths, Len(paths) - n + 1, Len(paths))
                  ELSE paths

\* remove_previous_save_local_path.
Remove(S) ==
    /\ dirs' = dirs \ S
    /\ shard' = [s \in Steps |-> IF s \in S THEN NoShards ELSE shard[s]]
    /\ data' = [s \in Steps |-> IF s \in S THEN NoData ELSE data[s]]

\* Drop the oldest of paths until n are left.
Retain(paths, n) ==
    /\ saved' = Kept(paths, n)
    /\ Remove(Dropped(paths, n))

\* Mutant: room is made for none.
MakeNoRoom ==
    /\ pc[0] = "room"
    /\ Goto(0, "mkdir")
    /\ IF MaxKeep > 1
       THEN Retain(saved, MaxKeep)
       ELSE UNCHANGED <<saved, dirs, shard, data>>
    /\ UNCHANGED <<file, loader, step, resumed, launch, tracker>>

\* ensure_checkpoint_capacity, on rank 0.
MakeRoom ==
    /\ pc[0] = "room"
    /\ Goto(0, "mkdir")
    /\ IF MaxKeep > 1
       THEN Retain(saved, MaxKeep - 1)
       ELSE UNCHANGED <<saved, dirs, shard, data>>
    /\ UNCHANGED <<file, loader, step, resumed, launch, tracker>>

MakeDir(r) ==
    /\ pc[r] = "mkdir"
    /\ dirs' = dirs \cup {step}
    /\ Goto(r, "b1")
    /\ UNCHANGED <<memoryVars, shard, data, tracker>>

WriteShard(r) ==
    /\ pc[r] = "shard"
    /\ shard' = [shard EXCEPT ![step][file[r]][r] = launch]
    /\ file' = [file EXCEPT ![r] = file[r] + 1]
    /\ Goto(r, IF file[r] = Files THEN "b2" ELSE "shard")
    /\ UNCHANGED <<loader, step, resumed, saved, launch, dirs, data, tracker>>

\* register_checkpoint, on rank 0.
Register ==
    /\ pc[0] = "register"
    /\ Goto(0, "b3")
    /\ IF MaxKeep > 0
       THEN Retain(Append(saved, step), MaxKeep)
       ELSE /\ saved' = Append(saved, step)
            /\ UNCHANGED <<dirs, shard, data>>
    /\ UNCHANGED <<file, loader, step, resumed, launch, tracker>>

WriteData(r) ==
    /\ pc[r] = "data"
    /\ dirs' = dirs \cup {step}
    /\ data' = [data EXCEPT ![step][r] = loader[r]]
    /\ Goto(r, IF r = 0 THEN "tracker" ELSE "b4")
    /\ UNCHANGED <<memoryVars, shard, tracker>>

WriteTracker ==
    /\ pc[0] = "tracker"
    /\ tracker' = step
    /\ Goto(0, "b4")
    /\ UNCHANGED <<memoryVars, dirs, shard, data>>

\* Mutant: rank 0 does not wait in a barrier.
ReachedByRankZero(b) == pc[0] = b

\* torch.distributed.barrier: nobody leaves before everybody has come.
Reached(b) == All(b)

\* Mutants: rank 0 does not save its dataloader state; only rank 0 takes part
\* in the barrier of the engine.
AfterBarrierNoData(b, r) ==
    CASE b = "b1" -> "shard"
      [] b = "b2" -> IF r = 0 THEN "register" ELSE "b3"
      [] b = "b3" -> IF r = 0 THEN "tracker" ELSE "data"
      [] b = "b4" -> IF step >= TotalSteps THEN "done" ELSE "train"

AfterBarrierSplit(b, r) ==
    CASE b = "b1" -> "shard"
      [] b = "b2" -> IF r = 0 THEN "register" ELSE "data"
      [] b = "b3" -> "data"
      [] b = "b4" -> IF step >= TotalSteps THEN "done" ELSE "train"

AfterBarrier(b, r) ==
    CASE b = "b1" -> "shard"
      [] b = "b2" -> IF r = 0 THEN "register" ELSE "b3"
      [] b = "b3" -> "data"
      [] b = "b4" -> IF step >= TotalSteps THEN "done" ELSE "train"

Barrier(b) ==
    /\ Reached(b)
    /\ pc' = [r \in Ranks |-> IF pc[r] = b THEN AfterBarrier(b, r) ELSE pc[r]]
    /\ UNCHANGED <<memoryVars, diskVars>>

-----------------------------------------------------------------------------
(* Crashes: one rank dies and torchrun takes the others down.               *)

Running == \E r \in Ranks : pc[r] \notin {"down", "done"}

\* The directories rank 0 is in the middle of removing.
Doomed == CASE pc[0] = "room" /\ MaxKeep > 1 -> Dropped(saved, MaxKeep - 1)
            [] pc[0] = "register" /\ MaxKeep > 0 ->
                   Dropped(Append(saved, step), MaxKeep)
            [] OTHER -> {}

Crash ==
    /\ Running
    /\ pc' = [r \in Ranks |-> "down"]
    /\ \E torn \in SUBSET {r \in Ranks : pc[r] \in {"shard", "data"}},
          lost \in SUBSET (Doomed \X Kinds \X Ranks),
          lostData \in SUBSET (Doomed \X Ranks) :
         /\ shard' = [s \in Steps |-> [k \in Kinds |-> [r \in Ranks |->
                 IF <<s, k, r>> \in lost THEN Absent
                 ELSE IF /\ r \in torn /\ pc[r] = "shard"
                         /\ s = step /\ k = file[r]
                 THEN Torn ELSE shard[s][k][r]]]]
         /\ data' = [s \in Steps |-> [r \in Ranks |->
                 IF <<s, r>> \in lostData THEN Absent
                 ELSE IF r \in torn /\ pc[r] = "data" /\ s = step
                 THEN Torn ELSE data[s][r]]]
    \* The fallback of a failed rename opens the tracker file in place.
    /\ \/ UNCHANGED tracker
       \/ pc[0] = "tracker" /\ ~AtomicRename /\ tracker' = Torn
    /\ UNCHANGED <<memoryVars, dirs>>

-----------------------------------------------------------------------------
RankNext(r) == MakeDir(r) \/ WriteShard(r) \/ WriteData(r)

RankZeroNext == MakeRoom \/ Register \/ WriteTracker

JobNext == \/ Train \/ NothingToTrain
           \/ RankZeroNext
           \/ \E r \in Ranks : RankNext(r)
           \/ \E b \in Barriers : Barrier(b)

LaunchNext == \E mode \in Modes :
                 LaunchFresh(mode) \/ LaunchResume(mode) \/ LaunchFails(mode)

\* The job is through, or nobody launches it any more.
Over == /\ ~Running
        /\ All("done") \/ launch = MaxLaunches
        /\ UNCHANGED vars

Next == LaunchNext \/ JobNext \/ Crash \/ Over

Spec == Init /\ [][Next]_vars

\* A rank that is not waiting for others goes on, and so does a barrier or a
\* training step that has all its ranks.
FairSpec == Spec /\ WF_vars(JobNext)

-----------------------------------------------------------------------------
(* Safety.                                                                  *)

\* Every shard file of every rank is in directory s, none is torn, and one
\* launch wrote them all.
Whole(s) == \E n \in 1..MaxLaunches :
                \A k \in Kinds, r \in Ranks : shard[s][k][r] = n

\* The checkpoint announced in the tracker, which the next launch will resume
\* from, is on disk and whole at every moment, whatever a crash has
\* interrupted: it is not removed before another is announced, no shard of it
\* is ever overwritten, and none was missing when it was announced.
TrackedIsWhole == tracker > 0 => tracker \in dirs /\ Whole(tracker)

\* What a launch really resumes from is one save, never a mixture of the files
\* of two.  With resume_mode=disable in a used directory the code does not keep
\* this.
ResumesOneSave ==
    [][All("down") /\ ~All("down")' /\ step' # 0 => Whole(step')]_vars

\* Once a checkpoint has been announced, a launch in auto mode never starts
\* over.
NeverStartsOver ==
    [][All("down") /\ ~All("down")' /\ tracker # Absent => step' # 0]_vars

\* Rank 0 trains on the data that belongs to its step, however often the job
\* was crashed and resumed: its dataloader state is on disk before the tracker
\* is.
RankZeroInStep == pc[0] \notin {"down", "done"} => loader[0] = step

\* The same of every rank.
LoadersInStep ==
    \A r \in Ranks : pc[r] \notin {"down", "done"} => loader[r] = step

\* The rotation keeps what this launch has written within max_ckpt_to_keep,
\* even while the next checkpoint is being written (another rank may create
\* its directory before rank 0 has made room), and never drops what it lists.
\* What earlier launches have written is not counted: the code never drops it.
RotationBound ==
    MaxKeep > 1 /\ Running /\ pc[0] # "room" =>
        /\ Cardinality({s \in dirs : s > resumed}) <= MaxKeep
        /\ \A i \in 1..Len(saved) : saved[i] \in dirs

\* A crash costs the work since the last save and no more.
BoundedLoss ==
    Running /\ SaveFreq > 0 => step - LatestStep <= SaveFreq

\* When the job is through, its last step can be resumed or exported.
FinalCheckpoint ==
    All("done") => LatestStep >= TotalSteps /\ Whole(LatestStep)

-----------------------------------------------------------------------------
(* Liveness.                                                                *)

\* A launched job ends: no rank is left waiting in a barrier.
JobEnds == Running ~> ~Running

-----------------------------------------------------------------------------
(* Refinement.                                                              *)

Store == INSTANCE CheckpointStore WITH
    LastStep <- EpochSteps,
    durable <- LatestStep,
    current <- IF Running THEN step ELSE -1

\* A save takes effect in one instant and a launch resumes from the last save
\* that did.
StoreSpec == Store!Spec
=============================================================================
