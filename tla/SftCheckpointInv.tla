-------------------------- MODULE SftCheckpointInv --------------------------
(***************************************************************************)
(* The inductive invariant behind the safety of SftCheckpoint.             *)
(***************************************************************************)
EXTENDS SftCheckpoint

\* What the invariant, and with it every theorem, supposes of the settings:
\* no run is started over in a directory another run has used, and the
\* rotation keeps more than one checkpoint, or all of them.
Supported == MaxKeep # 1 /\ Modes \subseteq {"auto"}

\* The stretches of a save between two barriers.
Making == {"room", "mkdir", "b1"}
Writing == {"shard", "b2"}
Registering == {"register", "b3"}
Announcing == {"data", "tracker", "b4"}
Saving == Making \cup Writing \cup Registering \cup Announcing

AllIn(S) == \A r \in Ranks : pc[r] \in S

\* A barrier lets all ranks go at once, so they are always in one stretch.
PhaseInv ==
    /\ \/ All("down") \/ All("train") \/ All("done")
       \/ AllIn(Making) \/ AllIn(Writing)
       \/ AllIn(Registering) \/ AllIn(Announcing)
    /\ \A r \in Ranks : pc[r] \in {"room", "register", "tracker"} => r = 0

\* The step being saved is a new one, until rank 0 has announced it.
StepInv ==
    /\ pc[0] \in Saving => step >= 1
    /\ pc[0] # "down" => launch >= 1 /\ tracker # Torn /\ step >= tracker
    /\ pc[0] \in Saving \ {"b4"} => step > tracker

\* How far a rank has got with its files.
RankFiles(r) ==
    /\ pc[r] \in Making => file[r] = 1
    /\ pc[r] = "shard" => file[r] <= Files
    /\ pc[r] \in {"b1"} \cup Writing \cup Registering \cup Announcing =>
         step \in dirs
    /\ \A k \in Kinds :
         \/ pc[r] = "shard" /\ k < file[r]
         \/ pc[r] \in {"b2"} \cup Registering \cup Announcing
         => shard[step][k][r] = launch

FileInv == \A r \in Ranks : RankFiles(r)

\* Rank 0 lists its saves in their order; before the announcement the newest
\* may be ahead of the tracker.
SavedInv ==
    pc[0] # "down" =>
        /\ \A i, j \in 1..Len(saved) : i < j => saved[i] < saved[j]
        /\ \A i \in 1..Len(saved) :
             saved[i] <= IF pc[0] \in {"b3", "data", "tracker"} THEN step
                                                               ELSE tracker

\* The dataloader state of rank 0 is there before the tracker is; no rank's
\* dataloader is ahead of the training.
DataInv ==
    /\ tracker > 0 => data[tracker][0] = tracker
    /\ pc[0] = "tracker" => data[step][0] = step
    /\ \A s \in Steps, r \in Ranks : data[s][r] <= s
    /\ pc[0] # "down" => \A r \in Ranks : loader[r] <= step

\* The job does not end before it has announced its last step.
EndInv ==
    /\ pc[0] = "b4" => tracker = step
    /\ pc[0] = "train" /\ step >= TotalSteps => tracker = step
    /\ pc[0] = "done" => tracker >= TotalSteps

\* There is no save step between a and b.
NoSaveBetween(a, b) == \A x \in (a + 1)..(b - 1) : ~IsSaveStep(x)

\* A directory ahead of the tracker is the one of the next save step, which a
\* crash may have left there; training has passed no save step since the
\* tracker.
NextSaveInv ==
    /\ tracker # Torn =>
         \A d \in dirs : d > tracker => IsSaveStep(d) /\ NoSaveBetween(tracker, d)
    /\ pc[0] # "down" => NoSaveBetween(tracker, step)
    /\ pc[0] = "train" => step = tracker \/ ~IsSaveStep(step)
    /\ pc[0] \in Saving => IsSaveStep(step)

\* Rank 0 lists step s among its saves.
Listed(s) == \E i \in 1..Len(saved) : saved[i] = s

\* Whatever this launch has written is listed, and is there, but for the save
\* that is being made or that a crash has left; one that was left is seen by
\* a launch only before its first save.
RotationInv ==
    MaxKeep > 1 /\ pc[0] # "down" =>
        /\ \A i \in 1..Len(saved) : saved[i] \in dirs
        /\ \A d \in dirs : d > resumed => Listed(d) \/ d > tracker
        /\ pc[0] \in {"train", "b4"} /\ (\E d \in dirs : d > tracker) => saved = <<>>
        /\ Len(saved) <= MaxKeep
        /\ pc[0] \in (Making \ {"room"}) \cup Writing \cup {"register"} =>
             Len(saved) < MaxKeep
        /\ pc[0] \in {"b3"} \cup Announcing => Listed(step)

StoreInv == /\ TypeOK
            /\ PhaseInv /\ StepInv /\ FileInv /\ SavedInv
            /\ DataInv /\ EndInv
            /\ TrackedIsWhole /\ RankZeroInStep

KeepInv == StoreInv /\ NextSaveInv /\ RotationInv
=============================================================================
