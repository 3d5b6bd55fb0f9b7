------------------------ MODULE SftCheckpointProofs ------------------------
(***************************************************************************)
(* The safety of SftCheckpoint for every number of ranks, files and steps, *)
(* every save frequency and every retention but one.  StoreInv             *)
(* (SftCheckpointInv) is inductive: one lemma per action shows that the    *)
(* action preserves it.                                                    *)
(***************************************************************************)
EXTENDS SftCheckpointInv, SequenceTheorems, FiniteSetTheorems, TLAPS

\* The groups of variables in the UNCHANGED clauses are always expanded.
USE DEF memoryVars, diskVars

\* There is a rank 0.
LEMMA RankZero == 0 \in Ranks
  BY WorldAssumption DEF Ranks

\* All ranks are where rank 0 is, up to the next barrier.
LEMMA SamePhase ==
    ASSUME PhaseInv, NEW r \in Ranks
    PROVE  /\ pc[r] = "down" <=> pc[0] = "down"
           /\ pc[r] = "train" <=> pc[0] = "train"
           /\ pc[r] = "done" <=> pc[0] = "done"
           /\ pc[r] \in Making <=> pc[0] \in Making
           /\ pc[r] \in Writing <=> pc[0] \in Writing
           /\ pc[r] \in Registering <=> pc[0] \in Registering
           /\ pc[r] \in Announcing <=> pc[0] \in Announcing
  BY RankZero DEF PhaseInv, All, AllIn, Making, Writing, Registering, Announcing

\* What is kept of a list is its end.
LEMMA KeptProperties ==
    ASSUME NEW paths \in Seq(Steps), NEW n \in Nat
    PROVE  /\ Kept(paths, n) \in Seq(Steps)
           /\ \E off \in Nat :
                /\ Len(Kept(paths, n)) + off = Len(paths)
                /\ \A i \in 1..Len(Kept(paths, n)) :
                     Kept(paths, n)[i] = paths[i + off]
  <1>1. CASE Len(paths) > n
    <2> DEFINE m == Len(paths) - n + 1
    <2>1. Kept(paths, n) = SubSeq(paths, m, Len(paths))
      BY <1>1 DEF Kept
    <2>2. Len(paths) \in Nat /\ m \in 1..(Len(paths) + 1)
      BY <1>1
    <2>3. \A i \in m..Len(paths) : paths[i] \in Steps
      BY <2>2, ElementOfSeq
    <2> HIDE DEF m
    <2>4. /\ SubSeq(paths, m, Len(paths)) \in Seq(Steps)
          /\ Len(SubSeq(paths, m, Len(paths))) =
               IF m <= Len(paths) THEN Len(paths) - m + 1 ELSE 0
          /\ \A i \in 1..(Len(paths) - m + 1) :
               SubSeq(paths, m, Len(paths))[i] = paths[m + i - 1]
      BY <2>2, <2>3, SubSeqProperties
    <2>5. m - 1 \in Nat /\ Len(paths) - m + 1 = n
      BY <2>2 DEF m
    <2>6. Len(Kept(paths, n)) + (m - 1) = Len(paths)
      BY <2>1, <2>2, <2>4, <2>5
    <2>7. \A i \in 1..Len(Kept(paths, n)) :
            Kept(paths, n)[i] = paths[i + (m - 1)]
      BY <2>1, <2>2, <2>4
    <2>8. QED
      BY <2>1, <2>4, <2>5, <2>6, <2>7
  <1>2. CASE ~(Len(paths) > n)
    <2>1. Kept(paths, n) = paths
      BY <1>2 DEF Kept
    <2>2. Len(paths) + 0 = Len(paths)
      OBVIOUS
    <2>3. \A i \in 1..Len(paths) : paths[i] = paths[i + 0]
      OBVIOUS
    <2>4. QED
      BY <2>1, <2>2, <2>3
  <1>3. QED
    BY <1>1, <1>2

\* Rotation leaves a list that is in order, within its bound, and every
\* directory it does not drop.
LEMMA RetainProperties ==
    ASSUME TypeOK, NEW paths \in Seq(Steps), NEW n \in Nat, NEW bound \in Int,
           \A i, j \in 1..Len(paths) : i < j => paths[i] < paths[j],
           \A i \in 1..Len(paths) : paths[i] <= bound,
           Retain(paths, n)
    PROVE  /\ saved' \in Seq(Steps)
           /\ \A i, j \in 1..Len(saved') : i < j => saved'[i] < saved'[j]
           /\ \A i \in 1..Len(saved') : saved'[i] <= bound
           /\ dirs' \subseteq Steps
           /\ shard' \in [Steps -> [Kinds -> [Ranks -> Torn..MaxLaunches]]]
           /\ data' \in [Steps -> [Ranks -> Torn..EpochSteps]]
           /\ \A s \in Steps \ Dropped(paths, n) :
                /\ s \in dirs <=> s \in dirs'
                /\ shard'[s] = shard[s]
                /\ data'[s] = data[s]
           /\ \A s \in Steps : data'[s] \in {data[s], NoData}
  <1>1. saved' = Kept(paths, n)
    BY DEF Retain
  <1>2. saved' \in Seq(Steps)
    BY <1>1, KeptProperties
  <1>3. PICK off \in Nat :
            /\ Len(saved') + off = Len(paths)
            /\ \A i \in 1..Len(saved') : saved'[i] = paths[i + off]
    BY <1>1, KeptProperties
  <1>4. \A i \in 1..Len(saved') : i + off \in 1..Len(paths)
    BY <1>2, <1>3
  <1>5. \A i, j \in 1..Len(saved') : i < j => saved'[i] < saved'[j]
    <2> SUFFICES ASSUME NEW i \in 1..Len(saved'), NEW j \in 1..Len(saved'), i < j
                 PROVE  saved'[i] < saved'[j]
      OBVIOUS
    <2>1. i + off < j + off
      BY <1>2
    <2>2. QED
      BY <1>3, <1>4, <2>1
  <1>6. \A i \in 1..Len(saved') : saved'[i] <= bound
    BY <1>3, <1>4
  <1>7. 0 \in Torn..MaxLaunches /\ 0 \in Torn..EpochSteps
    BY PolicyAssumption, StepsAssumption DEF Torn
  <1>8. NoShards \in [Kinds -> [Ranks -> Torn..MaxLaunches]]
    BY <1>7 DEF NoShards, Absent
  <1>9. NoData \in [Ranks -> Torn..EpochSteps]
    BY <1>7 DEF NoData, Absent
  <1>10. dirs' = dirs \ Dropped(paths, n)
    BY DEF Retain, Remove
  <1>11. shard' = [s \in Steps |-> IF s \in Dropped(paths, n) THEN NoShards
                                                             ELSE shard[s]]
    BY DEF Retain, Remove
  <1>12. data' = [s \in Steps |-> IF s \in Dropped(paths, n) THEN NoData
                                                            ELSE data[s]]
    BY DEF Retain, Remove
  <1>13. shard' \in [Steps -> [Kinds -> [Ranks -> Torn..MaxLaunches]]]
    BY <1>8, <1>11 DEF TypeOK
  <1>14. data' \in [Steps -> [Ranks -> Torn..EpochSteps]]
    BY <1>9, <1>12 DEF TypeOK
  <1>15. QED
    BY <1>2, <1>5, <1>6, <1>10, <1>11, <1>12, <1>13, <1>14 DEF TypeOK

\* What is dropped from a list in order lies below its last element but the
\* n that are kept.
LEMMA DroppedBelow ==
    ASSUME NEW paths \in Seq(Steps), NEW n \in Nat, NEW i \in 1..Len(paths),
           i > Len(paths) - n,
           \A j, k \in 1..Len(paths) : j < k => paths[j] < paths[k],
           NEW s \in Dropped(paths, n)
    PROVE  s \in Steps /\ s < paths[i]
  <1>1. PICK j \in 1..(Len(paths) - n) : s = paths[j]
    BY DEF Dropped
  <1>2. Len(paths) \in Nat
    OBVIOUS
  <1>3. j \in 1..Len(paths) /\ j < i
    BY <1>1, <1>2
  <1>4. QED
    BY <1>1, <1>3, ElementOfSeq

\* The tracked checkpoint stays whole when neither it nor the tracker changes.
LEMMA TrackedKept ==
    ASSUME TrackedIsWhole, tracker' = tracker,
           tracker > 0 =>
             /\ tracker \in dirs'
             /\ \A k \in Kinds, r \in Ranks :
                  shard'[tracker][k][r] = shard[tracker][k][r]
    PROVE  TrackedIsWhole'
  BY DEF TrackedIsWhole, Whole

\* What a rotation leaves: the list in order, no directory but old ones gone.
Rotated(bound) ==
    /\ saved' \in Seq(Steps)
    /\ \A i, j \in 1..Len(saved') : i < j => saved'[i] < saved'[j]
    /\ \A i \in 1..Len(saved') : saved'[i] <= bound
    /\ dirs' \subseteq Steps
    /\ shard' \in [Steps -> [Kinds -> [Ranks -> Torn..MaxLaunches]]]
    /\ data' \in [Steps -> [Ranks -> Torn..EpochSteps]]
    /\ \A s \in Steps : s >= tracker =>
         /\ s \in dirs <=> s \in dirs'
         /\ shard'[s] = shard[s]
         /\ data'[s] = data[s]
    /\ \A s \in Steps, r \in Ranks : data'[s][r] <= s

\* A removed dataloader state is never ahead of its directory.
LEMMA NoDataIsOld ==
    ASSUME StoreInv, \A s \in Steps : data'[s] \in {data[s], NoData}
    PROVE  \A s \in Steps, r \in Ranks : data'[s][r] <= s
  <1> SUFFICES ASSUME NEW s \in Steps, NEW r \in Ranks PROVE data'[s][r] <= s
    OBVIOUS
  <1>1. NoData[r] = 0
    BY DEF NoData, Absent
  <1>2. s >= 0 /\ data[s][r] <= s
    BY DEF StoreInv, DataInv, Steps
  <1>3. QED
    BY <1>1, <1>2

\* What a rotation before the new save drops is older than what is tracked.
LEMMA RoomDropped ==
    ASSUME StoreInv, pc[0] = "room", MaxKeep > 1
    PROVE  \A s \in Dropped(saved, MaxKeep - 1) : s \in Steps /\ s < tracker
  <1> SUFFICES ASSUME NEW s \in Dropped(saved, MaxKeep - 1)
               PROVE  s \in Steps /\ s < tracker
    OBVIOUS
  <1>1. /\ saved \in Seq(Steps) /\ tracker \in Int
        /\ \A i, j \in 1..Len(saved) : i < j => saved[i] < saved[j]
        /\ \A i \in 1..Len(saved) : saved[i] <= tracker
    BY StepsAssumption DEF StoreInv, TypeOK, SavedInv, Torn
  <1>2. MaxKeep - 1 \in Nat /\ MaxKeep - 1 > 0
    BY PolicyAssumption
  <1>3. Len(saved) \in 1..Len(saved) /\ Len(saved) > Len(saved) - (MaxKeep - 1)
    <2>1. PICK j \in 1..(Len(saved) - (MaxKeep - 1)) : TRUE
      BY DEF Dropped
    <2>2. Len(saved) \in Nat
      BY <1>1
    <2>3. QED
      BY <1>2, <2>1, <2>2
  <1>4. s \in Steps /\ s < saved[Len(saved)]
    BY <1>1, <1>2, <1>3, DroppedBelow
  <1>5. saved[Len(saved)] \in Steps
    BY <1>1, <1>3, ElementOfSeq
  <1>6. QED
    BY <1>1, <1>3, <1>4, <1>5 DEF Steps

\* The list rank 0 registers the new checkpoint in.
LEMMA RegisterList ==
    ASSUME StoreInv, pc[0] = "register", NEW paths, paths = Append(saved, step)
    PROVE  /\ paths \in Seq(Steps) /\ Len(paths) = Len(saved) + 1
           /\ Len(saved) \in Nat
           /\ \A i \in 1..Len(saved) : paths[i] \in Steps /\ paths[i] <= tracker
           /\ \A i, j \in 1..Len(paths) : i < j => paths[i] < paths[j]
           /\ \A i \in 1..Len(paths) : paths[i] <= step
  <1>1. /\ saved \in Seq(Steps) /\ tracker \in Int /\ step \in Steps
        /\ step > tracker
        /\ \A i, j \in 1..Len(saved) : i < j => saved[i] < saved[j]
        /\ \A i \in 1..Len(saved) : saved[i] <= tracker
    BY StepsAssumption
       DEF StoreInv, TypeOK, SavedInv, StepInv, Torn, Saving, Registering, Steps
  <1>2. /\ paths \in Seq(Steps) /\ Len(paths) = Len(saved) + 1
        /\ \A i \in 1..Len(saved) : paths[i] = saved[i]
        /\ paths[Len(saved) + 1] = step
    BY <1>1
  <1>3. Len(saved) \in Nat /\ step \in Int
    BY <1>1 DEF Steps
  <1>4. \A i \in 1..Len(paths) : i \in 1..Len(saved) \/ i = Len(saved) + 1
    BY <1>2, <1>3
  <1>5. \A i \in 1..Len(saved) : saved[i] \in Steps /\ saved[i] \in Int
    <2>1. \A i \in 1..Len(saved) : saved[i] \in Steps
      BY <1>1, ElementOfSeq
    <2>2. QED
      BY <2>1 DEF Steps
  <1>6. \A i, j \in 1..Len(paths) : i < j => paths[i] < paths[j]
    <2> SUFFICES ASSUME NEW i \in 1..Len(paths), NEW j \in 1..Len(paths), i < j
                 PROVE  paths[i] < paths[j]
      OBVIOUS
    <2>1. i \in 1..Len(saved)
      BY <1>2, <1>3
    <2>2. QED
      BY <1>1, <1>2, <1>3, <1>4, <1>5, <2>1
  <1>7. \A i \in 1..Len(paths) : paths[i] <= step
    BY <1>1, <1>2, <1>3, <1>4, <1>5
  <1>8. QED
    BY <1>1, <1>2, <1>3, <1>5, <1>6, <1>7

\* What a rotation after the save drops is older than what is tracked, if more
\* than one checkpoint is kept.
LEMMA RegisterDropped ==
    ASSUME Supported, StoreInv, pc[0] = "register", MaxKeep > 0
    PROVE  \A s \in Dropped(Append(saved, step), MaxKeep) :
               s \in Steps /\ s < tracker
  <1> DEFINE paths == Append(saved, step)
  <1> HIDE DEF paths
  <1> SUFFICES ASSUME NEW s \in Dropped(paths, MaxKeep)
               PROVE  s \in Steps /\ s < tracker
    BY DEF paths
  <1>1. /\ paths \in Seq(Steps) /\ Len(paths) = Len(saved) + 1
        /\ Len(saved) \in Nat
        /\ \A i \in 1..Len(saved) : paths[i] \in Steps /\ paths[i] <= tracker
        /\ \A i, j \in 1..Len(paths) : i < j => paths[i] < paths[j]
    BY RegisterList DEF paths
  <1>2. MaxKeep \in Nat /\ MaxKeep > 1 /\ tracker \in Int
    BY PolicyAssumption, StepsAssumption DEF Supported, StoreInv, TypeOK, Torn
  <1>3. /\ Len(saved) \in 1..Len(paths) /\ Len(saved) > Len(paths) - MaxKeep
        /\ Len(saved) \in 1..Len(saved)
    <2>1. PICK j \in 1..(Len(paths) - MaxKeep) : TRUE
      BY DEF Dropped
    <2>2. QED
      BY <1>1, <1>2, <2>1
  <1>4. s \in Steps /\ s < paths[Len(saved)]
    BY <1>1, <1>2, <1>3, DroppedBelow
  <1>5. QED
    BY <1>1, <1>2, <1>3, <1>4 DEF Steps

\* A rotation that drops only what is older than what is tracked.
LEMMA RetainRotates ==
    ASSUME StoreInv, NEW paths \in Seq(Steps), NEW n \in Nat, NEW bound \in Int,
           \A i, j \in 1..Len(paths) : i < j => paths[i] < paths[j],
           \A i \in 1..Len(paths) : paths[i] <= bound,
           \A s \in Dropped(paths, n) : s \in Steps /\ s < tracker,
           Retain(paths, n)
    PROVE  Rotated(bound)
  <1>1. TypeOK /\ tracker \in Int
    BY StepsAssumption DEF StoreInv, TypeOK, Torn
  <1>2. /\ saved' \in Seq(Steps)
        /\ \A i, j \in 1..Len(saved') : i < j => saved'[i] < saved'[j]
        /\ \A i \in 1..Len(saved') : saved'[i] <= bound
        /\ dirs' \subseteq Steps
        /\ shard' \in [Steps -> [Kinds -> [Ranks -> Torn..MaxLaunches]]]
        /\ data' \in [Steps -> [Ranks -> Torn..EpochSteps]]
        /\ \A s \in Steps \ Dropped(paths, n) :
             /\ s \in dirs <=> s \in dirs'
             /\ shard'[s] = shard[s]
             /\ data'[s] = data[s]
        /\ \A s \in Steps : data'[s] \in {data[s], NoData}
    BY <1>1, RetainProperties
  <1>3. \A s \in Steps : s >= tracker => s \notin Dropped(paths, n)
    BY <1>1 DEF Steps
  <1>4. \A s \in Steps, r \in Ranks : data'[s][r] <= s
    BY <1>2, NoDataIsOld
  <1>5. QED
    BY <1>2, <1>3, <1>4 DEF Rotated

\* Making room keeps what is tracked and what is newer.
LEMMA RoomKept ==
    ASSUME StoreInv, MakeRoom
    PROVE  Rotated(tracker)
  <1>1. /\ saved \in Seq(Steps) /\ tracker \in Int /\ pc[0] = "room"
        /\ \A i, j \in 1..Len(saved) : i < j => saved[i] < saved[j]
        /\ \A i \in 1..Len(saved) : saved[i] <= tracker
    BY StepsAssumption DEF StoreInv, TypeOK, SavedInv, MakeRoom, Torn
  <1>2. CASE MaxKeep > 1
    <2>1. Retain(saved, MaxKeep - 1) /\ MaxKeep - 1 \in Nat
      BY <1>2, PolicyAssumption DEF MakeRoom
    <2>2. \A s \in Dropped(saved, MaxKeep - 1) : s \in Steps /\ s < tracker
      BY <1>1, <1>2, RoomDropped
    <2>3. QED
      BY <1>1, <2>1, <2>2, RetainRotates
  <1>3. CASE ~(MaxKeep > 1)
    <2>1. UNCHANGED <<saved, dirs, shard, data>>
      BY <1>3 DEF MakeRoom
    <2>2. QED
      BY <1>1, <2>1 DEF Rotated, StoreInv, TypeOK, DataInv
  <1>4. QED
    BY <1>2, <1>3

\* So does registering the new checkpoint.
LEMMA RegisterKept ==
    ASSUME Supported, StoreInv, Register
    PROVE  Rotated(step)
  <1> DEFINE paths == Append(saved, step)
  <1> HIDE DEF paths
  <1>1. pc[0] = "register" /\ step \in Int
    BY DEF Register, StoreInv, TypeOK
  <1>2. /\ paths \in Seq(Steps)
        /\ \A i, j \in 1..Len(paths) : i < j => paths[i] < paths[j]
        /\ \A i \in 1..Len(paths) : paths[i] <= step
    BY <1>1, RegisterList DEF paths
  <1>3. CASE MaxKeep > 0
    <2>1. Retain(paths, MaxKeep) /\ MaxKeep \in Nat
      BY <1>3, PolicyAssumption DEF Register, paths
    <2>2. \A s \in Dropped(paths, MaxKeep) : s \in Steps /\ s < tracker
      BY <1>1, <1>3, RegisterDropped DEF paths
    <2>3. QED
      BY <1>1, <1>2, <2>1, <2>2, RetainRotates
  <1>4. CASE ~(MaxKeep > 0)
    <2>1. saved' = paths /\ UNCHANGED <<dirs, shard, data>>
      BY <1>4 DEF Register, paths
    <2>2. QED
      BY <1>2, <2>1 DEF Rotated, StoreInv, TypeOK, DataInv
  <1>5. QED
    BY <1>3, <1>4

\* A crash tears files of the new step and loses files of directories that are
\* being removed, never one of the tracked checkpoint.
LEMMA CrashKeeps ==
    ASSUME Supported, StoreInv, Crash
    PROVE  /\ shard' \in [Steps -> [Kinds -> [Ranks -> Torn..MaxLaunches]]]
           /\ data' \in [Steps -> [Ranks -> Torn..EpochSteps]]
           /\ \A s \in Steps, r \in Ranks : data'[s][r] <= s
           /\ tracker \in Steps =>
                /\ data'[tracker][0] = data[tracker][0]
                /\ \A k \in Kinds, r \in Ranks :
                     shard'[tracker][k][r] = shard[tracker][k][r]
  <1>1. PICK torn \in SUBSET {r \in Ranks : pc[r] \in {"shard", "data"}},
             lost \in SUBSET (Doomed \X Kinds \X Ranks),
             lostData \in SUBSET (Doomed \X Ranks) :
          /\ shard' = [s \in Steps |-> [k \in Kinds |-> [r \in Ranks |->
                  IF <<s, k, r>> \in lost THEN Absent
                  ELSE IF /\ r \in torn /\ pc[r] = "shard"
                          /\ s = step /\ k = file[r]
                  THEN Torn ELSE shard[s][k][r]]]]
          /\ data' = [s \in Steps |-> [r \in Ranks |->
                  IF <<s, r>> \in lostData THEN Absent
                  ELSE IF r \in torn /\ pc[r] = "data" /\ s = step
                  THEN Torn ELSE data[s][r]]]
    BY DEF Crash
  <1>2. TypeOK
    BY DEF StoreInv
  <1>3. Absent \in Torn..MaxLaunches /\ Absent \in Torn..EpochSteps
        /\ Torn \in Torn..MaxLaunches /\ Torn \in Torn..EpochSteps
    BY PolicyAssumption, StepsAssumption DEF Torn, Absent
  <1>4. shard' \in [Steps -> [Kinds -> [Ranks -> Torn..MaxLaunches]]]
    <2>1. \A s \in Steps, k \in Kinds, r \in Ranks :
            shard[s][k][r] \in Torn..MaxLaunches
      BY <1>2 DEF TypeOK
    <2>2. QED
      BY <1>1, <1>3, <2>1
  <1>5. data' \in [Steps -> [Ranks -> Torn..EpochSteps]]
    <2>1. \A s \in Steps, r \in Ranks : data[s][r] \in Torn..EpochSteps
      BY <1>2 DEF TypeOK
    <2>2. QED
      BY <1>1, <1>3, <2>1
  <1>6. \A s \in Steps, r \in Ranks : data'[s][r] <= s
    <2> SUFFICES ASSUME NEW s \in Steps, NEW r \in Ranks
                 PROVE  data'[s][r] <= s
      OBVIOUS
    <2>1. data'[s][r] \in {Absent, Torn, data[s][r]}
      BY <1>1
    <2>2. data[s][r] <= s
      BY DEF StoreInv, DataInv
    <2>3. s \in Nat /\ s >= 1
      BY StepsAssumption DEF Steps
    <2>4. QED
      BY <2>1, <2>2, <2>3 DEF Absent, Torn
  <1>7. tracker \notin Doomed
    <2>1. tracker \in Int
      BY <1>2, StepsAssumption DEF TypeOK, Torn
    <2>2. CASE pc[0] = "room" /\ MaxKeep > 1
      BY <2>1, <2>2, RoomDropped DEF Doomed
    <2>3. CASE pc[0] = "register" /\ MaxKeep > 0
      BY <2>1, <2>3, RegisterDropped DEF Doomed
    <2>4. CASE ~(pc[0] = "room" /\ MaxKeep > 1) /\ ~(pc[0] = "register" /\ MaxKeep > 0)
      BY <2>4 DEF Doomed
    <2>5. QED
      BY <2>2, <2>3, <2>4
  <1>8. ASSUME tracker \in Steps
        PROVE  /\ data'[tracker][0] = data[tracker][0]
               /\ \A k \in Kinds, r \in Ranks :
                    shard'[tracker][k][r] = shard[tracker][k][r]
    <2>1. /\ \A k \in Kinds, r \in Ranks : <<tracker, k, r>> \notin lost
          /\ \A r \in Ranks : <<tracker, r>> \notin lostData
      BY <1>1, <1>7
    <2>2. \A r \in Ranks : pc[r] = "shard" => tracker # step
      BY <1>2, RankZero, SamePhase
         DEF StoreInv, StepInv, TypeOK, Saving, Writing, Torn
    <2>3. pc[0] = "data" => tracker # step
      BY <1>2 DEF StoreInv, StepInv, TypeOK, Saving, Announcing, Torn
    <2>4. data'[tracker][0] = data[tracker][0]
      BY <1>1, <1>8, <2>1, <2>3, RankZero
    <2>5. ASSUME NEW k \in Kinds, NEW r \in Ranks
          PROVE  shard'[tracker][k][r] = shard[tracker][k][r]
      BY <1>1, <1>8, <2>1, <2>2
    <2>6. QED
      BY <2>4, <2>5
  <1>9. QED
    BY <1>4, <1>5, <1>6, <1>8

\* A job that starts from scratch finds nothing announced.
LEMMA LaunchFreshStep ==
    ASSUME Supported, StoreInv, NEW mode \in Modes, LaunchFresh(mode)
    PROVE  StoreInv'
  <1> USE DEF StoreInv
  <1>1. pc[0] = "down" /\ mode = "auto" /\ tracker = 0
    BY RankZero, SamePhase DEF LaunchFresh, BeginLaunch, All, LatestStep,
                               Supported, TrackedIsWhole, TypeOK, Torn, Steps
  <1>2. TypeOK'
    <2>1. pc' \in [Ranks -> PCs]
      BY <1>1, RankZero, SamePhase, WorldAssumption, StepsAssumption,
         PolicyAssumption
         DEF TypeOK, PCs, Barriers, LaunchFresh, BeginLaunch, All, LatestStep
    <2>2. loader' \in [Ranks -> 0..EpochSteps]
      BY <1>1, RankZero, SamePhase, WorldAssumption, StepsAssumption,
         PolicyAssumption
         DEF TypeOK, LatestStep, Torn, Steps, DataInv, LaunchFresh,
             BeginLaunch, All
    <2>3. step' \in 0..EpochSteps /\ resumed' \in 0..EpochSteps
      BY <1>1, RankZero, SamePhase, WorldAssumption, StepsAssumption,
         PolicyAssumption
         DEF TypeOK, LatestStep, Steps, LaunchFresh, BeginLaunch, All
    <2>4. saved' \in Seq(Steps)
      BY <1>1, RankZero, SamePhase, WorldAssumption, StepsAssumption,
         PolicyAssumption
         DEF TypeOK, LaunchFresh, BeginLaunch, All, LatestStep
    <2>5. launch' \in 0..MaxLaunches
      BY <1>1, RankZero, SamePhase, WorldAssumption, StepsAssumption,
         PolicyAssumption
         DEF TypeOK, LaunchFresh, BeginLaunch, All, LatestStep
    <2>6. QED
      BY <2>1, <2>2, <2>3, <2>4, <2>5 DEF TypeOK, LaunchFresh, BeginLaunch,
                                          All, LatestStep
  <1>3. PhaseInv'
    BY <1>1, RankZero, SamePhase, WorldAssumption, StepsAssumption
       DEF PhaseInv, TypeOK, All, AllIn, Making, Writing, Registering,
           Announcing, LaunchFresh, BeginLaunch, LatestStep
  <1>4. StepInv'
    BY <1>1, RankZero, SamePhase, WorldAssumption, StepsAssumption
       DEF StepInv, TypeOK, Saving, Torn, Absent, Steps, Making, Writing,
           Registering, Announcing, LaunchFresh, BeginLaunch, All, LatestStep
  <1>5. FileInv'
    BY <1>1, RankZero, SamePhase, WorldAssumption, StepsAssumption
       DEF FileInv, RankFiles, StepInv, TypeOK, Kinds, Saving, Making,
           Writing, Registering, Announcing, LaunchFresh, BeginLaunch, All,
           LatestStep
  <1>6. SavedInv'
    BY <1>1, RankZero, SamePhase, WorldAssumption, StepsAssumption
       DEF SavedInv, StepInv, TypeOK, Saving, Making, Writing, Registering,
           Announcing, LaunchFresh, BeginLaunch, All, LatestStep
  <1>7. DataInv'
    BY <1>1, RankZero, SamePhase, WorldAssumption, StepsAssumption
       DEF DataInv, StepInv, TypeOK, Saving, Steps, Torn, Absent, Making,
           Writing, Registering, Announcing, LaunchFresh, BeginLaunch, All,
           LatestStep
  <1>8. EndInv'
    BY <1>1, RankZero, SamePhase, WorldAssumption, StepsAssumption
       DEF EndInv, StepInv, TypeOK, Saving, Making, Writing, Registering,
           Announcing, LaunchFresh, BeginLaunch, All, LatestStep
  <1>9. TrackedIsWhole'
    BY <1>1, RankZero, SamePhase, WorldAssumption, StepsAssumption
       DEF TrackedIsWhole, Whole, StepInv, TypeOK, Saving, Making, Writing,
           Registering, Announcing, LaunchFresh, BeginLaunch, All, LatestStep
  <1>10. RankZeroInStep'
    BY <1>1, RankZero, SamePhase, WorldAssumption, StepsAssumption
       DEF RankZeroInStep, DataInv, TypeOK, Steps, Making, Writing,
           Registering, Announcing, LaunchFresh, BeginLaunch, All, LatestStep
  <1>11. QED
    BY <1>2, <1>3, <1>4, <1>5, <1>6, <1>7, <1>8, <1>9, <1>10

\* A resumed job goes on from the announced step.
LEMMA LaunchResumeStep ==
    ASSUME Supported, StoreInv, NEW mode \in Modes, LaunchResume(mode)
    PROVE  StoreInv'
  <1> USE DEF StoreInv
  <1>1. pc[0] = "down" /\ tracker \in dirs /\ tracker \in Steps
    BY RankZero, SamePhase DEF LaunchResume, BeginLaunch, All, LatestStep,
                               TypeOK
  <1>2. TypeOK'
    <2>1. pc' \in [Ranks -> PCs]
      BY <1>1, RankZero, SamePhase, WorldAssumption, StepsAssumption,
         PolicyAssumption
         DEF TypeOK, PCs, Barriers, LaunchResume, BeginLaunch, All,
             LatestStep, Loadable
    <2>2. loader' \in [Ranks -> 0..EpochSteps]
      BY <1>1, RankZero, SamePhase, WorldAssumption, StepsAssumption,
         PolicyAssumption
         DEF TypeOK, LatestStep, Torn, Steps, DataInv, LaunchResume,
             BeginLaunch, All, Loadable
    <2>3. step' \in 0..EpochSteps /\ resumed' \in 0..EpochSteps
      BY <1>1, RankZero, SamePhase, WorldAssumption, StepsAssumption,
         PolicyAssumption
         DEF TypeOK, LatestStep, Steps, LaunchResume, BeginLaunch, All,
             Loadable
    <2>4. saved' \in Seq(Steps)
      BY <1>1, RankZero, SamePhase, WorldAssumption, StepsAssumption,
         PolicyAssumption
         DEF TypeOK, LaunchResume, BeginLaunch, All, LatestStep, Loadable
    <2>5. launch' \in 0..MaxLaunches
      BY <1>1, RankZero, SamePhase, WorldAssumption, StepsAssumption,
         PolicyAssumption
         DEF TypeOK, LaunchResume, BeginLaunch, All, LatestStep, Loadable
    <2>6. QED
      BY <2>1, <2>2, <2>3, <2>4, <2>5 DEF TypeOK, LaunchResume, BeginLaunch,
                                          All, LatestStep, Loadable
  <1>3. PhaseInv'
    BY <1>1, RankZero, SamePhase, WorldAssumption, StepsAssumption
       DEF PhaseInv, TypeOK, All, AllIn, Making, Writing, Registering,
           Announcing, LaunchResume, BeginLaunch, LatestStep, Loadable
  <1>4. StepInv'
    BY <1>1, RankZero, SamePhase, WorldAssumption, StepsAssumption
       DEF StepInv, TypeOK, Saving, Torn, Absent, Steps, Making, Writing,
           Registering, Announcing, LaunchResume, BeginLaunch, All,
           LatestStep, Loadable
  <1>5. FileInv'
    BY <1>1, RankZero, SamePhase, WorldAssumption, StepsAssumption
       DEF FileInv, RankFiles, StepInv, TypeOK, Kinds, Saving, Making,
           Writing, Registering, Announcing, LaunchResume, BeginLaunch, All,
           LatestStep, Loadable
  <1>6. SavedInv'
    BY <1>1, RankZero, SamePhase, WorldAssumption, StepsAssumption
       DEF SavedInv, StepInv, TypeOK, Saving, Making, Writing, Registering,
           Announcing, LaunchResume, BeginLaunch, All, LatestStep, Loadable
  <1>7. DataInv'
    BY <1>1, RankZero, SamePhase, WorldAssumption, StepsAssumption
       DEF DataInv, StepInv, TypeOK, Saving, Steps, Torn, Absent, Making,
           Writing, Registering, Announcing, LaunchResume, BeginLaunch, All,
           LatestStep, Loadable
  <1>8. EndInv'
    BY <1>1, RankZero, SamePhase, WorldAssumption, StepsAssumption
       DEF EndInv, StepInv, TypeOK, Saving, Making, Writing, Registering,
           Announcing, LaunchResume, BeginLaunch, All, LatestStep, Loadable
  <1>9. TrackedIsWhole'
    BY <1>1, RankZero, SamePhase, WorldAssumption, StepsAssumption
       DEF TrackedIsWhole, Whole, StepInv, TypeOK, Saving, Making, Writing,
           Registering, Announcing, LaunchResume, BeginLaunch, All,
           LatestStep, Loadable
  <1>10. RankZeroInStep'
    BY <1>1, RankZero, SamePhase, WorldAssumption, StepsAssumption
       DEF RankZeroInStep, DataInv, TypeOK, Steps, Making, Writing,
           Registering, Announcing, LaunchResume, BeginLaunch, All,
           LatestStep, Loadable
  <1>11. QED
    BY <1>2, <1>3, <1>4, <1>5, <1>6, <1>7, <1>8, <1>9, <1>10

\* A launch that fails changes nothing on disk.
LEMMA LaunchFailsStep ==
    ASSUME Supported, StoreInv, NEW mode \in Modes, LaunchFails(mode)
    PROVE  StoreInv'
  <1> USE DEF StoreInv
  <1>1. pc[0] = "down"
    BY RankZero, SamePhase DEF LaunchFails, BeginLaunch, All
  <1>2. TypeOK'
    <2>1. saved' \in Seq(Steps)
      BY <1>1, RankZero, SamePhase, WorldAssumption, StepsAssumption,
         PolicyAssumption
         DEF TypeOK, LaunchFails, BeginLaunch, All
    <2>2. launch' \in 0..MaxLaunches
      BY <1>1, RankZero, SamePhase, WorldAssumption, StepsAssumption,
         PolicyAssumption
         DEF TypeOK, LaunchFails, BeginLaunch, All
    <2>3. QED
      BY <2>1, <2>2 DEF TypeOK, LaunchFails, BeginLaunch, All
  <1>3. PhaseInv'
    BY <1>1, RankZero, SamePhase, WorldAssumption, StepsAssumption
       DEF PhaseInv, TypeOK, All, AllIn, Making, Writing, Registering,
           Announcing, LaunchFails, BeginLaunch
  <1>4. StepInv'
    BY <1>1, RankZero, SamePhase, WorldAssumption, StepsAssumption
       DEF StepInv, TypeOK, Saving, Torn, Absent, Steps, Making, Writing,
           Registering, Announcing, LaunchFails, BeginLaunch, All
  <1>5. FileInv'
    BY <1>1, RankZero, SamePhase, WorldAssumption, StepsAssumption
       DEF FileInv, RankFiles, StepInv, TypeOK, Kinds, Saving, Making,
           Writing, Registering, Announcing, LaunchFails, BeginLaunch, All
  <1>6. SavedInv'
    BY <1>1, RankZero, SamePhase, WorldAssumption, StepsAssumption
       DEF SavedInv, StepInv, TypeOK, Saving, Making, Writing, Registering,
           Announcing, LaunchFails, BeginLaunch, All
  <1>7. DataInv'
    BY <1>1, RankZero, SamePhase, WorldAssumption, StepsAssumption
       DEF DataInv, StepInv, TypeOK, Saving, Steps, Torn, Absent, Making,
           Writing, Registering, Announcing, LaunchFails, BeginLaunch, All
  <1>8. EndInv'
    BY <1>1, RankZero, SamePhase, WorldAssumption, StepsAssumption
       DEF EndInv, StepInv, TypeOK, Saving, Making, Writing, Registering,
           Announcing, LaunchFails, BeginLaunch, All
  <1>9. TrackedIsWhole'
    BY <1>1, RankZero, SamePhase, WorldAssumption, StepsAssumption
       DEF TrackedIsWhole, Whole, StepInv, TypeOK, Saving, Making, Writing,
           Registering, Announcing, LaunchFails, BeginLaunch, All
  <1>10. RankZeroInStep'
    BY <1>1, RankZero, SamePhase, WorldAssumption, StepsAssumption
       DEF RankZeroInStep, DataInv, TypeOK, Steps, Making, Writing,
           Registering, Announcing, LaunchFails, BeginLaunch, All
  <1>11. QED
    BY <1>2, <1>3, <1>4, <1>5, <1>6, <1>7, <1>8, <1>9, <1>10

\* A training step begins a save or moves on.
LEMMA TrainStep ==
    ASSUME Supported, StoreInv, Train
    PROVE  StoreInv'
  <1> USE DEF StoreInv
  <1>1. pc[0] = "train" /\ \A r \in Ranks : pc[r] = "train"
    BY RankZero, SamePhase DEF Train, All
  <1>2. \A r \in Ranks : loader[r] \in 0..step
    BY <1>1 DEF DataInv, TypeOK
  <1>3. loader' = [r \in Ranks |-> loader[r] + 1] /\ step' = step + 1 /\ step < EpochSteps
    BY DEF Train
  <1>4. TypeOK'
    <2>1. pc' \in [Ranks -> PCs]
      BY <1>1, RankZero, SamePhase, WorldAssumption, StepsAssumption,
         PolicyAssumption, <1>2, <1>3
         DEF TypeOK, PCs, Barriers, Train, All, IsSaveStep
    <2>2. file' \in [Ranks -> 1..(Files + 1)]
      BY <1>1, RankZero, SamePhase, WorldAssumption, StepsAssumption,
         PolicyAssumption, <1>2, <1>3
         DEF TypeOK, Train, All, IsSaveStep
    <2>3. loader' \in [Ranks -> 0..EpochSteps]
      BY <1>2, <1>3, StepsAssumption DEF TypeOK
    <2>4. step' \in 0..EpochSteps /\ resumed' \in 0..EpochSteps
      BY <1>1, RankZero, SamePhase, WorldAssumption, StepsAssumption,
         PolicyAssumption, <1>2, <1>3
         DEF TypeOK, LatestStep, Steps, Train, All, IsSaveStep
    <2>5. QED
      BY <2>1, <2>2, <2>3, <2>4 DEF TypeOK, Train, All, IsSaveStep
  <1>5. PhaseInv'
    BY <1>1, RankZero, SamePhase, WorldAssumption, StepsAssumption, <1>2, <1>3
       DEF PhaseInv, TypeOK, All, AllIn, Making, Writing, Registering,
           Announcing, Train, IsSaveStep
  <1>6. StepInv'
    BY <1>1, RankZero, SamePhase, WorldAssumption, StepsAssumption, <1>2, <1>3
       DEF StepInv, TypeOK, Saving, Torn, Absent, Steps, Making, Writing,
           Registering, Announcing, Train, All, IsSaveStep
  <1>7. FileInv'
    BY <1>1, RankZero, SamePhase, WorldAssumption, StepsAssumption, <1>2, <1>3
       DEF FileInv, RankFiles, StepInv, TypeOK, Kinds, Saving, Making,
           Writing, Registering, Announcing, Train, All, IsSaveStep
  <1>8. SavedInv'
    BY <1>1, RankZero, SamePhase, WorldAssumption, StepsAssumption, <1>2, <1>3
       DEF SavedInv, StepInv, TypeOK, Saving, Making, Writing, Registering,
           Announcing, Train, All, IsSaveStep
  <1>9. DataInv'
    <2>1. \A r \in Ranks : loader'[r] <= step'
      BY <1>2, <1>3 DEF TypeOK
    <2>2. QED
      BY <1>1, <2>1, RankZero DEF DataInv, Train, TypeOK
  <1>10. EndInv'
    BY <1>1, RankZero, SamePhase, WorldAssumption, StepsAssumption, <1>2, <1>3
       DEF EndInv, StepInv, TypeOK, Saving, Making, Writing, Registering,
           Announcing, Train, All, IsSaveStep
  <1>11. TrackedIsWhole'
    BY <1>1, RankZero, SamePhase, WorldAssumption, StepsAssumption, <1>2, <1>3
       DEF TrackedIsWhole, Whole, StepInv, TypeOK, Saving, Making, Writing,
           Registering, Announcing, Train, All, IsSaveStep
  <1>12. RankZeroInStep'
    BY <1>1, RankZero, SamePhase, WorldAssumption, StepsAssumption, <1>2, <1>3
       DEF RankZeroInStep, DataInv, TypeOK, Steps, Making, Writing,
           Registering, Announcing, Train, All, IsSaveStep
  <1>13. QED
    BY <1>4, <1>5, <1>6, <1>7, <1>8, <1>9, <1>10, <1>11, <1>12

\* A job with nothing left to train has announced its last step.
LEMMA NothingToTrainStep ==
    ASSUME Supported, StoreInv, NothingToTrain
    PROVE  StoreInv'
  <1> USE DEF StoreInv
  <1>1. pc[0] = "train" /\ \A r \in Ranks : pc[r] = "train"
    BY RankZero, SamePhase DEF NothingToTrain, All
  <1>2. TypeOK'
    BY <1>1, RankZero, SamePhase, WorldAssumption, StepsAssumption
       DEF TypeOK, PCs, Barriers, Steps, Absent, Torn, NothingToTrain, All
  <1>3. PhaseInv'
    BY <1>1, RankZero, SamePhase, WorldAssumption, StepsAssumption
       DEF PhaseInv, TypeOK, All, AllIn, Making, Writing, Registering,
           Announcing, NothingToTrain
  <1>4. StepInv'
    BY <1>1, RankZero, SamePhase, WorldAssumption, StepsAssumption
       DEF StepInv, TypeOK, Saving, Torn, Absent, Steps, Making, Writing,
           Registering, Announcing, NothingToTrain, All
  <1>5. FileInv'
    BY <1>1, RankZero, SamePhase, WorldAssumption, StepsAssumption
       DEF FileInv, RankFiles, StepInv, TypeOK, Kinds, Saving, Making,
           Writing, Registering, Announcing, NothingToTrain, All
  <1>6. SavedInv'
    BY <1>1, RankZero, SamePhase, WorldAssumption, StepsAssumption
       DEF SavedInv, StepInv, TypeOK, Saving, Making, Writing, Registering,
           Announcing, NothingToTrain, All
  <1>7. DataInv'
    BY <1>1, RankZero, SamePhase, WorldAssumption, StepsAssumption
       DEF DataInv, StepInv, TypeOK, Saving, Steps, Torn, Absent, Making,
           Writing, Registering, Announcing, NothingToTrain, All
  <1>8. EndInv'
    BY <1>1, RankZero, SamePhase, WorldAssumption, StepsAssumption
       DEF EndInv, StepInv, TypeOK, Saving, Making, Writing, Registering,
           Announcing, NothingToTrain, All
  <1>9. TrackedIsWhole'
    BY <1>1, RankZero, SamePhase, WorldAssumption, StepsAssumption
       DEF TrackedIsWhole, Whole, StepInv, TypeOK, Saving, Making, Writing,
           Registering, Announcing, NothingToTrain, All
  <1>10. RankZeroInStep'
    BY <1>1, RankZero, SamePhase, WorldAssumption, StepsAssumption
       DEF RankZeroInStep, DataInv, TypeOK, Steps, Making, Writing,
           Registering, Announcing, NothingToTrain, All
  <1>11. QED
    BY <1>2, <1>3, <1>4, <1>5, <1>6, <1>7, <1>8, <1>9, <1>10

\* Creating the directory of the new step.
LEMMA MakeDirStep ==
    ASSUME Supported, StoreInv, NEW r \in Ranks, MakeDir(r)
    PROVE  StoreInv'
  <1> USE DEF StoreInv
  <1>1. pc[r] = "mkdir" /\ pc[0] \in Making /\ step \in Steps
    BY RankZero, SamePhase DEF MakeDir, Making, StepInv, Saving, TypeOK, Steps
  <1>2. TypeOK'
    <2>1. pc' \in [Ranks -> PCs]
      BY <1>1, RankZero, SamePhase, WorldAssumption, StepsAssumption,
         PolicyAssumption
         DEF TypeOK, PCs, Barriers, MakeDir, Goto
    <2>2. dirs' \subseteq Steps
      BY <1>1, RankZero, SamePhase, WorldAssumption, StepsAssumption,
         PolicyAssumption
         DEF TypeOK, Steps, StepInv, Saving, Making, Writing, Registering,
             Announcing, MakeDir, Goto
    <2>3. QED
      BY <2>1, <2>2 DEF TypeOK, MakeDir, Goto
  <1>3. PhaseInv'
    BY <1>1, RankZero, SamePhase, WorldAssumption, StepsAssumption
       DEF PhaseInv, TypeOK, All, AllIn, Making, Writing, Registering,
           Announcing, MakeDir, Goto
  <1>4. StepInv'
    BY <1>1, RankZero, SamePhase, WorldAssumption, StepsAssumption
       DEF StepInv, TypeOK, Saving, Torn, Absent, Steps, Making, Writing,
           Registering, Announcing, MakeDir, Goto
  <1>5. FileInv'
    BY <1>1, RankZero, SamePhase, WorldAssumption, StepsAssumption
       DEF FileInv, RankFiles, StepInv, TypeOK, Kinds, Saving, Making,
           Writing, Registering, Announcing, MakeDir, Goto
  <1>6. SavedInv'
    BY <1>1, RankZero, SamePhase, WorldAssumption, StepsAssumption
       DEF SavedInv, StepInv, TypeOK, Saving, Making, Writing, Registering,
           Announcing, MakeDir, Goto
  <1>7. DataInv'
    BY <1>1, RankZero, SamePhase, WorldAssumption, StepsAssumption
       DEF DataInv, StepInv, TypeOK, Saving, Steps, Torn, Absent, Making,
           Writing, Registering, Announcing, MakeDir, Goto
  <1>8. EndInv'
    BY <1>1, RankZero, SamePhase, WorldAssumption, StepsAssumption
       DEF EndInv, StepInv, TypeOK, Saving, Making, Writing, Registering,
           Announcing, MakeDir, Goto
  <1>9. TrackedIsWhole'
    BY <1>1, RankZero, SamePhase, WorldAssumption, StepsAssumption
       DEF TrackedIsWhole, Whole, StepInv, TypeOK, Saving, Making, Writing,
           Registering, Announcing, MakeDir, Goto
  <1>10. RankZeroInStep'
    BY <1>1, RankZero, SamePhase, WorldAssumption, StepsAssumption
       DEF RankZeroInStep, DataInv, TypeOK, Steps, Making, Writing,
           Registering, Announcing, MakeDir, Goto
  <1>11. QED
    BY <1>2, <1>3, <1>4, <1>5, <1>6, <1>7, <1>8, <1>9, <1>10

\* A shard is written into the new step's directory, not the tracked one.
LEMMA WriteShardStep ==
    ASSUME Supported, StoreInv, NEW r \in Ranks, WriteShard(r)
    PROVE  StoreInv'
  <1> USE DEF StoreInv
  <1>1. pc[r] = "shard" /\ pc[0] \in Writing /\ step \in Steps /\ file[r] \in Kinds
    BY RankZero, SamePhase DEF WriteShard, Writing, FileInv, RankFiles, Kinds,
                               StepInv, Saving, TypeOK, Steps
  <1>2. file[r] + 1 \in 1..(Files + 1)
    BY <1>1, WorldAssumption DEF Kinds
  <1>3. launch \in 1..MaxLaunches /\ launch \in Torn..MaxLaunches
    BY <1>1, PolicyAssumption
       DEF StepInv, TypeOK, Writing, Torn
  <1>4. shard' = [shard EXCEPT ![step][file[r]][r] = launch]
    BY DEF WriteShard
  <1>5. /\ shard' \in [Steps -> [Kinds -> [Ranks -> Torn..MaxLaunches]]]
        /\ \A s \in Steps, k \in Kinds, q \in Ranks :
             shard'[s][k][q] = IF s = step /\ k = file[r] /\ q = r
                               THEN launch ELSE shard[s][k][q]
    <2> DEFINE V == Torn..MaxLaunches
    <2>1. shard \in [Steps -> [Kinds -> [Ranks -> V]]] /\ launch \in V
      BY <1>3 DEF TypeOK
    <2>2. step \in Steps /\ file[r] \in Kinds
      BY <1>1
    <2> HIDE DEF V
    <2>3. /\ shard' \in [Steps -> [Kinds -> [Ranks -> V]]]
          /\ \A s \in Steps, k \in Kinds, q \in Ranks :
               shard'[s][k][q] = IF s = step /\ k = file[r] /\ q = r
                                 THEN launch ELSE shard[s][k][q]
      BY <1>4, <2>1, <2>2
    <2>4. QED
      BY <2>3 DEF V
  <1>6. TypeOK'
    <2>1. pc' \in [Ranks -> PCs]
      BY <1>1, RankZero, SamePhase, WorldAssumption, StepsAssumption,
         PolicyAssumption
         DEF TypeOK, PCs, Barriers, WriteShard, Goto
    <2>2. file' \in [Ranks -> 1..(Files + 1)]
      BY <1>2 DEF TypeOK, WriteShard
    <2>3. shard' \in [Steps -> [Kinds -> [Ranks -> Torn..MaxLaunches]]]
      BY <1>5
    <2>4. QED
      BY <2>1, <2>2, <2>3 DEF TypeOK, WriteShard, Goto
  <1>7. PhaseInv'
    BY <1>1, RankZero, SamePhase, WorldAssumption, StepsAssumption
       DEF PhaseInv, TypeOK, All, AllIn, Making, Writing, Registering,
           Announcing, WriteShard, Goto
  <1>8. StepInv'
    BY <1>1, RankZero, SamePhase, WorldAssumption, StepsAssumption
       DEF StepInv, TypeOK, Saving, Torn, Absent, Steps, Making, Writing,
           Registering, Announcing, WriteShard, Goto
  <1>9. FileInv'
    <2>1. /\ pc' = [pc EXCEPT ![r] = IF file[r] = Files THEN "b2" ELSE "shard"]
          /\ file' = [file EXCEPT ![r] = file[r] + 1]
          /\ step' = step /\ launch' = launch /\ dirs' = dirs
      BY DEF WriteShard, Goto
    <2>2. ASSUME NEW q \in Ranks, q # r PROVE RankFiles(q)'
      BY <1>1, <1>5, <2>1, <2>2 DEF FileInv, RankFiles, TypeOK
    <2>3. RankFiles(r)'
      <3>1. pc'[r] \in Writing /\ (pc'[r] = "shard" => file[r] # Files)
        BY <2>1 DEF TypeOK, Writing
      <3>2. file'[r] = file[r] + 1 /\ file[r] \in 1..Files
        BY <1>1, <2>1 DEF TypeOK, Kinds
      <3>3. step \in dirs' /\ pc[r] = "shard"
        BY <1>1, <2>1 DEF FileInv, RankFiles, Writing
      <3>4. ASSUME NEW k \in Kinds, k < file[r] \/ k = file[r]
            PROVE  shard'[step][k][r] = launch
        BY <1>1, <1>5, <3>2, <3>3, <3>4 DEF FileInv, RankFiles
      <3>5. pc'[r] = "b2" => file[r] = Files
        BY <2>1 DEF TypeOK
      <3>6. \A k \in Kinds : k < file[r] + 1 \/ file[r] = Files =>
                             k < file[r] \/ k = file[r]
        BY <3>2, WorldAssumption DEF Kinds
      <3>7. file[r] # Files => file[r] + 1 <= Files
        BY <3>2, WorldAssumption
      <3>8. QED
        BY <2>1, <3>1, <3>2, <3>3, <3>4, <3>5, <3>6, <3>7
           DEF RankFiles, Writing, Making, Registering, Announcing
    <2>4. QED
      BY <2>2, <2>3 DEF FileInv
  <1>10. SavedInv'
    BY <1>1, RankZero, SamePhase, WorldAssumption, StepsAssumption
       DEF SavedInv, StepInv, TypeOK, Saving, Making, Writing, Registering,
           Announcing, WriteShard, Goto
  <1>11. DataInv'
    BY <1>1, RankZero, SamePhase, WorldAssumption, StepsAssumption
       DEF DataInv, StepInv, TypeOK, Saving, Steps, Torn, Absent, Making,
           Writing, Registering, Announcing, WriteShard, Goto
  <1>12. EndInv'
    BY <1>1, RankZero, SamePhase, WorldAssumption, StepsAssumption
       DEF EndInv, StepInv, TypeOK, Saving, Making, Writing, Registering,
           Announcing, WriteShard, Goto
  <1>13. TrackedIsWhole'
    <2>1. tracker' = tracker /\ dirs' = dirs /\ tracker # step
      BY <1>1 DEF WriteShard, StepInv, Saving, Writing, TypeOK, Torn
    <2>2. tracker > 0 => /\ tracker \in Steps /\ tracker \in dirs
                         /\ \A k \in Kinds, q \in Ranks :
                              shard'[tracker][k][q] = shard[tracker][k][q]
      BY <1>1, <1>5, <2>1 DEF TrackedIsWhole, TypeOK
    <2>3. QED
      BY <2>1, <2>2, TrackedKept
  <1>14. RankZeroInStep'
    BY <1>1, RankZero, SamePhase, WorldAssumption, StepsAssumption
       DEF RankZeroInStep, DataInv, TypeOK, Steps, Making, Writing,
           Registering, Announcing, WriteShard, Goto
  <1>15. QED
    BY <1>6, <1>7, <1>8, <1>9, <1>10, <1>11, <1>12, <1>13, <1>14

\* A dataloader state is written into the new step's directory.
LEMMA WriteDataStep ==
    ASSUME Supported, StoreInv, NEW r \in Ranks, WriteData(r)
    PROVE  StoreInv'
  <1> USE DEF StoreInv
  <1>1. pc[r] = "data" /\ pc[0] \in Announcing /\ step \in Steps
    BY RankZero, SamePhase DEF WriteData, Announcing, StepInv, Saving, TypeOK,
                               Steps
  <1>2. loader[r] \in Torn..EpochSteps /\ loader[r] <= step
    BY <1>1 DEF TypeOK, Torn, DataInv, Announcing
  <1>3. data' = [data EXCEPT ![step][r] = loader[r]]
    BY DEF WriteData
  <1>4. /\ data' \in [Steps -> [Ranks -> Torn..EpochSteps]]
        /\ \A s \in Steps, q \in Ranks :
             data'[s][q] = IF s = step /\ q = r THEN loader[r] ELSE data[s][q]
    <2> DEFINE V == Torn..EpochSteps
    <2>1. data \in [Steps -> [Ranks -> V]] /\ loader[r] \in V
      BY <1>2 DEF TypeOK
    <2>2. step \in Steps
      BY <1>1
    <2> HIDE DEF V
    <2>3. /\ data' \in [Steps -> [Ranks -> V]]
          /\ \A s \in Steps, q \in Ranks :
               data'[s][q] = IF s = step /\ q = r THEN loader[r] ELSE data[s][q]
      BY <1>3, <2>1, <2>2
    <2>4. QED
      BY <2>3 DEF V
  <1>5. TypeOK'
    <2>1. pc' \in [Ranks -> PCs]
      BY <1>1, RankZero, SamePhase, WorldAssumption, StepsAssumption,
         PolicyAssumption
         DEF TypeOK, PCs, Barriers, WriteData, Goto
    <2>2. dirs' \subseteq Steps
      BY <1>1, RankZero, SamePhase, WorldAssumption, StepsAssumption,
         PolicyAssumption
         DEF TypeOK, Steps, StepInv, Saving, Making, Writing, Registering,
             Announcing, WriteData, Goto
    <2>3. data' \in [Steps -> [Ranks -> Torn..EpochSteps]]
      BY <1>4
    <2>4. QED
      BY <2>1, <2>2, <2>3 DEF TypeOK, WriteData, Goto
  <1>6. PhaseInv'
    BY <1>1, RankZero, SamePhase, WorldAssumption, StepsAssumption
       DEF PhaseInv, TypeOK, All, AllIn, Making, Writing, Registering,
           Announcing, WriteData, Goto
  <1>7. StepInv'
    BY <1>1, RankZero, SamePhase, WorldAssumption, StepsAssumption
       DEF StepInv, TypeOK, Saving, Torn, Absent, Steps, Making, Writing,
           Registering, Announcing, WriteData, Goto
  <1>8. FileInv'
    BY <1>1, RankZero, SamePhase, WorldAssumption, StepsAssumption
       DEF FileInv, RankFiles, StepInv, TypeOK, Kinds, Saving, Making,
           Writing, Registering, Announcing, WriteData, Goto
  <1>9. SavedInv'
    BY <1>1, RankZero, SamePhase, WorldAssumption, StepsAssumption
       DEF SavedInv, StepInv, TypeOK, Saving, Making, Writing, Registering,
           Announcing, WriteData, Goto
  <1>10. DataInv'
    <2>1. /\ tracker' = tracker /\ step' = step /\ loader' = loader
          /\ pc' = [pc EXCEPT ![r] = IF r = 0 THEN "tracker" ELSE "b4"]
      BY DEF WriteData, Goto
    <2>2. ASSUME tracker > 0 PROVE data'[tracker][0] = tracker
      <3>1. tracker \in Steps
        BY <2>2 DEF TypeOK, Steps, Torn
      <3>2. ~(tracker = step /\ r = 0)
        BY <1>1 DEF StepInv, TypeOK, Torn, Saving, Announcing
      <3>3. QED
        BY <1>4, <2>2, <3>1, <3>2, RankZero DEF DataInv
    <2>3. ASSUME pc'[0] = "tracker" PROVE data'[step][0] = step
      <3>1. CASE r = 0
        BY <1>1, <1>4, <3>1, RankZero DEF RankZeroInStep
      <3>2. CASE r # 0
        BY <1>1, <1>4, <2>1, <2>3, <3>2, RankZero DEF DataInv, TypeOK
      <3>3. QED
        BY <3>1, <3>2
    <2>4. \A s \in Steps, q \in Ranks : data'[s][q] <= s
      BY <1>2, <1>4 DEF DataInv
    <2>5. \A q \in Ranks : loader'[q] <= step'
      BY <1>1, <2>1 DEF DataInv, Announcing
    <2>6. QED
      BY <2>1, <2>2, <2>3, <2>4, <2>5 DEF DataInv
  <1>11. EndInv'
    BY <1>1, RankZero, SamePhase, WorldAssumption, StepsAssumption
       DEF EndInv, StepInv, TypeOK, Saving, Making, Writing, Registering,
           Announcing, WriteData, Goto
  <1>12. TrackedIsWhole'
    BY <1>1, RankZero, SamePhase, WorldAssumption, StepsAssumption
       DEF TrackedIsWhole, Whole, StepInv, TypeOK, Saving, Making, Writing,
           Registering, Announcing, WriteData, Goto
  <1>13. RankZeroInStep'
    BY <1>1, RankZero, SamePhase, WorldAssumption, StepsAssumption
       DEF RankZeroInStep, DataInv, TypeOK, Steps, Making, Writing,
           Registering, Announcing, WriteData, Goto
  <1>14. QED
    BY <1>5, <1>6, <1>7, <1>8, <1>9, <1>10, <1>11, <1>12, <1>13

\* What is announced is whole.
LEMMA WriteTrackerStep ==
    ASSUME Supported, StoreInv, WriteTracker
    PROVE  StoreInv'
  <1> USE DEF StoreInv
  <1>1. pc[0] = "tracker" /\ step \in Steps /\ launch \in 1..MaxLaunches
    BY RankZero, SamePhase DEF WriteTracker, Announcing, StepInv, Saving,
                               TypeOK, Steps
  <1>2. step \in dirs /\ Whole(step)
    BY <1>1, RankZero, SamePhase DEF FileInv, RankFiles, Whole, Announcing
  <1>3. TypeOK'
    <2>1. pc' \in [Ranks -> PCs]
      BY <1>1, RankZero, SamePhase, WorldAssumption, StepsAssumption,
         PolicyAssumption, <1>2
         DEF TypeOK, PCs, Barriers, WriteTracker, Goto
    <2>2. tracker' \in Torn..EpochSteps
      BY <1>1, RankZero, SamePhase, WorldAssumption, StepsAssumption,
         PolicyAssumption, <1>2
         DEF TypeOK, Torn, WriteTracker, Goto
    <2>3. QED
      BY <2>1, <2>2 DEF TypeOK, WriteTracker, Goto
  <1>4. PhaseInv'
    BY <1>1, RankZero, SamePhase, WorldAssumption, StepsAssumption, <1>2
       DEF PhaseInv, TypeOK, All, AllIn, Making, Writing, Registering,
           Announcing, WriteTracker, Goto
  <1>5. StepInv'
    BY <1>1, RankZero, SamePhase, WorldAssumption, StepsAssumption, <1>2
       DEF StepInv, TypeOK, Saving, Torn, Absent, Steps, Making, Writing,
           Registering, Announcing, WriteTracker, Goto
  <1>6. FileInv'
    BY <1>1, RankZero, SamePhase, WorldAssumption, StepsAssumption, <1>2
       DEF FileInv, RankFiles, StepInv, TypeOK, Kinds, Saving, Making,
           Writing, Registering, Announcing, WriteTracker, Goto
  <1>7. SavedInv'
    BY <1>1, RankZero, SamePhase, WorldAssumption, StepsAssumption, <1>2
       DEF SavedInv, StepInv, TypeOK, Saving, Making, Writing, Registering,
           Announcing, WriteTracker, Goto
  <1>8. DataInv'
    BY <1>1, RankZero, SamePhase, WorldAssumption, StepsAssumption, <1>2
       DEF DataInv, StepInv, TypeOK, Saving, Steps, Torn, Absent, Making,
           Writing, Registering, Announcing, WriteTracker, Goto
  <1>9. EndInv'
    BY <1>1, RankZero, SamePhase, WorldAssumption, StepsAssumption, <1>2
       DEF EndInv, StepInv, TypeOK, Saving, Making, Writing, Registering,
           Announcing, WriteTracker, Goto
  <1>10. TrackedIsWhole'
    BY <1>1, RankZero, SamePhase, WorldAssumption, StepsAssumption, <1>2
       DEF TrackedIsWhole, Whole, StepInv, TypeOK, Saving, Making, Writing,
           Registering, Announcing, WriteTracker, Goto
  <1>11. RankZeroInStep'
    BY <1>1, RankZero, SamePhase, WorldAssumption, StepsAssumption, <1>2
       DEF RankZeroInStep, DataInv, TypeOK, Steps, Making, Writing,
           Registering, Announcing, WriteTracker, Goto
  <1>12. QED
    BY <1>3, <1>4, <1>5, <1>6, <1>7, <1>8, <1>9, <1>10, <1>11

\* Making room for the new checkpoint.
LEMMA MakeRoomStep ==
    ASSUME Supported, StoreInv, MakeRoom
    PROVE  StoreInv'
  <1> USE DEF StoreInv
  <1>1. pc[0] = "room" /\ tracker \in Torn..EpochSteps /\ tracker < step /\ step \in Steps
    BY RankZero, SamePhase DEF MakeRoom, StepInv, Saving, Making, TypeOK,
                               Steps
  <1>2. Rotated(tracker)
    BY RoomKept
  <1>3. /\ pc' = [pc EXCEPT ![0] = "mkdir"]
        /\ UNCHANGED <<file, loader, step, resumed, launch, tracker>>
    BY DEF MakeRoom, Goto
  <1>4. TypeOK'
    <2>1. pc' \in [Ranks -> PCs]
      BY <1>1, RankZero, SamePhase, WorldAssumption, StepsAssumption,
         PolicyAssumption, <1>3
         DEF TypeOK, PCs, Barriers, Goto
    <2>2. QED
      BY <2>1, <1>2, <1>3 DEF TypeOK, Rotated, Goto
  <1>5. PhaseInv'
    BY <1>1, RankZero, SamePhase, WorldAssumption, StepsAssumption, <1>3
       DEF PhaseInv, TypeOK, All, AllIn, Making, Writing, Registering,
           Announcing, Goto
  <1>6. StepInv'
    BY <1>1, RankZero, SamePhase, WorldAssumption, StepsAssumption, <1>3
       DEF StepInv, TypeOK, Saving, Torn, Absent, Steps, Making, Writing,
           Registering, Announcing, Goto
  <1>7. FileInv'
    BY <1>1, RankZero, SamePhase, WorldAssumption, StepsAssumption, <1>3, <1>2
       DEF FileInv, RankFiles, StepInv, TypeOK, Kinds, Saving, Making,
           Writing, Registering, Announcing, Goto, Rotated, Torn, Steps
  <1>8. SavedInv'
    BY <1>1, RankZero, SamePhase, WorldAssumption, StepsAssumption, <1>3, <1>2
       DEF SavedInv, StepInv, TypeOK, Saving, Making, Writing, Registering,
           Announcing, Goto, Rotated, Torn, Steps
  <1>9. DataInv'
    BY <1>1, RankZero, SamePhase, WorldAssumption, StepsAssumption, <1>3, <1>2
       DEF DataInv, StepInv, TypeOK, Saving, Steps, Torn, Absent, Making,
           Writing, Registering, Announcing, Goto, Rotated
  <1>10. EndInv'
    BY <1>1, RankZero, SamePhase, WorldAssumption, StepsAssumption, <1>3
       DEF EndInv, StepInv, TypeOK, Saving, Making, Writing, Registering,
           Announcing, Goto
  <1>11. TrackedIsWhole'
    <2>1. tracker > 0 => tracker \in Steps
      BY <1>1 DEF Steps, Torn
    <2>2. tracker > 0 => tracker \in dirs' /\ shard'[tracker] = shard[tracker]
      BY <1>1, <1>2, <2>1 DEF Rotated, TrackedIsWhole, Steps
    <2>3. QED
      BY <1>3, <2>2, TrackedKept
  <1>12. RankZeroInStep'
    BY <1>1, RankZero, SamePhase, WorldAssumption, StepsAssumption, <1>3
       DEF RankZeroInStep, DataInv, TypeOK, Steps, Making, Writing,
           Registering, Announcing, Goto
  <1>13. QED
    BY <1>4, <1>5, <1>6, <1>7, <1>8, <1>9, <1>10, <1>11, <1>12

\* Registering the new checkpoint.
LEMMA RegisterStep ==
    ASSUME Supported, StoreInv, Register
    PROVE  StoreInv'
  <1> USE DEF StoreInv
  <1>1. pc[0] = "register" /\ tracker \in Torn..EpochSteps /\ tracker < step /\ step \in Steps
    BY RankZero, SamePhase DEF Register, StepInv, Saving, Registering, TypeOK,
                               Steps
  <1>2. Rotated(step)
    BY RegisterKept
  <1>3. /\ pc' = [pc EXCEPT ![0] = "b3"]
        /\ UNCHANGED <<file, loader, step, resumed, launch, tracker>>
    BY DEF Register, Goto
  <1>4. TypeOK'
    <2>1. pc' \in [Ranks -> PCs]
      BY <1>1, RankZero, SamePhase, WorldAssumption, StepsAssumption,
         PolicyAssumption, <1>3
         DEF TypeOK, PCs, Barriers, Goto
    <2>2. QED
      BY <2>1, <1>2, <1>3 DEF TypeOK, Rotated, Goto
  <1>5. PhaseInv'
    BY <1>1, RankZero, SamePhase, WorldAssumption, StepsAssumption, <1>3
       DEF PhaseInv, TypeOK, All, AllIn, Making, Writing, Registering,
           Announcing, Goto
  <1>6. StepInv'
    BY <1>1, RankZero, SamePhase, WorldAssumption, StepsAssumption, <1>3
       DEF StepInv, TypeOK, Saving, Torn, Absent, Steps, Making, Writing,
           Registering, Announcing, Goto
  <1>7. FileInv'
    BY <1>1, RankZero, SamePhase, WorldAssumption, StepsAssumption, <1>3, <1>2
       DEF FileInv, RankFiles, StepInv, TypeOK, Kinds, Saving, Making,
           Writing, Registering, Announcing, Goto, Rotated, Torn, Steps
  <1>8. SavedInv'
    BY <1>1, RankZero, SamePhase, WorldAssumption, StepsAssumption, <1>3, <1>2
       DEF SavedInv, StepInv, TypeOK, Saving, Making, Writing, Registering,
           Announcing, Goto, Rotated, Torn, Steps
  <1>9. DataInv'
    BY <1>1, RankZero, SamePhase, WorldAssumption, StepsAssumption, <1>3, <1>2
       DEF DataInv, StepInv, TypeOK, Saving, Steps, Torn, Absent, Making,
           Writing, Registering, Announcing, Goto, Rotated
  <1>10. EndInv'
    BY <1>1, RankZero, SamePhase, WorldAssumption, StepsAssumption, <1>3
       DEF EndInv, StepInv, TypeOK, Saving, Making, Writing, Registering,
           Announcing, Goto
  <1>11. TrackedIsWhole'
    <2>1. tracker > 0 => tracker \in Steps
      BY <1>1 DEF Steps, Torn
    <2>2. tracker > 0 => tracker \in dirs' /\ shard'[tracker] = shard[tracker]
      BY <1>1, <1>2, <2>1 DEF Rotated, TrackedIsWhole, Steps
    <2>3. QED
      BY <1>3, <2>2, TrackedKept
  <1>12. RankZeroInStep'
    BY <1>1, RankZero, SamePhase, WorldAssumption, StepsAssumption, <1>3
       DEF RankZeroInStep, DataInv, TypeOK, Steps, Making, Writing,
           Registering, Announcing, Goto
  <1>13. QED
    BY <1>4, <1>5, <1>6, <1>7, <1>8, <1>9, <1>10, <1>11, <1>12

\* Behind a barrier every rank has done its part.
LEMMA BarrierStep ==
    ASSUME Supported, StoreInv, NEW b \in Barriers, Barrier(b)
    PROVE  StoreInv'
  <1> USE DEF StoreInv
  <1>1. /\ \A r \in Ranks : pc[r] = b /\ pc'[r] = AfterBarrier(b, r)
        /\ pc' = [r \in Ranks |-> AfterBarrier(b, r)]
        /\ pc[0] = b /\ pc'[0] = AfterBarrier(b, 0)
        /\ UNCHANGED <<memoryVars, diskVars>>
    BY RankZero, SamePhase DEF Barrier, Reached, All
  <1>2. TypeOK'
    <2>1. pc' \in [Ranks -> PCs]
      BY <1>1, RankZero, SamePhase, WorldAssumption, StepsAssumption,
         PolicyAssumption
         DEF TypeOK, PCs, Barriers, AfterBarrier, All
    <2>2. QED
      BY <2>1, <1>1 DEF TypeOK, All, AfterBarrier, Barriers
  <1>3. PhaseInv'
    BY <1>1, RankZero, SamePhase, WorldAssumption, StepsAssumption
       DEF PhaseInv, TypeOK, All, AllIn, Making, Writing, Registering,
           Announcing, AfterBarrier, Barriers
  <1>4. StepInv'
    BY <1>1, RankZero, SamePhase, WorldAssumption, StepsAssumption
       DEF StepInv, TypeOK, Saving, Torn, Absent, Steps, Making, Writing,
           Registering, Announcing, AfterBarrier, All, Barriers
  <1>5. FileInv'
    <2> SUFFICES ASSUME NEW r \in Ranks PROVE RankFiles(r)'
      BY DEF FileInv
    <2>1. RankFiles(r) /\ pc[r] = b /\ pc'[r] = AfterBarrier(b, r)
      BY <1>1 DEF FileInv
    <2>2. UNCHANGED <<memoryVars, diskVars>>
      BY <1>1
    <2>3. CASE b = "b1"
      BY <2>1, <2>2, <2>3, WorldAssumption
         DEF RankFiles, AfterBarrier, Kinds, Making, Writing, Registering, Announcing
    <2>4. CASE b = "b2"
      BY <2>1, <2>2, <2>4
         DEF RankFiles, AfterBarrier, Making, Writing, Registering, Announcing
    <2>5. CASE b = "b3"
      BY <2>1, <2>2, <2>5
         DEF RankFiles, AfterBarrier, Making, Writing, Registering, Announcing
    <2>6. CASE b = "b4"
      BY <2>1, <2>2, <2>6
         DEF RankFiles, AfterBarrier, Making, Writing, Registering, Announcing
    <2>7. QED
      BY <2>3, <2>4, <2>5, <2>6 DEF Barriers
  <1>6. SavedInv'
    BY <1>1, RankZero, SamePhase, WorldAssumption, StepsAssumption
       DEF SavedInv, StepInv, TypeOK, Saving, Making, Writing, Registering,
           Announcing, AfterBarrier, All, Barriers
  <1>7. DataInv'
    BY <1>1, RankZero, SamePhase, WorldAssumption, StepsAssumption
       DEF DataInv, StepInv, TypeOK, Saving, Steps, Torn, Absent, Making,
           Writing, Registering, Announcing, AfterBarrier, All, Barriers
  <1>8. EndInv'
    BY <1>1, RankZero, SamePhase, WorldAssumption, StepsAssumption
       DEF EndInv, StepInv, TypeOK, Saving, Making, Writing, Registering,
           Announcing, AfterBarrier, All, Barriers
  <1>9. TrackedIsWhole'
    BY <1>1, RankZero, SamePhase, WorldAssumption, StepsAssumption
       DEF TrackedIsWhole, Whole, StepInv, TypeOK, Saving, Making, Writing,
           Registering, Announcing, AfterBarrier, All, Barriers
  <1>10. RankZeroInStep'
    BY <1>1, RankZero, SamePhase, WorldAssumption, StepsAssumption
       DEF RankZeroInStep, DataInv, TypeOK, Steps, Making, Writing,
           Registering, Announcing, AfterBarrier, All, Barriers
  <1>11. QED
    BY <1>2, <1>3, <1>4, <1>5, <1>6, <1>7, <1>8, <1>9, <1>10

\* A crash tears only what is being written or removed.
LEMMA CrashStep ==
    ASSUME Supported, StoreInv, Crash
    PROVE  StoreInv'
  <1> USE DEF StoreInv
  <1>1. pc' = [r \in Ranks |-> "down"] /\ pc'[0] = "down"
    BY RankZero, SamePhase DEF Crash
  <1>2. /\ UNCHANGED <<memoryVars, dirs>>
        /\ tracker' \in {tracker, Torn}
    BY DEF Crash
  <1>3. /\ shard' \in [Steps -> [Kinds -> [Ranks -> Torn..MaxLaunches]]]
        /\ data' \in [Steps -> [Ranks -> Torn..EpochSteps]]
        /\ \A s \in Steps, r \in Ranks : data'[s][r] <= s
        /\ tracker \in Steps =>
             /\ data'[tracker][0] = data[tracker][0]
             /\ \A k \in Kinds, r \in Ranks :
                  shard'[tracker][k][r] = shard[tracker][k][r]
    BY CrashKeeps
  <1>4. TypeOK'
    <2>1. pc' \in [Ranks -> PCs]
      BY <1>1, RankZero, SamePhase, WorldAssumption, StepsAssumption,
         PolicyAssumption, <1>2
         DEF TypeOK, PCs, Barriers
    <2>2. tracker' \in Torn..EpochSteps
      BY <1>1, RankZero, SamePhase, WorldAssumption, StepsAssumption,
         PolicyAssumption, <1>2
         DEF TypeOK, Torn
    <2>3. QED
      BY <2>1, <2>2, <1>2, <1>3 DEF TypeOK, Torn
  <1>5. PhaseInv'
    BY <1>1, RankZero, SamePhase, WorldAssumption, StepsAssumption, <1>2
       DEF PhaseInv, TypeOK, All, AllIn, Making, Writing, Registering,
           Announcing
  <1>6. StepInv'
    BY <1>1, RankZero, SamePhase, WorldAssumption, StepsAssumption, <1>2
       DEF StepInv, TypeOK, Saving, Torn, Absent, Steps, Making, Writing,
           Registering, Announcing
  <1>7. FileInv'
    BY <1>1, RankZero, SamePhase, WorldAssumption, StepsAssumption, <1>2
       DEF FileInv, RankFiles, StepInv, TypeOK, Kinds, Saving, Making,
           Writing, Registering, Announcing
  <1>8. SavedInv'
    BY <1>1, RankZero, SamePhase, WorldAssumption, StepsAssumption, <1>2
       DEF SavedInv, StepInv, TypeOK, Saving, Making, Writing, Registering,
           Announcing
  <1>9. DataInv'
    BY <1>1, RankZero, SamePhase, WorldAssumption, StepsAssumption, <1>2, <1>3
       DEF DataInv, StepInv, TypeOK, Saving, Steps, Torn, Absent, Making,
           Writing, Registering, Announcing, Rotated
  <1>10. EndInv'
    BY <1>1, RankZero, SamePhase, WorldAssumption, StepsAssumption, <1>2
       DEF EndInv, StepInv, TypeOK, Saving, Making, Writing, Registering,
           Announcing
  <1>11. TrackedIsWhole'
    <2>1. CASE tracker' = tracker /\ tracker > 0
      <3>1. tracker \in Steps
        BY <2>1 DEF TypeOK, Steps, Torn
      <3>2. tracker' \in dirs'
        BY <1>2, <2>1 DEF TrackedIsWhole
      <3>3. QED
        BY <1>3, <2>1, <3>1, <3>2, TrackedKept
    <2>2. CASE ~(tracker' > 0)
      BY <2>2 DEF TrackedIsWhole
    <2>3. tracker' = tracker \/ ~(tracker' > 0)
      BY <1>2 DEF Torn
    <2>4. QED
      BY <2>1, <2>2, <2>3
  <1>12. RankZeroInStep'
    BY <1>1, RankZero, SamePhase, WorldAssumption, StepsAssumption, <1>2
       DEF RankZeroInStep, DataInv, TypeOK, Steps, Making, Writing,
           Registering, Announcing
  <1>13. QED
    BY <1>4, <1>5, <1>6, <1>7, <1>8, <1>9, <1>10, <1>11, <1>12

\* Nothing has been written when the job has never been launched.
LEMMA InitialInv ==
    Init => StoreInv
  <1> SUFFICES ASSUME Init PROVE StoreInv
    OBVIOUS
  <1>1. /\ \A r \in Ranks : pc[r] = "down" /\ file[r] = 1 /\ loader[r] = 0
        /\ pc[0] = "down" /\ tracker = 0 /\ step = 0
    BY RankZero DEF Init, Absent
  <1>2. /\ NoShards \in [Kinds -> [Ranks -> Torn..MaxLaunches]]
        /\ NoData \in [Ranks -> Torn..EpochSteps]
        /\ \A r \in Ranks : NoData[r] = 0
    BY StepsAssumption, PolicyAssumption DEF NoShards, NoData, Absent, Torn
  <1>3. TypeOK
    <2>1. /\ pc \in [Ranks -> PCs]
          /\ file \in [Ranks -> 1..(Files + 1)]
          /\ loader \in [Ranks -> 0..EpochSteps]
      BY WorldAssumption, StepsAssumption DEF Init, PCs
    <2>2. /\ step \in 0..EpochSteps /\ resumed \in 0..EpochSteps
          /\ saved \in Seq(Steps)
          /\ launch \in 0..MaxLaunches
          /\ dirs \subseteq Steps
          /\ tracker \in Torn..EpochSteps
      BY StepsAssumption, PolicyAssumption DEF Init, Absent, Torn
    <2>3. /\ shard \in [Steps -> [Kinds -> [Ranks -> Torn..MaxLaunches]]]
          /\ data \in [Steps -> [Ranks -> Torn..EpochSteps]]
      BY <1>2 DEF Init
    <2>4. QED
      BY <2>1, <2>2, <2>3 DEF TypeOK
  <1>4. PhaseInv /\ StepInv /\ FileInv /\ SavedInv /\ EndInv
    BY <1>1 DEF PhaseInv, All, StepInv, Saving, Making, Writing, Registering,
                Announcing, FileInv, RankFiles, SavedInv, EndInv
  <1>5. DataInv
    <2>1. \A s \in Steps, r \in Ranks : data[s][r] <= s
      BY <1>2, StepsAssumption DEF Init, Steps
    <2>2. QED
      BY <1>1, <2>1 DEF DataInv
  <1>6. TrackedIsWhole /\ RankZeroInStep
    BY <1>1 DEF TrackedIsWhole, RankZeroInStep
  <1>7. QED
    BY <1>3, <1>4, <1>5, <1>6 DEF StoreInv

\* The invariant holds on when nothing it speaks of changes.
LEMMA StutterStep ==
    ASSUME StoreInv, UNCHANGED vars
    PROVE  StoreInv'
  BY DEF StoreInv, vars, memoryVars, diskVars, TypeOK, PhaseInv, StepInv,
         FileInv, RankFiles, SavedInv, DataInv, EndInv, TrackedIsWhole, Whole,
         RankZeroInStep, All, AllIn

\* Every step of the system keeps the invariant.
LEMMA NextInv ==
    ASSUME Supported, StoreInv, [Next]_vars
    PROVE  StoreInv'
  <1>1. CASE LaunchNext
    BY <1>1, LaunchFreshStep, LaunchResumeStep, LaunchFailsStep DEF LaunchNext
  <1>2. CASE JobNext
    <2>1. CASE Train \/ NothingToTrain
      BY <2>1, TrainStep, NothingToTrainStep
    <2>2. CASE RankZeroNext
      BY <2>2, MakeRoomStep, RegisterStep, WriteTrackerStep DEF RankZeroNext
    <2>3. ASSUME NEW r \in Ranks, RankNext(r) PROVE StoreInv'
      BY <2>3, MakeDirStep, WriteShardStep, WriteDataStep DEF RankNext
    <2>4. ASSUME NEW b \in Barriers, Barrier(b) PROVE StoreInv'
      BY <2>4, BarrierStep
    <2>5. QED
      BY <1>2, <2>1, <2>2, <2>3, <2>4 DEF JobNext
  <1>3. CASE Crash
    BY <1>3, CrashStep
  <1>4. CASE Over
    BY <1>4, StutterStep DEF Over
  <1>5. CASE UNCHANGED vars
    BY <1>5, StutterStep
  <1>6. QED
    BY <1>1, <1>2, <1>3, <1>4, <1>5 DEF Next

-----------------------------------------------------------------------------
(* The theorems.                                                            *)

\* The invariant holds in every state the job and its directory get into,
\* whatever the number of ranks, files, steps, launches and crashes, as long
\* as the settings are Supported ones.
THEOREM StoreSafety ==
    ASSUME Supported
    PROVE  Spec => []StoreInv
  <1>1. Init => StoreInv
    BY InitialInv
  <1>2. StoreInv /\ [Next]_vars => StoreInv'
    BY NextInv
  <1>3. QED
    BY <1>1, <1>2, PTL DEF Spec

\* Every variable keeps its type.
THEOREM StoreTypeCorrect ==
    ASSUME Supported
    PROVE  Spec => []TypeOK
  <1>1. StoreInv => TypeOK
    BY DEF StoreInv
  <1>2. QED
    BY <1>1, StoreSafety, PTL

\* What the tracker file names is in its directory, with every shard of every
\* rank, none torn and all of one launch, at every moment of every history of
\* crashes and launches.
THEOREM TrackedCheckpointWhole ==
    ASSUME Supported
    PROVE  Spec => []TrackedIsWhole
  <1>1. StoreInv => TrackedIsWhole
    BY DEF StoreInv
  <1>2. QED
    BY <1>1, StoreSafety, PTL

\* Rank 0's dataloader never leaves its step, however often the job was
\* crashed and resumed.
THEOREM RankZeroDataInStep ==
    ASSUME Supported
    PROVE  Spec => []RankZeroInStep
  <1>1. StoreInv => RankZeroInStep
    BY DEF StoreInv
  <1>2. QED
    BY <1>1, StoreSafety, PTL

\* A job that is through has announced its last step, and it is whole.
THEOREM FinalCheckpointStays ==
    ASSUME Supported
    PROVE  Spec => []FinalCheckpoint
  <1>1. StoreInv => FinalCheckpoint
    <2> SUFFICES ASSUME StoreInv, All("done") PROVE
                   LatestStep >= TotalSteps /\ Whole(LatestStep)
      BY DEF FinalCheckpoint
    <2>1. pc[0] = "done"
      BY RankZero DEF All
    <2>2. tracker >= TotalSteps /\ tracker \in Int /\ TotalSteps >= 1
      BY <2>1, StepsAssumption DEF StoreInv, EndInv, TypeOK, Torn
    <2>3. tracker \in dirs /\ Whole(tracker)
      BY <2>2, StepsAssumption DEF StoreInv, TrackedIsWhole
    <2>4. QED
      BY <2>2, <2>3 DEF LatestStep
  <1>2. QED
    BY <1>1, StoreSafety, PTL

\* What wakes a job that is down is a launch, from scratch or resumed.
LEMMA OnlyLaunchWakes ==
    ASSUME StoreInv, [Next]_vars, All("down"), ~All("down")'
    PROVE  \E mode \in Modes : LaunchFresh(mode) \/ LaunchResume(mode)
  <1>1. pc[0] = "down" /\ \A r \in Ranks : pc[r] = "down"
    BY RankZero DEF All
  <1>2. pc' # pc
    BY DEF All
  <1>3. ~LaunchNext => ~Next
    <2>1. ~Train /\ ~NothingToTrain
      BY <1>1, RankZero DEF Train, NothingToTrain, All
    <2>2. ~RankZeroNext
      BY <1>1 DEF RankZeroNext, MakeRoom, Register, WriteTracker
    <2>3. \A r \in Ranks : ~RankNext(r)
      BY <1>1 DEF RankNext, MakeDir, WriteShard, WriteData
    <2>4. \A b \in Barriers : ~Barrier(b)
      BY <1>1 DEF Barrier, Reached, All, Barriers
    <2>5. ~Crash
      BY <1>1 DEF Crash, Running
    <2>6. ~Over
      BY <1>2 DEF Over, vars
    <2>7. QED
      BY <2>1, <2>2, <2>3, <2>4, <2>5, <2>6 DEF Next, JobNext
  <1>4. LaunchNext
    BY <1>2, <1>3 DEF vars
  <1>5. \A mode \in Modes : ~LaunchFails(mode)
    BY <1>2 DEF LaunchFails
  <1>6. QED
    BY <1>4, <1>5 DEF LaunchNext

\* A launch that wakes the job resumes from the tracked step, if there is one.
LEMMA LaunchResumesTracked ==
    ASSUME Supported, StoreInv, NEW mode \in Modes,
           LaunchFresh(mode) \/ LaunchResume(mode)
    PROVE  \/ step' = 0 /\ tracker = 0
           \/ /\ step' = tracker /\ tracker \in Steps
              /\ tracker \in dirs /\ Whole(tracker)
  <1>1. TypeOK /\ TrackedIsWhole /\ mode = "auto"
    BY DEF StoreInv, Supported
  <1>2. CASE LaunchFresh(mode)
    BY <1>1, <1>2, StepsAssumption
       DEF LaunchFresh, LatestStep, TrackedIsWhole, TypeOK, Torn, Steps
  <1>3. CASE LaunchResume(mode)
    <2>1. step' = LatestStep /\ LatestStep # 0
      BY <1>3 DEF LaunchResume
    <2>2. tracker \in dirs /\ LatestStep = tracker
      BY <2>1 DEF LatestStep
    <2>3. tracker \in Steps /\ tracker > 0
      BY <1>1, <2>2 DEF TypeOK, Steps
    <2>4. QED
      BY <1>1, <2>1, <2>2, <2>3 DEF TrackedIsWhole
  <1>4. QED
    BY <1>2, <1>3

\* No launch resumes from the files of two saves.
THEOREM EveryResumeOneSave ==
    ASSUME Supported
    PROVE  Spec => ResumesOneSave
  <1>1. StoreInv /\ [Next]_vars =>
          [All("down") /\ ~All("down")' /\ step' # 0 => Whole(step')]_vars
    <2> SUFFICES ASSUME StoreInv, [Next]_vars, All("down"), ~All("down")',
                        step' # 0
                 PROVE  Whole(step')
      OBVIOUS
    <2>1. PICK mode \in Modes : LaunchFresh(mode) \/ LaunchResume(mode)
      BY OnlyLaunchWakes
    <2>2. step' = tracker /\ Whole(tracker)
      BY <2>1, LaunchResumesTracked
    <2>3. QED
      BY <2>2
  <1>2. QED
    BY <1>1, StoreSafety, PTL DEF Spec, ResumesOneSave

\* No launch in auto mode loses what has been announced.
THEOREM AnnouncedNeverLost ==
    ASSUME Supported
    PROVE  Spec => NeverStartsOver
  <1>1. StoreInv /\ [Next]_vars =>
          [All("down") /\ ~All("down")' /\ tracker # Absent => step' # 0]_vars
    <2> SUFFICES ASSUME StoreInv, [Next]_vars, All("down"), ~All("down")',
                        tracker # Absent
                 PROVE  step' # 0
      OBVIOUS
    <2>1. PICK mode \in Modes : LaunchFresh(mode) \/ LaunchResume(mode)
      BY OnlyLaunchWakes
    <2>2. QED
      BY <2>1, LaunchResumesTracked, StepsAssumption DEF Absent, Steps
  <1>2. QED
    BY <1>1, StoreSafety, PTL DEF Spec, NeverStartsOver

-----------------------------------------------------------------------------
(* What the rotation keeps, and what a crash costs.                         *)

\* A rotation keeps every listed step that it does not drop, the last one among
\* them, and lists none that it drops.
LEMMA RetainLists ==
    ASSUME NEW paths \in Seq(Steps), NEW n \in Nat,
           \A i, j \in 1..Len(paths) : i < j => paths[i] < paths[j],
           Retain(paths, n)
    PROVE  /\ saved' \in Seq(Steps) /\ Len(saved') <= n
           /\ dirs' = dirs \ Dropped(paths, n)
           /\ \A i \in 1..Len(saved') :
                /\ saved'[i] \notin Dropped(paths, n)
                /\ \E j \in 1..Len(paths) : saved'[i] = paths[j]
           /\ \A j \in 1..Len(paths) :
                paths[j] \notin Dropped(paths, n) =>
                  \E i \in 1..Len(saved') : saved'[i] = paths[j]
           /\ n > 0 /\ Len(paths) > 0 =>
                \E i \in 1..Len(saved') : saved'[i] = paths[Len(paths)]
  <1>1. saved' = Kept(paths, n) /\ dirs' = dirs \ Dropped(paths, n)
    BY DEF Retain, Remove
  <1>2. saved' \in Seq(Steps)
    BY <1>1, KeptProperties
  <1>3. PICK off \in Nat :
            /\ Len(saved') + off = Len(paths)
            /\ \A i \in 1..Len(saved') : saved'[i] = paths[i + off]
    BY <1>1, KeptProperties
  <1>4. Len(saved') \in Nat /\ Len(paths) \in Nat
    BY <1>2, LenProperties
  <1>5. IF Len(paths) > n THEN off = Len(paths) - n ELSE off = 0
    <2>1. CASE Len(paths) > n
      <3> DEFINE m == Len(paths) - n + 1
      <3>1. saved' = SubSeq(paths, m, Len(paths))
        BY <1>1, <2>1 DEF Kept
      <3>2. m \in 1..(Len(paths) + 1) /\ Len(paths) - m + 1 = n
        BY <1>4, <2>1
      <3>3. \A i \in m..Len(paths) : paths[i] \in Steps
        BY <3>2, <1>4, ElementOfSeq
      <3> HIDE DEF m
      <3>4. Len(SubSeq(paths, m, Len(paths))) =
                IF m <= Len(paths) THEN Len(paths) - m + 1 ELSE 0
        BY <3>2, <3>3, <1>4, SubSeqProperties
      <3>5. Len(saved') = n
        BY <3>1, <3>2, <3>4, <1>4
      <3>6. QED
        BY <3>5, <1>3, <1>4, <2>1
    <2>2. CASE ~(Len(paths) > n)
      BY <2>2, <1>1, <1>3, <1>4 DEF Kept
    <2>3. QED
      BY <2>1, <2>2
  <1>6. Len(saved') <= n
    BY <1>3, <1>4, <1>5
  <1>7. \A j \in 1..Len(paths) :
           paths[j] \in Dropped(paths, n) <=> j <= Len(paths) - n
    <2> SUFFICES ASSUME NEW j \in 1..Len(paths)
                 PROVE  paths[j] \in Dropped(paths, n) <=> j <= Len(paths) - n
      OBVIOUS
    <2>1. ASSUME j <= Len(paths) - n PROVE paths[j] \in Dropped(paths, n)
      BY <1>4, <2>1 DEF Dropped
    <2>2. ASSUME paths[j] \in Dropped(paths, n) PROVE j <= Len(paths) - n
      <3>1. PICK i \in 1..(Len(paths) - n) : paths[j] = paths[i]
        BY <2>2 DEF Dropped
      <3>2. i \in 1..Len(paths)
        BY <1>4
      <3>3. ~(i < j)
        <4> SUFFICES ASSUME i < j PROVE FALSE
          OBVIOUS
        <4>1. paths[i] < paths[j] /\ paths[i] \in Steps
          BY <3>2, ElementOfSeq
        <4>2. paths[i] \in Int
          BY <4>1 DEF Steps
        <4>3. QED
          BY <3>1, <4>1, <4>2
      <3>4. QED
        BY <3>2, <3>3, <1>4
    <2>3. QED
      BY <2>1, <2>2
  <1>8. ASSUME NEW i \in 1..Len(saved')
        PROVE  /\ saved'[i] \notin Dropped(paths, n)
               /\ \E j \in 1..Len(paths) : saved'[i] = paths[j]
    <2>1. i + off \in 1..Len(paths) /\ ~(i + off <= Len(paths) - n)
      BY <1>3, <1>4, <1>5
    <2>2. QED
      BY <2>1, <1>3, <1>7
  <1>9. ASSUME NEW j \in 1..Len(paths), ~(j <= Len(paths) - n)
        PROVE  \E i \in 1..Len(saved') : saved'[i] = paths[j]
    <2>1. j - off \in 1..Len(saved') /\ (j - off) + off = j
      BY <1>3, <1>4, <1>5, <1>9
    <2>2. saved'[j - off] = paths[j]
      BY <2>1, <1>3
    <2>3. QED
      BY <2>1, <2>2
  <1>10. ASSUME n > 0, Len(paths) > 0
         PROVE  \E i \in 1..Len(saved') : saved'[i] = paths[Len(paths)]
    <2>1. Len(paths) \in 1..Len(paths) /\ ~(Len(paths) <= Len(paths) - n)
      BY <1>4, <1>10
    <2>2. QED
      BY <2>1, <1>9
  <1>11. QED
    BY <1>1, <1>2, <1>6, <1>7, <1>8, <1>9, <1>10

\* The values the invariants compare.
LEMMA KeepTypes ==
    ASSUME StoreInv
    PROVE  /\ pc[0] \in PCs /\ pc \in [Ranks -> PCs]
           /\ step \in Nat /\ resumed \in Nat /\ tracker \in Int
           /\ dirs \subseteq Int /\ dirs \subseteq Steps
           /\ saved \in Seq(Steps) /\ Len(saved) \in Nat
           /\ \A i \in 1..Len(saved) : saved[i] \in Steps /\ saved[i] \in Int
  <1>1. TypeOK
    BY DEF StoreInv
  <1>2. step \in Nat /\ resumed \in Nat /\ tracker \in Int
    BY <1>1, StepsAssumption DEF TypeOK, Torn
  <1>3. saved \in Seq(Steps) /\ Len(saved) \in Nat
    BY <1>1, LenProperties DEF TypeOK
  <1>4. \A i \in 1..Len(saved) : saved[i] \in Steps
    BY <1>3, ElementOfSeq
  <1>5. Steps \subseteq Int
    BY DEF Steps
  <1>6. QED
    BY <1>1, <1>2, <1>3, <1>4, <1>5, RankZero DEF TypeOK

\* While a step is being saved and not announced, no directory but its own is
\* ahead of the tracker.
LEMMA AheadIsStep ==
    ASSUME StoreInv, NextSaveInv, pc[0] \in Saving \ {"b4"},
           NEW d \in dirs, d > tracker
    PROVE  d = step
  <1>1. /\ step > tracker /\ tracker # Torn /\ pc[0] # "down"
    BY DEF StoreInv, StepInv, Saving, Making, Writing, Registering, Announcing
  <1>2. /\ IsSaveStep(d) /\ NoSaveBetween(tracker, d)
        /\ IsSaveStep(step) /\ NoSaveBetween(tracker, step)
    BY <1>1 DEF NextSaveInv
  <1>3. d \in Int /\ step \in Int /\ tracker \in Int
    BY KeepTypes
  <1>4. ~(d < step)
    <2> SUFFICES ASSUME d < step PROVE FALSE
      OBVIOUS
    <2>1. d \in (tracker + 1)..(step - 1)
      BY <1>3
    <2>2. QED
      BY <2>1, <1>2 DEF NoSaveBetween
  <1>5. ~(step < d)
    <2> SUFFICES ASSUME step < d PROVE FALSE
      OBVIOUS
    <2>1. step \in (tracker + 1)..(d - 1)
      BY <1>1, <1>3
    <2>2. QED
      BY <2>1, <1>2 DEF NoSaveBetween
  <1>6. QED
    BY <1>3, <1>4, <1>5

\* A launch starts from the tracked step, with an empty list.
LEMMA LaunchKeeps ==
    ASSUME Supported, StoreInv, NextSaveInv, RotationInv, LaunchNext
    PROVE  NextSaveInv' /\ RotationInv'
  <1>1. PICK mode \in Modes :
           LaunchFresh(mode) \/ LaunchResume(mode) \/ LaunchFails(mode)
    BY DEF LaunchNext
  <1>2. /\ dirs' = dirs /\ tracker' = tracker /\ saved' = <<>>
        /\ tracker \in Int /\ dirs \subseteq Int
    BY <1>1, KeepTypes DEF LaunchFresh, LaunchResume, LaunchFails, BeginLaunch
  <1>3. CASE LaunchFails(mode)
    <2>1. pc'[0] = "down"
      BY <1>3, RankZero DEF LaunchFails, BeginLaunch, All
    <2>2. QED
      BY <1>2, <2>1 DEF NextSaveInv, RotationInv, Saving, Making, Writing,
                        Registering, Announcing
  <1>4. CASE LaunchFresh(mode) \/ LaunchResume(mode)
    <2>1. pc'[0] = "train" /\ resumed' = step'
      BY <1>4, RankZero DEF LaunchFresh, LaunchResume
    <2>2. step' = tracker
      BY <1>4, LaunchResumesTracked
    <2>3. NoSaveBetween(tracker, tracker)
      BY <1>2 DEF NoSaveBetween
    <2>4. NextSaveInv'
      BY <1>2, <2>1, <2>2, <2>3 DEF NextSaveInv, Saving, Making, Writing,
                                    Registering, Announcing
    <2>5. Len(<<>>) = 0 /\ MaxKeep \in Nat
      BY PolicyAssumption
    <2>6. RotationInv'
      BY <1>2, <2>1, <2>2, <2>5 DEF RotationInv, Making, Writing, Announcing
    <2>7. QED
      BY <2>4, <2>6
  <1>5. QED
    BY <1>1, <1>3, <1>4

\* Training passes no save step without saving.
LEMMA TrainKeeps ==
    ASSUME Supported, StoreInv, NextSaveInv, RotationInv, Train \/ NothingToTrain
    PROVE  NextSaveInv' /\ RotationInv'
  <1>1. /\ pc[0] = "train" /\ dirs' = dirs /\ tracker' = tracker
        /\ saved' = saved /\ resumed' = resumed
    BY RankZero DEF Train, NothingToTrain, All
  <1>2. /\ step \in Nat /\ tracker \in Int /\ tracker # Torn
        /\ NoSaveBetween(tracker, step) /\ (step = tracker \/ ~IsSaveStep(step))
    BY <1>1, KeepTypes DEF NextSaveInv, StoreInv, StepInv
  <1>3. CASE Train
    <2>1. /\ step' = step + 1
          /\ pc'[0] = IF IsSaveStep(step + 1) THEN "room" ELSE "train"
      BY <1>1, <1>3, RankZero DEF Train
    <2>2. NoSaveBetween(tracker, step + 1)
      <3> SUFFICES ASSUME NEW x \in (tracker + 1)..((step + 1) - 1)
                   PROVE  ~IsSaveStep(x)
        BY DEF NoSaveBetween
      <3>1. x = step \/ x \in (tracker + 1)..(step - 1)
        BY <1>2
      <3>2. x # tracker
        BY <1>2
      <3>3. QED
        BY <1>2, <3>1, <3>2 DEF NoSaveBetween
    <2>3. NextSaveInv'
      BY <1>1, <2>1, <2>2 DEF NextSaveInv, Saving, Making, Writing, Registering,
                              Announcing
    <2>4. RotationInv'
      BY <1>1, <2>1 DEF RotationInv, Listed, Making, Writing, Announcing
    <2>5. QED
      BY <2>3, <2>4
  <1>4. CASE NothingToTrain
    <2>1. pc'[0] = "done" /\ step' = step
      BY <1>1, <1>4, RankZero DEF NothingToTrain
    <2>2. NextSaveInv'
      BY <1>1, <1>2, <2>1 DEF NextSaveInv, Saving, Making, Writing, Registering,
                              Announcing
    <2>3. RotationInv'
      BY <1>1, <2>1 DEF RotationInv, Listed, Making, Writing, Announcing
    <2>4. QED
      BY <2>2, <2>3
  <1>5. QED
    BY <1>3, <1>4

\* A rank that makes its directory makes that of the step being saved.
LEMMA MakeDirKeeps ==
    ASSUME Supported, StoreInv, NextSaveInv, RotationInv, NEW r \in Ranks, MakeDir(r)
    PROVE  NextSaveInv' /\ RotationInv'
  <1>1. pc[r] = "mkdir" /\ pc[0] \in Making
    BY SamePhase DEF MakeDir, StoreInv, Making
  <1>2. /\ dirs' = dirs \cup {step} /\ step' = step /\ tracker' = tracker
        /\ saved' = saved /\ resumed' = resumed
    BY DEF MakeDir
  <1>3. pc'[0] = pc[0] \/ (pc[0] = "mkdir" /\ pc'[0] = "b1")
    BY <1>1, RankZero, KeepTypes DEF MakeDir, Goto
  <1>4. /\ IsSaveStep(step) /\ NoSaveBetween(tracker, step) /\ step > tracker
    BY <1>1 DEF NextSaveInv, StoreInv, StepInv, Saving, Making, Announcing
  <1>5. pc'[0] \in Making
    BY <1>1, <1>3 DEF Making
  <1>6. NextSaveInv'
    BY <1>1, <1>2, <1>4, <1>5 DEF NextSaveInv, Saving, Making
  <1>7. RotationInv'
    BY <1>1, <1>2, <1>3, <1>4 DEF RotationInv, Listed, Making, Writing, Announcing
  <1>8. QED
    BY <1>6, <1>7

\* Files written into a directory that is there change neither invariant.
LEMMA WriteKeeps ==
    ASSUME Supported, StoreInv, NextSaveInv, RotationInv, NEW r \in Ranks,
           WriteShard(r) \/ WriteData(r)
    PROVE  NextSaveInv' /\ RotationInv'
  <1>1. /\ step' = step /\ tracker' = tracker
        /\ saved' = saved /\ resumed' = resumed
    BY DEF WriteShard, WriteData
  <1>2. dirs' = dirs
    <2>1. pc[r] \in {"shard", "data"} => step \in dirs
      BY DEF StoreInv, FileInv, RankFiles, Writing, Announcing
    <2>2. QED
      BY <2>1 DEF WriteShard, WriteData
  <1>3. \/ pc'[0] = pc[0]
        \/ pc[0] = "shard" /\ pc'[0] \in {"shard", "b2"}
        \/ pc[0] = "data" /\ pc'[0] = "tracker"
    BY RankZero, KeepTypes DEF WriteShard, WriteData, Goto
  <1>4. NextSaveInv'
    BY <1>1, <1>2, <1>3 DEF NextSaveInv, Saving, Making, Writing, Registering,
                            Announcing
  <1>5. RotationInv'
    BY <1>1, <1>2, <1>3 DEF RotationInv, Listed, Making, Writing, Announcing
  <1>6. QED
    BY <1>4, <1>5

\* Once announced, the saved step is behind no directory.
LEMMA WriteTrackerKeeps ==
    ASSUME Supported, StoreInv, NextSaveInv, RotationInv, WriteTracker
    PROVE  NextSaveInv' /\ RotationInv'
  <1>1. /\ pc[0] = "tracker" /\ pc'[0] = "b4"
        /\ step' = step /\ tracker' = step /\ dirs' = dirs
        /\ saved' = saved /\ resumed' = resumed
    BY RankZero, KeepTypes DEF WriteTracker, Goto
  <1>2. step > tracker /\ step \in Int /\ tracker \in Int /\ dirs \subseteq Int
    BY <1>1, KeepTypes DEF StoreInv, StepInv, Saving, Announcing
  <1>3. \A d \in dirs : d > tracker => d = step
    BY <1>1, AheadIsStep DEF Saving, Announcing
  <1>4. \A d \in dirs : ~(d > step)
    BY <1>2, <1>3
  <1>5. NoSaveBetween(step, step)
    BY <1>2 DEF NoSaveBetween
  <1>6. IsSaveStep(step)
    BY <1>1 DEF NextSaveInv, Saving, Announcing
  <1>7. NextSaveInv'
    BY <1>1, <1>4, <1>5, <1>6 DEF NextSaveInv
  <1>8. RotationInv'
    BY <1>1, <1>3, <1>4 DEF RotationInv, Listed, Making, Writing, Announcing
  <1>9. QED
    BY <1>7, <1>8

\* Making room drops listed directories and takes them off the list.
LEMMA MakeRoomKeeps ==
    ASSUME Supported, StoreInv, NextSaveInv, RotationInv, MakeRoom
    PROVE  NextSaveInv' /\ RotationInv'
  <1>1. /\ pc[0] = "room" /\ pc'[0] = "mkdir"
        /\ step' = step /\ tracker' = tracker /\ resumed' = resumed
    BY RankZero, KeepTypes DEF MakeRoom, Goto
  <1>2. CASE ~(MaxKeep > 1)
    <2>1. dirs' = dirs
      BY <1>2 DEF MakeRoom
    <2>2. NextSaveInv'
      BY <1>1, <2>1 DEF NextSaveInv, Saving, Making
    <2>3. QED
      BY <1>2, <2>2 DEF RotationInv
  <1>3. CASE MaxKeep > 1
    <2> DEFINE n == MaxKeep - 1
    <2>1. Retain(saved, n) /\ n \in Nat
      BY <1>3, PolicyAssumption DEF MakeRoom
    <2>2. saved \in Seq(Steps)
      BY KeepTypes
    <2>3. \A i, j \in 1..Len(saved) : i < j => saved[i] < saved[j]
      BY <1>1 DEF StoreInv, SavedInv
    <2> HIDE DEF n
    <2>4. /\ saved' \in Seq(Steps) /\ Len(saved') <= n
          /\ dirs' = dirs \ Dropped(saved, n)
          /\ \A i \in 1..Len(saved') :
               /\ saved'[i] \notin Dropped(saved, n)
               /\ \E j \in 1..Len(saved) : saved'[i] = saved[j]
          /\ \A j \in 1..Len(saved) :
               saved[j] \notin Dropped(saved, n) =>
                 \E i \in 1..Len(saved') : saved'[i] = saved[j]
      BY <2>1, <2>2, <2>3, RetainLists
    <2>5. Len(saved') \in Nat /\ MaxKeep \in Nat
      BY <2>4, LenProperties, PolicyAssumption
    <2>6. Len(saved') < MaxKeep
      BY <2>4, <2>5 DEF n
    <2>7. NextSaveInv'
      BY <1>1, <2>4 DEF NextSaveInv, Saving, Making
    <2>8. \A i \in 1..Len(saved') : saved'[i] \in dirs'
      BY <1>1, <1>3, <2>4 DEF RotationInv
    <2>9. \A d \in dirs' : d > resumed =>
             (\E i \in 1..Len(saved') : saved'[i] = d) \/ d > tracker
      <3> SUFFICES ASSUME NEW d \in dirs', d > resumed, ~(d > tracker)
                   PROVE  \E i \in 1..Len(saved') : saved'[i] = d
        OBVIOUS
      <3>1. d \in dirs /\ d \notin Dropped(saved, n)
        BY <2>4
      <3>2. PICK j \in 1..Len(saved) : saved[j] = d
        BY <1>1, <1>3, <3>1 DEF RotationInv, Listed
      <3>3. QED
        BY <2>4, <3>1, <3>2
    <2>10. RotationInv'
      BY <1>1, <2>5, <2>6, <2>8, <2>9 DEF RotationInv, Listed, Announcing
    <2>11. QED
      BY <2>7, <2>10
  <1>4. QED
    BY <1>2, <1>3

\* Registering lists the new step and drops no other than the oldest.
LEMMA RegisterKeeps ==
    ASSUME Supported, StoreInv, NextSaveInv, RotationInv, Register
    PROVE  NextSaveInv' /\ RotationInv'
  <1>1. /\ pc[0] = "register" /\ pc'[0] = "b3"
        /\ step' = step /\ tracker' = tracker /\ resumed' = resumed
    BY RankZero, KeepTypes DEF Register, Goto
  <1>2. CASE ~(MaxKeep > 0)
    <2>1. dirs' = dirs /\ ~(MaxKeep > 1)
      BY <1>2, PolicyAssumption DEF Register
    <2>2. NextSaveInv'
      BY <1>1, <2>1 DEF NextSaveInv, Saving, Registering
    <2>3. QED
      BY <2>1, <2>2 DEF RotationInv
  <1>3. CASE MaxKeep > 0
    <2> DEFINE paths == Append(saved, step)
    <2>1. Retain(paths, MaxKeep) /\ MaxKeep \in Nat /\ MaxKeep > 1
      BY <1>3, PolicyAssumption DEF Register, Supported
    <2>2. saved \in Seq(Steps) /\ Len(saved) \in Nat
      BY KeepTypes
    <2> HIDE DEF paths
    <2>3. /\ paths \in Seq(Steps) /\ Len(paths) = Len(saved) + 1
          /\ \A i, j \in 1..Len(paths) : i < j => paths[i] < paths[j]
      BY <1>1, RegisterList DEF paths
    <2>4. /\ \A i \in 1..Len(saved) : paths[i] = saved[i]
          /\ paths[Len(paths)] = step
      BY <2>2, <2>3 DEF paths
    <2>5. \A j \in 1..Len(paths) : j \in 1..Len(saved) \/ j = Len(paths)
      BY <2>2, <2>3
    <2>6. /\ saved' \in Seq(Steps) /\ Len(saved') <= MaxKeep
          /\ dirs' = dirs \ Dropped(paths, MaxKeep)
          /\ \A i \in 1..Len(saved') :
               /\ saved'[i] \notin Dropped(paths, MaxKeep)
               /\ \E j \in 1..Len(paths) : saved'[i] = paths[j]
          /\ \A j \in 1..Len(paths) :
               paths[j] \notin Dropped(paths, MaxKeep) =>
                 \E i \in 1..Len(saved') : saved'[i] = paths[j]
          /\ MaxKeep > 0 /\ Len(paths) > 0 =>
               \E i \in 1..Len(saved') : saved'[i] = paths[Len(paths)]
      BY <2>1, <2>3, RetainLists
    <2>7. \E i \in 1..Len(saved') : saved'[i] = step
      <3>1. Len(paths) > 0
        BY <2>2, <2>3
      <3>2. QED
        BY <3>1, <1>3, <2>4, <2>6
    <2>8. step \in dirs
      BY <1>1, RankZero DEF StoreInv, FileInv, RankFiles, Registering
    <2>9. NextSaveInv'
      BY <1>1, <2>6 DEF NextSaveInv, Saving, Registering
    <2>10. \A i \in 1..Len(saved') : saved'[i] \in dirs'
      <3>1. \A j \in 1..Len(paths) : paths[j] \in dirs
        BY <1>1, <2>1, <2>4, <2>5, <2>8 DEF RotationInv
      <3>2. QED
        BY <2>6, <3>1
    <2>11. \A d \in dirs' : d > resumed =>
             (\E i \in 1..Len(saved') : saved'[i] = d) \/ d > tracker
      <3> SUFFICES ASSUME NEW d \in dirs', d > resumed, ~(d > tracker)
                   PROVE  \E i \in 1..Len(saved') : saved'[i] = d
        OBVIOUS
      <3>1. d \in dirs /\ d \notin Dropped(paths, MaxKeep)
        BY <2>6
      <3>2. PICK j \in 1..Len(saved) : saved[j] = d
        BY <1>1, <2>1, <3>1 DEF RotationInv, Listed
      <3>3. j \in 1..Len(paths) /\ paths[j] = d
        BY <2>2, <2>3, <2>4, <3>2
      <3>4. QED
        BY <2>6, <3>1, <3>3
    <2>12. RotationInv'
      BY <1>1, <2>6, <2>7, <2>10, <2>11
         DEF RotationInv, Listed, Making, Writing, Announcing
    <2>13. QED
      BY <2>9, <2>12
  <1>4. QED
    BY <1>2, <1>3

\* No barrier goes back before the announcement.
LEMMA BarrierKeeps ==
    ASSUME Supported, StoreInv, NextSaveInv, RotationInv, NEW b \in Barriers, Barrier(b)
    PROVE  NextSaveInv' /\ RotationInv'
  <1>1. /\ step' = step /\ tracker' = tracker /\ resumed' = resumed
        /\ dirs' = dirs /\ saved' = saved
    BY DEF Barrier
  <1>2. /\ pc[0] = b
        /\ \/ b = "b1" /\ pc'[0] = "shard"
           \/ b = "b2" /\ pc'[0] = "register"
           \/ b = "b3" /\ pc'[0] = "data"
           \/ b = "b4" /\ pc'[0] \in {"train", "done"}
    BY RankZero DEF Barrier, Reached, All, AfterBarrier, Barriers
  <1>3. pc[0] = "b4" => tracker = step
    BY DEF StoreInv, EndInv
  <1>4. NextSaveInv'
    BY <1>1, <1>2, <1>3 DEF NextSaveInv, Saving, Making, Writing, Registering,
                            Announcing
  <1>5. RotationInv'
    BY <1>1, <1>2 DEF RotationInv, Listed, Making, Writing, Announcing
  <1>6. QED
    BY <1>4, <1>5

\* A crash removes nothing but files.
LEMMA CrashLeaves ==
    ASSUME Supported, StoreInv, NextSaveInv, RotationInv, Crash
    PROVE  NextSaveInv' /\ RotationInv'
  <1>1. pc'[0] = "down" /\ dirs' = dirs /\ tracker' \in {tracker, Torn}
    BY RankZero DEF Crash
  <1>2. NextSaveInv'
    BY <1>1 DEF NextSaveInv, Saving, Making, Writing, Registering, Announcing
  <1>3. RotationInv'
    BY <1>1 DEF RotationInv
  <1>4. QED
    BY <1>2, <1>3

\* Every step keeps both invariants.
LEMMA NextKeeps ==
    ASSUME Supported, KeepInv, [Next]_vars
    PROVE  KeepInv'
  <1>1. StoreInv /\ NextSaveInv /\ RotationInv
    BY DEF KeepInv
  <1>2. StoreInv'
    BY <1>1, NextInv
  <1>3. ASSUME NEW r \in Ranks, RankNext(r) PROVE NextSaveInv' /\ RotationInv'
    BY <1>1, <1>3, MakeDirKeeps, WriteKeeps DEF RankNext
  <1>4. ASSUME NEW b \in Barriers, Barrier(b) PROVE NextSaveInv' /\ RotationInv'
    BY <1>1, <1>4, BarrierKeeps
  <1>5. NextSaveInv' /\ RotationInv'
    <2>1. CASE LaunchNext
      BY <1>1, <2>1, LaunchKeeps
    <2>2. CASE Train \/ NothingToTrain
      BY <1>1, <2>2, TrainKeeps
    <2>3. CASE RankZeroNext
      <3>1. CASE MakeRoom
        BY <1>1, <3>1, MakeRoomKeeps
      <3>2. CASE Register
        BY <1>1, <3>2, RegisterKeeps
      <3>3. CASE WriteTracker
        BY <1>1, <3>3, WriteTrackerKeeps
      <3>4. QED
        BY <2>3, <3>1, <3>2, <3>3 DEF RankZeroNext
    <2>4. CASE Crash
      BY <1>1, <2>4, CrashLeaves
    <2>5. CASE UNCHANGED vars
      <3>1. /\ pc' = pc /\ dirs' = dirs /\ tracker' = tracker /\ step' = step
            /\ saved' = saved /\ resumed' = resumed
        BY <2>5 DEF vars
      <3>2. NextSaveInv'
        BY <1>1, <3>1 DEF NextSaveInv
      <3>3. RotationInv'
        BY <1>1, <3>1 DEF RotationInv, Listed
      <3>4. QED
        BY <3>2, <3>3
    <2>6. QED
      BY <1>3, <1>4, <2>1, <2>2, <2>3, <2>4, <2>5 DEF Next, JobNext, Over
  <1>6. QED
    BY <1>2, <1>5 DEF KeepInv

\* Nothing is on disk at first.
LEMMA InitialKeep == Init => KeepInv
  <1> SUFFICES ASSUME Init PROVE KeepInv
    OBVIOUS
  <1>1. StoreInv
    BY InitialInv
  <1>2. pc[0] = "down" /\ dirs = {}
    BY RankZero DEF Init
  <1>3. NextSaveInv /\ RotationInv
    BY <1>2 DEF NextSaveInv, RotationInv, Saving, Making, Writing, Registering,
                Announcing
  <1>4. QED
    BY <1>1, <1>3 DEF KeepInv

\* Both hold throughout.
THEOREM KeepSafety ==
    ASSUME Supported
    PROVE  Spec => []KeepInv
  <1>1. Init => KeepInv
    BY InitialKeep
  <1>2. KeepInv /\ [Next]_vars => KeepInv'
    BY NextKeeps
  <1>3. QED
    BY <1>1, <1>2, PTL DEF Spec

\* The steps rank 0 lists are no more than the list is long.
LEMMA ListedCount ==
    ASSUME NEW list \in Seq(Steps)
    PROVE  LET L == {list[i] : i \in 1..Len(list)}
           IN IsFiniteSet(L) /\ Cardinality(L) <= Len(list) /\ Cardinality(L) \in Nat
  <1> DEFINE L == {list[i] : i \in 1..Len(list)}
             f == [i \in 1..Len(list) |-> list[i]]
  <1>1. Len(list) \in Nat
    BY LenProperties
  <1>2. f \in Surjection(1..Len(list), L)
    BY DEF Surjection
  <1>3. IsFiniteSet(1..Len(list)) /\ Cardinality(1..Len(list)) = Len(list)
    BY <1>1, FS_Interval
  <1> HIDE DEF L, f
  <1>4. IsFiniteSet(L) /\ Cardinality(L) <= Cardinality(1..Len(list))
    BY <1>2, <1>3, FS_Surjection
  <1>5. Cardinality(L) \in Nat
    BY <1>4, FS_CardinalityType
  <1>6. QED
    BY <1>3, <1>4, <1>5 DEF L

\* Two directories ahead of the tracker are one.
LEMMA OneAhead ==
    ASSUME StoreInv, NextSaveInv, tracker # Torn,
           NEW d \in dirs, NEW e \in dirs, d > tracker, e > tracker
    PROVE  d = e
  <1>1. tracker \in Int /\ d \in Int /\ e \in Int
    BY KeepTypes
  <1>2. /\ IsSaveStep(d) /\ NoSaveBetween(tracker, d)
        /\ IsSaveStep(e) /\ NoSaveBetween(tracker, e)
    BY DEF NextSaveInv
  <1>3. ~(d < e)
    <2> SUFFICES ASSUME d < e PROVE FALSE
      OBVIOUS
    <2>1. d \in (tracker + 1)..(e - 1)
      BY <1>1
    <2>2. QED
      BY <2>1, <1>2 DEF NoSaveBetween
  <1>4. ~(e < d)
    <2> SUFFICES ASSUME e < d PROVE FALSE
      OBVIOUS
    <2>1. e \in (tracker + 1)..(d - 1)
      BY <1>1
    <2>2. QED
      BY <2>1, <1>2 DEF NoSaveBetween
  <1>5. QED
    BY <1>1, <1>3, <1>4

\* What this launch has on disk stays within max_ckpt_to_keep, whatever a crash
\* has left and whoever makes the next directory first, and no listed
\* checkpoint is missing.
THEOREM RotationIsBounded ==
    ASSUME Supported
    PROVE  Spec => []RotationBound
  <1>1. KeepInv => RotationBound
    <2> SUFFICES ASSUME KeepInv, MaxKeep > 1, Running, pc[0] # "room"
                 PROVE  /\ Cardinality({s \in dirs : s > resumed}) <= MaxKeep
                        /\ \A i \in 1..Len(saved) : saved[i] \in dirs
      BY DEF RotationBound
    <2> DEFINE A == {s \in dirs : s > resumed}
               L == {saved[i] : i \in 1..Len(saved)}
    <2>1. StoreInv /\ NextSaveInv /\ RotationInv
      BY DEF KeepInv
    <2>2. pc[0] \in PCs /\ pc[0] # "down" /\ pc[0] # "done"
      BY <2>1, KeepTypes, SamePhase DEF Running, StoreInv
    <2>3. /\ saved \in Seq(Steps) /\ tracker # Torn /\ MaxKeep \in Nat
          /\ Len(saved) \in Nat
      BY <2>1, <2>2, KeepTypes, PolicyAssumption DEF StoreInv, StepInv
    <2>4. /\ \A i \in 1..Len(saved) : saved[i] \in dirs
          /\ \A d \in A : d \in L \/ d > tracker
          /\ Len(saved) <= MaxKeep
      BY <2>1, <2>2 DEF RotationInv, Listed
    <2>5. IsFiniteSet(L) /\ Cardinality(L) <= Len(saved) /\ Cardinality(L) \in Nat
      BY <2>3, ListedCount
    <2>6. ASSUME A \subseteq L PROVE Cardinality(A) <= MaxKeep
      <3> HIDE DEF A, L
      <3>1. Cardinality(A) <= Cardinality(L) /\ Cardinality(A) \in Nat
        BY <2>5, <2>6, FS_Subset, FS_CardinalityType
      <3>2. QED
        BY <2>3, <2>4, <2>5, <3>1
    <2>7. \A z : A \subseteq L \cup {z} /\ Len(saved) < MaxKeep
                  => Cardinality(A) <= MaxKeep
      <3> HIDE DEF A, L
      <3> SUFFICES ASSUME NEW z, A \subseteq L \cup {z}, Len(saved) < MaxKeep
                   PROVE  Cardinality(A) <= MaxKeep
        OBVIOUS
      <3>0. /\ IsFiniteSet(L \cup {z})
            /\ Cardinality(L \cup {z}) =
                 IF z \in L THEN Cardinality(L) ELSE Cardinality(L) + 1
        BY <2>5, FS_AddElement
      <3>1. IsFiniteSet(L \cup {z}) /\ Cardinality(L \cup {z}) <= Cardinality(L) + 1
        BY <2>5, <3>0
      <3>2. /\ Cardinality(A) <= Cardinality(L \cup {z}) /\ Cardinality(A) \in Nat
            /\ Cardinality(L \cup {z}) \in Nat
        BY <3>1, FS_Subset, FS_CardinalityType
      <3>3. QED
        BY <2>3, <2>5, <3>1, <3>2
    <2>8. ASSUME pc[0] \in {"train", "b4"} PROVE Cardinality(A) <= MaxKeep
      <3>1. CASE \E d \in dirs : d > tracker
        <4>1. PICK z \in dirs : z > tracker
          BY <3>1
        <4>2. saved = <<>>
          BY <2>1, <2>8, <3>1 DEF RotationInv
        <4>3. Len(saved) = 0 /\ L = {}
          BY <4>2
        <4>4. \A d \in A : d = z
          BY <2>1, <2>3, <2>4, <4>1, <4>3, OneAhead
        <4>5. A \subseteq L \cup {z}
          BY <4>4
        <4>6. Len(saved) < MaxKeep
          BY <2>3, <4>3
        <4> HIDE DEF A, L
        <4>7. QED
          BY <2>7, <4>5, <4>6
      <3>2. CASE ~\E d \in dirs : d > tracker
        <4>1. A \subseteq L
          BY <2>4, <3>2
        <4>2. QED
          BY <2>6, <4>1
      <3>3. QED
        BY <3>1, <3>2
    <2>9. ASSUME pc[0] \in Saving \ {"b4"} PROVE A \subseteq L \cup {step}
      <3>1. \A d \in dirs : d > tracker => d = step
        BY <2>1, <2>9, AheadIsStep
      <3>2. QED
        BY <2>4, <3>1
    <2>10. ASSUME pc[0] \in (Making \ {"room"}) \cup Writing \cup {"register"}
           PROVE  Cardinality(A) <= MaxKeep
      <3>1. A \subseteq L \cup {step}
        BY <2>9, <2>10 DEF Saving, Making, Writing, Registering
      <3>2. Len(saved) < MaxKeep
        BY <2>1, <2>10 DEF RotationInv, Making, Writing
      <3>3. QED
        BY <2>7, <3>1, <3>2
    <2>11. ASSUME pc[0] \in {"b3", "data", "tracker"}
           PROVE  Cardinality(A) <= MaxKeep
      <3>1. A \subseteq L \cup {step}
        BY <2>9, <2>11 DEF Saving, Registering, Announcing
      <3>2. step \in L
        BY <2>1, <2>11 DEF RotationInv, Listed, Announcing
      <3>3. A \subseteq L
        BY <3>1, <3>2
      <3>4. QED
        BY <2>6, <3>3
    <2>12. \/ pc[0] \in {"train", "b4"}
           \/ pc[0] \in (Making \ {"room"}) \cup Writing \cup {"register"}
           \/ pc[0] \in {"b3", "data", "tracker"}
      BY <2>2 DEF PCs, Barriers, Making, Writing
    <2>13. QED
      BY <2>4, <2>8, <2>10, <2>11, <2>12
  <1>2. QED
    BY <1>1, KeepSafety, PTL

\* Among as many numbers in a row as the save frequency there is a multiple.
LEMMA MultipleAhead ==
    ASSUME NEW a \in Nat, NEW k \in Nat \ {0}
    PROVE  \E x \in (a + 1)..(a + k) : x % k = 0
  <1> DEFINE x == a - (a % k) + k
  <1>1. a % k \in 0..(k - 1)
    OBVIOUS
  <1>2. x \in (a + 1)..(a + k)
    BY <1>1
  <1>3. x % k = 0
    OBVIOUS
  <1>4. QED
    BY <1>2, <1>3

\* A crash costs no more than the work since the last save step.
THEOREM LossIsBounded ==
    ASSUME Supported
    PROVE  Spec => []BoundedLoss
  <1>1. KeepInv => BoundedLoss
    <2> SUFFICES ASSUME KeepInv, Running, SaveFreq > 0
                 PROVE  step - LatestStep <= SaveFreq
      BY DEF BoundedLoss
    <2>1. StoreInv /\ NextSaveInv
      BY DEF KeepInv
    <2>2. pc[0] # "down"
      BY <2>1, SamePhase DEF Running, StoreInv
    <2>3. tracker \in Nat /\ step \in Nat /\ NoSaveBetween(tracker, step)
      BY <2>1, <2>2, StepsAssumption
         DEF NextSaveInv, StoreInv, StepInv, TypeOK, Torn
    <2>4. LatestStep = tracker
      BY <2>1, <2>3 DEF LatestStep, StoreInv, TrackedIsWhole
    <2>5. SaveFreq \in Nat \ {0}
      BY StepsAssumption
    <2>6. PICK x \in (tracker + 1)..(tracker + SaveFreq) : x % SaveFreq = 0
      BY <2>3, <2>5, MultipleAhead
    <2>7. IsSaveStep(x)
      BY <2>5, <2>6 DEF IsSaveStep
    <2>8. ~(x \in (tracker + 1)..(step - 1))
      BY <2>3, <2>7 DEF NoSaveBetween
    <2>9. QED
      BY <2>3, <2>4, <2>5, <2>6, <2>8
  <1>2. QED
    BY <1>1, KeepSafety, PTL

-----------------------------------------------------------------------------
(* Refinement of CheckpointStore.                                           *)

\* The abstract variables read off the tracker file and rank 0 alone.
Durable == IF tracker > 0 THEN tracker ELSE 0
Alive == pc[0] \notin {"down", "done"}

\* The job runs as long as rank 0 does, and what the tracker names is there.
LEMMA Mapping ==
    ASSUME StoreInv
    PROVE  LatestStep = Durable /\ (Running <=> Alive)
  <1>1. LatestStep = Durable
    BY StepsAssumption
       DEF StoreInv, LatestStep, Durable, TrackedIsWhole, TypeOK, Steps, Torn
  <1>2. Running <=> Alive
    BY RankZero DEF StoreInv, Running, Alive, PhaseInv, All, AllIn, Making,
                    Writing, Registering, Announcing
  <1>3. QED
    BY <1>1, <1>2

\* The same of the state after a step.
LEMMA MappingAfter ==
    ASSUME StoreInv'
    PROVE  LatestStep' = Durable' /\ (Running' <=> Alive')
  <1>1. LatestStep' = Durable'
    BY StepsAssumption
       DEF StoreInv, LatestStep, Durable, TrackedIsWhole, TypeOK, Steps, Torn
  <1>2. Running' <=> Alive'
    BY RankZero DEF StoreInv, Running, Alive, PhaseInv, All, AllIn, Making,
                    Writing, Registering, Announcing
  <1>3. QED
    BY <1>1, <1>2

\* A step that leaves the tracker, the training step and rank 0's being alive
\* as they are is invisible.
LEMMA InvisibleStep ==
    ASSUME StoreInv, StoreInv', tracker' = tracker, step' = step,
           Alive' <=> Alive
    PROVE  UNCHANGED Store!vars
  BY Mapping, MappingAfter DEF Durable, Store!vars

\* A step that ends the job and leaves the tracker alone is a Stop.
LEMMA EndingStep ==
    ASSUME StoreInv, StoreInv', tracker' = tracker, Alive, ~Alive'
    PROVE  Store!Stop
  <1>1. step # -1
    BY StepsAssumption DEF StoreInv, TypeOK
  <1>2. QED
    BY <1>1, Mapping, MappingAfter DEF Durable, Store!Stop, Store!Down

\* Every step of a save, a launch or a crash is a step of the store or
\* invisible in it.
LEMMA StepsRefine ==
    ASSUME Supported, AtomicRename, StoreInv, StoreInv', [Next]_vars
    PROVE  [Store!Next]_(Store!vars)
  <1> USE DEF Store!Next
  <1>1. TypeOK /\ step \in 0..EpochSteps /\ tracker \in Int
    BY StepsAssumption DEF StoreInv, TypeOK, Torn
  <1>2. CASE LaunchNext
    <2>1. PICK mode \in Modes :
            LaunchFresh(mode) \/ LaunchResume(mode) \/ LaunchFails(mode)
      BY <1>2 DEF LaunchNext
    <2>2. tracker' = tracker /\ ~Alive
      BY <2>1, RankZero DEF LaunchFresh, LaunchResume, LaunchFails,
                            BeginLaunch, All, Alive, diskVars
    <2>3. CASE LaunchFails(mode)
      BY <2>2, <2>3, InvisibleStep DEF LaunchFails, Alive
    <2>4. CASE LaunchFresh(mode) \/ LaunchResume(mode)
      <3>1. Alive'
        BY <2>4, RankZero DEF LaunchFresh, LaunchResume, Alive
      <3>2. step' = Durable
        BY <2>4, LaunchResumesTracked DEF Durable, Steps
      <3>3. Store!Launch
        BY <2>2, <3>1, <3>2, Mapping, MappingAfter
           DEF Durable, Store!Launch, Store!Down
      <3>4. QED
        BY <3>3
    <2>5. QED
      BY <2>1, <2>3, <2>4
  <1>3. CASE Train
    <2>1. /\ tracker' = tracker /\ step' = step + 1 /\ step < EpochSteps
          /\ Alive /\ Alive'
      BY <1>3, RankZero DEF Train, All, Alive, diskVars
    <2>2. Store!Advance
      BY <1>1, <2>1, StepsAssumption, Mapping, MappingAfter
         DEF Durable, Store!Advance
    <2>3. QED
      BY <2>2
  <1>4. CASE NothingToTrain
    BY <1>4, RankZero, EndingStep
       DEF NothingToTrain, All, Alive, diskVars
  <1>5. CASE MakeRoom \/ Register
    <2>1. pc[0] \in {"room", "register"} /\ pc'[0] \in {"mkdir", "b3"}
      BY <1>1, <1>5, RankZero DEF MakeRoom, Register, Goto, TypeOK
    <2>2. QED
      BY <1>5, <2>1, InvisibleStep DEF MakeRoom, Register, Alive
  <1>6. CASE WriteTracker
    <2>1. pc[0] = "tracker" /\ pc'[0] = "b4" /\ tracker' = step /\ step' = step
      BY <1>1, <1>6, RankZero DEF WriteTracker, Goto, TypeOK, memoryVars
    <2>2. step > tracker /\ step >= 1
      BY <2>1 DEF StoreInv, StepInv, Saving, Announcing
    <2>3. Store!Commit
      BY <1>1, <2>1, <2>2, Mapping, MappingAfter
         DEF Durable, Alive, Store!Commit
    <2>4. QED
      BY <2>3
  <1>7. ASSUME NEW r \in Ranks, RankNext(r) PROVE [Store!Next]_(Store!vars)
    <2>1. tracker' = tracker /\ step' = step
      BY <1>7 DEF RankNext, MakeDir, WriteShard, WriteData, memoryVars
    <2>2. Alive' <=> Alive
      BY <1>1, <1>7, RankZero
         DEF RankNext, MakeDir, WriteShard, WriteData, Goto, Alive, TypeOK
    <2>3. QED
      BY <2>1, <2>2, InvisibleStep
  <1>8. ASSUME NEW b \in Barriers, Barrier(b) PROVE [Store!Next]_(Store!vars)
    <2>1. tracker' = tracker /\ step' = step
      BY <1>8 DEF Barrier, memoryVars, diskVars
    <2>2. Alive
      BY <1>8, RankZero DEF Barrier, Reached, All, Barriers, Alive
    <2>3. QED
      BY <2>1, <2>2, InvisibleStep, EndingStep
  <1>9. CASE Crash
    <2>1. tracker' = tracker /\ step' = step /\ Alive /\ ~Alive'
      BY <1>9, RankZero, Mapping DEF Crash, Alive, memoryVars
    <2>2. QED
      BY <2>1, EndingStep
  <1>10. CASE Over \/ UNCHANGED vars
    BY <1>10, InvisibleStep DEF Over, Alive, vars, memoryVars, diskVars
  <1>11. QED
    BY <1>2, <1>3, <1>4, <1>5, <1>6, <1>7, <1>8, <1>9, <1>10
       DEF Next, JobNext, RankZeroNext

\* Where renames are atomic, saving, crashing and resuming look like a store
\* that is replaced in one instant and that every launch goes on from.
THEOREM ImplementsStore ==
    ASSUME Supported, AtomicRename
    PROVE  Spec => StoreSpec
  <1>1. Init => Store!Init
    <2> SUFFICES ASSUME Init PROVE Store!Init
      OBVIOUS
    <2>1. ~Running /\ LatestStep = 0
      BY DEF Init, Running, LatestStep
    <2>2. QED
      BY <2>1 DEF Store!Init, Store!Down
  <1>2. StoreInv /\ StoreInv' /\ [Next]_vars => [Store!Next]_(Store!vars)
    BY StepsRefine
  <1>3. QED
    BY <1>1, <1>2, StoreSafety, PTL DEF Spec, StoreSpec, Store!Spec
=============================================================================
