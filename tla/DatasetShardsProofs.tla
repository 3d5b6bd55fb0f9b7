------------------------ MODULE DatasetShardsProofs ------------------------
(***************************************************************************)
(* EveryObjectKept is violated when launches find different listings, as a *)
(* run of TLC shows.  With one and the same listing it holds, for every    *)
(* number of objects, chunk size and pool, whatever is killed or fails:    *)
(* a shard that can be read then holds what its chunk gives, and a shard   *)
(* once written is never written again.                                    *)
(***************************************************************************)
EXTENDS DatasetShards, TLAPS

\* The listing L is the only one; there are names for all its chunks; and a
\* set of objects is no marker.
OneListing(L) ==
    /\ Listings = {L}
    /\ chunk_size \in Nat \ {0}
    /\ NumShards \in Nat
    /\ \E n \in Nat : DOMAIN L = 1..n
    /\ \A i \in DOMAIN L : ChunkOf(i) \in ShardNames
    /\ Idle \notin ShardNames
    /\ \A X \in SUBSET {L[i] : i \in DOMAIN L} : Readable(X)
    /\ ~Readable(Absent) /\ ~Readable(Torn)

\* A chunk is settled when its shard holds its samples, if it has any.
Settled(c) == Samples(c) = {} \/ shard[c] = Samples(c)

AtWork(c) == \E w \in Workers : task[w] = c

Types(L) ==
    /\ listing = L
    /\ shard \in [ShardNames -> {Absent, Torn} \cup {Samples(c) : c \in ShardNames}]
    /\ next_chunk \in Nat
    /\ task \in [Workers -> ShardNames \cup {Idle}]
    /\ pc \in {"stopped", "convert", "split", "done"}

ShardsOfChunks ==
    \A c \in ShardNames : Readable(shard[c]) => shard[c] = Samples(c)

TakenInOrder == \A w \in Workers : task[w] # Idle => task[w] < next_chunk

IdleOutside == pc # "convert" => task = AllIdle

ConvertedSettled ==
    pc = "convert" =>
        \A c \in ShardNames : c < next_chunk /\ c \notin failed =>
            AtWork(c) \/ Settled(c)

AllSettled ==
    pc \in {"split", "done"} =>
        \A i \in DOMAIN listing : ChunkOf(i) \notin failed => Settled(ChunkOf(i))

\* A training file is written when there are two objects, and shards do not
\* go away.
TrainOfTwo ==
    Readable(train) => \E x, y \in InShards : x # y

\* What makes EveryObjectKept inductive.
KeptInv(L) ==
    /\ Types(L)
    /\ ShardsOfChunks
    /\ TakenInOrder
    /\ IdleOutside
    /\ ConvertedSettled
    /\ AllSettled
    /\ TrainOfTwo
    /\ EveryObjectKept

\* Chunks are numbered without gaps: an object's chunk is below the first
\* number that is no chunk's.
LEMMA NoGaps ==
    ASSUME NEW L, OneListing(L), NEW i \in DOMAIN L,
           NEW k \in Nat, k <= ChunkOf(i)
    PROVE  \E j \in DOMAIN L : ChunkOf(j) = k
<1>1. PICK n \in Nat : DOMAIN L = 1..n
  BY DEF OneListing
<1>2. chunk_size \in Nat /\ chunk_size > 0 /\ i \in Nat /\ i >= 1 /\ i <= n
  BY <1>1 DEF OneListing
<1> DEFINE p == i - 1
           q == p \div chunk_size
           j == k * chunk_size + 1
<1>3. p \in Nat /\ q \in Nat /\ chunk_size * q <= p /\ k <= q
  BY <1>2 DEF ChunkOf
<1>4. k * chunk_size \in Nat /\ k * chunk_size <= q * chunk_size
  BY <1>2, <1>3
<1>5. j \in 1..n
  BY <1>2, <1>3, <1>4
<1>6. (k * chunk_size) \div chunk_size = k
  BY <1>2, <1>3
<1>7. ChunkOf(j) = k
  BY <1>2, <1>4, <1>6 DEF ChunkOf
<1> QED
  BY <1>1, <1>5, <1>7

\* A chunk's samples are a set of objects, so a shard that holds them can be
\* read.
LEMMA SamplesReadable ==
    ASSUME NEW L, OneListing(L), listing = L, NEW c
    PROVE  Readable(Samples(c))
<1>1. Samples(c) \in SUBSET {L[i] : i \in DOMAIN L}
  BY DEF Samples, chunk
<1> QED
  BY <1>1 DEF OneListing

\* With no shard on disk and nothing started the invariant holds.
LEMMA KeptInit ==
    ASSUME NEW L, OneListing(L), Init
    PROVE  KeptInv(L)
<1>1. listing = L
  BY DEF Init, OneListing
<1>2. Types(L)
  BY <1>1 DEF Init, Types, AllIdle
<1>3. ~Readable(Absent)
  BY DEF OneListing
<1>4. ShardsOfChunks /\ TakenInOrder /\ IdleOutside /\ ConvertedSettled /\ AllSettled
  BY <1>3 DEF Init, ShardsOfChunks, TakenInOrder, IdleOutside, ConvertedSettled, AllSettled, AllIdle
<1>5. TrainOfTwo /\ EveryObjectKept
  BY <1>3 DEF Init, TrainOfTwo, EveryObjectKept
<1> QED
  BY <1>2, <1>4, <1>5 DEF KeptInv

\* What no step but a launch changes, and no launch with one listing either.
LEMMA SameListing ==
    ASSUME NEW L, OneListing(L), listing = L, [Next]_vars
    PROVE  /\ listing' = L
           /\ \A c : Samples(c)' = Samples(c)
           /\ \A c : IsChunk(c)' = IsChunk(c)
<1>1. listing' = L
  BY DEF OneListing, Next, vars, Launch, Take, Resume, Convert, WriteFails, Finish,
         Collect, Split, Kill
<1> QED
  BY <1>1 DEF Samples, chunk, IsChunk

\* A shard that can be read is never written again.
LEMMA ReadableStay ==
    ASSUME NEW L, OneListing(L), Types(L), [Next]_vars, NEW c \in ShardNames,
           Readable(shard[c])
    PROVE  shard'[c] = shard[c]
<1>1. CASE \E w \in Workers : Convert(w)
  <2>1. PICK w \in Workers : Convert(w)
    BY <1>1
  <2>2. CASE task[w] = c
    BY <2>1, <2>2 DEF Convert
  <2>3. CASE task[w] # c
    BY <2>1, <2>3 DEF Convert, Types
  <2> QED
    BY <2>2, <2>3
<1>2. CASE \E w \in Workers : WriteFails(w)
  <2>1. PICK w \in Workers : WriteFails(w)
    BY <1>2
  <2>2. PICK left : shard' = [shard EXCEPT ![task[w]] = left]
    BY <2>1 DEF WriteFails
  <2>3. task[w] # c
    BY <2>1 DEF WriteFails
  <2> QED
    BY <2>2, <2>3 DEF Types
<1>3. CASE Kill
  BY <1>3 DEF Kill
<1>4. CASE UNCHANGED shard
  BY <1>4
<1> QED
  BY <1>1, <1>2, <1>3, <1>4
  DEF Next, vars, Launch, Take, Resume, Finish, Collect, Split

\* What a step leaves in a shard it writes.
LEMMA ShardsNext ==
    ASSUME NEW L, OneListing(L), Types(L), ShardsOfChunks, [Next]_vars
    PROVE  /\ shard' \in [ShardNames -> {Absent, Torn} \cup {Samples(c) : c \in ShardNames}]
           /\ \A c \in ShardNames : Readable(shard'[c]) => shard'[c] = Samples(c)
<1> DEFINE Contents == {Absent, Torn} \cup {Samples(c) : c \in ShardNames}
<1>0. ~Readable(Absent) /\ ~Readable(Torn)
  BY DEF OneListing
<1>1. CASE \E w \in Workers : Convert(w)
  <2>1. PICK w \in Workers : Convert(w)
    BY <1>1
  <2>2. task[w] \in ShardNames
    BY <2>1 DEF Convert, Finish, Types
  <2>3. \/ shard' = shard
        \/ shard' = [shard EXCEPT ![task[w]] = Samples(task[w])]
    BY <2>1 DEF Convert
  <2> QED
    BY <2>2, <2>3 DEF Types, ShardsOfChunks
<1>2. CASE \E w \in Workers : WriteFails(w)
  <2>1. PICK w \in Workers : WriteFails(w)
    BY <1>2
  <2>2. task[w] \in ShardNames
    BY <2>1 DEF WriteFails, Finish, Types
  <2>3. PICK left \in {shard[task[w]], Torn, Absent} :
            shard' = [shard EXCEPT ![task[w]] = left]
    BY <2>1 DEF WriteFails
  <2> QED
    BY <1>0, <2>2, <2>3 DEF Types, ShardsOfChunks
<1>3. CASE Kill
  <2>1. PICK open : shard' = [c \in ShardNames |->
               IF c \in open /\ ~Readable(shard[c]) /\ Samples(c) # {}
               THEN Torn ELSE shard[c]]
    BY <1>3 DEF Kill
  <2> QED
    BY <1>0, <2>1 DEF Types, ShardsOfChunks
<1>4. CASE UNCHANGED shard
  BY <1>4 DEF Types, ShardsOfChunks
<1> QED
  BY <1>1, <1>2, <1>3, <1>4
  DEF Next, vars, Launch, Take, Resume, Finish, Collect, Split

\* What is settled stays settled.
LEMMA SettledStay ==
    ASSUME NEW L, OneListing(L), Types(L), [Next]_vars, NEW c \in ShardNames,
           Settled(c)
    PROVE  Settled(c)'
<1>1. Samples(c)' = Samples(c) /\ Readable(Samples(c))
  BY SameListing, SamplesReadable DEF Types
<1>2. CASE Samples(c) = {}
  BY <1>1, <1>2 DEF Settled
<1>3. CASE shard[c] = Samples(c)
  BY <1>1, <1>3, ReadableStay DEF Settled
<1> QED
  BY <1>2, <1>3 DEF Settled

\* No step leaves the types: a shard is absent, torn or what a chunk gives.
LEMMA TypesNext ==
    ASSUME NEW L, OneListing(L), KeptInv(L), [Next]_vars
    PROVE  Types(L)' /\ ShardsOfChunks' /\ TakenInOrder'
<1>0. Types(L) /\ ShardsOfChunks /\ TakenInOrder
  BY DEF KeptInv
<1>1. listing' = L /\ \A c : Samples(c)' = Samples(c)
  BY <1>0, SameListing DEF Types
<1>2. /\ shard' \in [ShardNames -> {Absent, Torn} \cup {Samples(c)' : c \in ShardNames}]
      /\ ShardsOfChunks'
  BY <1>0, <1>1, ShardsNext DEF ShardsOfChunks, Readable
<1>3. /\ next_chunk' \in Nat
      /\ task' \in [Workers -> ShardNames \cup {Idle}]
      /\ pc' \in {"stopped", "convert", "split", "done"}
      /\ TakenInOrder'
  <2>1. CASE Launch
    <3>1. task = AllIdle
      BY <2>1 DEF Launch, KeptInv, IdleOutside
    <3> QED
      BY <2>1, <3>1, <1>0 DEF Launch, Types, TakenInOrder, AllIdle
  <2>2. CASE \E w \in Workers : Take(w)
    <3>1. PICK w \in Workers : Take(w)
      BY <2>2
    <3>2. next_chunk \in ShardNames
      BY <3>1 DEF Take, IsChunk
    <3>3. /\ task' = [task EXCEPT ![w] = next_chunk]
          /\ next_chunk' = next_chunk + 1 /\ pc' = pc
      BY <3>1 DEF Take
    <3>4. ASSUME NEW v \in Workers, task'[v] # Idle
          PROVE  task'[v] < next_chunk'
      <4>1. CASE v = w
        BY <4>1, <3>3, <1>0 DEF Types
      <4>2. CASE v # w
        <5>1. task'[v] = task[v] /\ task[v] \in ShardNames
          BY <4>2, <3>3, <3>4, <1>0 DEF Types
        <5>2. task[v] \in Nat
          BY <5>1 DEF ShardNames, OneListing
        <5>3. task[v] < next_chunk /\ next_chunk \in Nat
          BY <5>1, <3>4, <1>0 DEF Types, TakenInOrder
        <5> QED
          BY <5>1, <5>2, <5>3, <3>3
      <4> QED
        BY <4>1, <4>2
    <3> QED
      BY <3>2, <3>3, <3>4, <1>0 DEF Types, TakenInOrder
  <2>3. CASE \E w \in Workers : Finish(w)
    <3>1. PICK w \in Workers : Finish(w)
      BY <2>3
    <3> QED
      BY <3>1, <1>0 DEF Finish, Types, TakenInOrder
  <2>4. CASE Kill
    BY <2>4, <1>0 DEF Kill, Types, TakenInOrder, AllIdle
  <2>5. CASE Collect \/ (\E t \in SUBSET InShards : Split(t)) \/ UNCHANGED vars
    BY <2>5, <1>0 DEF Collect, Split, vars, Types, TakenInOrder
  <2> QED
    BY <2>1, <2>2, <2>3, <2>4, <2>5 DEF Next, Resume, Convert, WriteFails
<1> QED
  BY <1>1, <1>2, <1>3 DEF Types

\* Workers hold a chunk only while a launch converts.
LEMMA IdleNext ==
    ASSUME NEW L, KeptInv(L), [Next]_vars
    PROVE  IdleOutside'
<1>1. IdleOutside
  BY DEF KeptInv
<1> QED
  BY <1>1 DEF IdleOutside, PoolDone, AllIdle, Next, vars, Launch, Take, Resume, Convert,
             WriteFails, Finish, Collect, Split, Kill

\* A process that leaves its chunk has settled it, or it has failed.
LEMMA ConvertedNext ==
    ASSUME NEW L, OneListing(L), KeptInv(L), [Next]_vars
    PROVE  ConvertedSettled'
<1>0. Types(L) /\ ShardsOfChunks /\ TakenInOrder /\ ConvertedSettled
  BY DEF KeptInv
<1>1. listing' = L /\ \A c : Samples(c)' = Samples(c)
  BY <1>0, SameListing DEF Types
<1> SUFFICES ASSUME pc' = "convert", NEW c \in ShardNames,
                    c < next_chunk', c \notin failed', ~AtWork(c)'
             PROVE  Settled(c)'
  BY DEF ConvertedSettled
<1>2. c \in Nat /\ next_chunk \in Nat
  BY <1>0 DEF ShardNames, OneListing, Types
<1>3. CASE Launch
  BY <1>2, <1>3 DEF Launch
<1>4. CASE \E w \in Workers : Take(w)
  <2>1. PICK w \in Workers : Take(w)
    BY <1>4
  <2>2. c # next_chunk
    BY <2>1, <1>0 DEF Take, AtWork, Types
  <2>3. c < next_chunk /\ pc = "convert" /\ c \notin failed
    BY <2>1, <2>2, <1>2 DEF Take
  <2>4. ~AtWork(c)
    BY <2>1, <1>0 DEF Take, AtWork, Types, OneListing
  <2> QED
    BY <2>3, <2>4, <1>0, SettledStay DEF ConvertedSettled
<1>5. CASE \E w \in Workers : Resume(w) \/ Convert(w) \/ WriteFails(w)
  <2>1. PICK w \in Workers : Resume(w) \/ Convert(w) \/ WriteFails(w)
    BY <1>5
  <2>2. /\ pc = "convert" /\ next_chunk' = next_chunk
        /\ task' = [task EXCEPT ![w] = Idle] /\ task[w] \in ShardNames
    BY <2>1, <1>0 DEF Resume, Convert, WriteFails, Finish, Types
  <2>3. CASE c = task[w]
    <3>1. CASE Resume(w)
      <4>1. shard[c] = Samples(c)
        BY <3>1, <2>3, <1>0 DEF Resume, ShardsOfChunks
      <4> QED
        BY <4>1, <1>0, SettledStay DEF Settled
    <3>2. CASE Convert(w)
      BY <3>2, <2>2, <2>3, <1>0, <1>1 DEF Convert, Settled, Types
    <3>3. CASE WriteFails(w)
      BY <3>3, <2>3 DEF WriteFails
    <3> QED
      BY <2>1, <3>1, <3>2, <3>3
  <2>4. CASE c # task[w]
    <3>1. ~AtWork(c)
      BY <2>2, <2>4, <1>0 DEF AtWork, Types
    <3>2. c \notin failed
      BY <2>1 DEF Resume, Convert, WriteFails
    <3> QED
      BY <3>1, <3>2, <2>2, <1>0, SettledStay DEF ConvertedSettled
  <2> QED
    BY <2>3, <2>4
<1>6. CASE UNCHANGED vars
  BY <1>6, <1>0 DEF vars, ConvertedSettled, Settled, AtWork, Samples, chunk
<1> QED
  BY <1>3, <1>4, <1>5, <1>6 DEF Next, Collect, Split, Kill

\* When the pool is done every chunk has been taken, and left.
LEMMA AllSettledNext ==
    ASSUME NEW L, OneListing(L), KeptInv(L), [Next]_vars
    PROVE  AllSettled'
<1>0. Types(L) /\ ConvertedSettled /\ AllSettled
  BY DEF KeptInv
<1>1. listing' = L /\ listing = L
  BY <1>0, SameListing DEF Types
<1> SUFFICES ASSUME pc' \in {"split", "done"}, NEW i \in DOMAIN L, ChunkOf(i) \notin failed'
             PROVE  Settled(ChunkOf(i))'
  BY <1>1 DEF AllSettled
<1>2. ChunkOf(i) \in ShardNames
  BY DEF OneListing
<1>3. CASE Collect
  <2>1. /\ pc = "convert" /\ task = AllIdle /\ ~IsChunk(next_chunk)
        /\ next_chunk \in Nat /\ ChunkOf(i) \notin failed
    BY <1>3, <1>0 DEF Collect, PoolDone, Types
  <2>2. ASSUME next_chunk <= ChunkOf(i)
        PROVE  FALSE
    <3>1. PICK j \in DOMAIN L : ChunkOf(j) = next_chunk
      BY <2>1, <2>2, NoGaps
    <3>2. L[j] \in chunk(next_chunk) /\ next_chunk \in ShardNames
      BY <3>1, <1>1 DEF chunk, OneListing
    <3> QED
      BY <2>1, <3>2 DEF IsChunk
  <2>3. ChunkOf(i) < next_chunk
    BY <1>2, <2>1, <2>2 DEF ShardNames, OneListing
  <2>4. ~AtWork(ChunkOf(i))
    BY <2>1, <1>2 DEF AtWork, AllIdle, OneListing
  <2> QED
    BY <1>0, <1>2, <2>1, <2>3, <2>4, SettledStay DEF ConvertedSettled
<1>4. CASE (\E t \in SUBSET InShards : Split(t)) \/ UNCHANGED vars
  <2>1. pc \in {"split", "done"} /\ failed' = failed
    BY <1>4 DEF Split, vars
  <2> QED
    BY <2>1, <1>0, <1>1, <1>2, SettledStay DEF AllSettled
<1> QED
  BY <1>3, <1>4 DEF Next, Launch, Take, Resume, Convert, WriteFails, Finish, Kill, Types

\* What can be read of the shards only grows.
LEMMA InShardsGrows ==
    ASSUME NEW L, OneListing(L), Types(L), [Next]_vars
    PROVE  InShards \subseteq InShards'
<1>1. \A c \in ShardNames : Readable(shard[c]) => shard'[c] = shard[c]
  BY ReadableStay
<1> QED
  BY <1>1 DEF InShards, Readable

\* The split of a set of one object leaves the training file alone; it was
\* not there then, for it takes two.
LEMMA TrainNext ==
    ASSUME NEW L, OneListing(L), KeptInv(L), [Next]_vars
    PROVE  TrainOfTwo'
<1>0. Types(L) /\ TrainOfTwo /\ InShards \subseteq InShards' /\ ~Readable(Torn)
  BY InShardsGrows DEF KeptInv, OneListing
<1>1. CASE \E t \in SUBSET InShards : Split(t)
  <2>1. PICK t \in SUBSET InShards : Split(t)
    BY <1>1
  <2>2. CASE InShards \ t = {}
    <3>1. train' = train
      BY <2>1, <2>2 DEF Split
    <3> QED
      BY <3>1, <1>0 DEF TrainOfTwo, Readable
  <2>3. CASE InShards \ t # {}
    <3>1. PICK x \in t : x \in InShards
      BY <2>1 DEF Split
    <3>2. PICK y \in InShards : y \notin t
      BY <2>3
    <3> QED
      BY <3>1, <3>2, <1>0 DEF TrainOfTwo
  <2> QED
    BY <2>2, <2>3
<1>2. CASE train' = train \/ train' = Torn
  BY <1>0, <1>2 DEF TrainOfTwo, Readable
<1> QED
  BY <1>1, <1>2 DEF Next, vars, Launch, Take, Resume, Convert, WriteFails, Finish,
                    Collect, Kill

\* Every step keeps the invariant.
LEMMA KeptNext ==
    ASSUME NEW L, OneListing(L), KeptInv(L), [Next]_vars
    PROVE  EveryObjectKept'
<1>0. Types(L) /\ ShardsOfChunks /\ AllSettled /\ TrainOfTwo /\ EveryObjectKept
  BY DEF KeptInv
<1>1. listing' = L /\ listing = L
  BY <1>0, SameListing DEF Types
<1>2. CASE \E t \in SUBSET InShards : Split(t)
  <2>1. PICK t \in SUBSET InShards : Split(t)
    BY <1>2
  <2>2. /\ pc = "split" /\ test' = t /\ failed' = failed
        /\ train' = IF InShards \ t = {} THEN train ELSE InShards \ t
    BY <2>1 DEF Split
  <2>3. InShards \ t = {} => ~Readable(train')
    BY <2>1, <2>2, <1>0 DEF Split, TrainOfTwo
  <2>4. ASSUME NEW i \in DOMAIN L, L[i] \in Convertible, ChunkOf(i) \notin failed
        PROVE  L[i] \in InShards
    <3>1. ChunkOf(i) \in ShardNames /\ L[i] \in Samples(ChunkOf(i))
      BY <1>1, <2>4 DEF OneListing, Samples, chunk
    <3>2. shard[ChunkOf(i)] = Samples(ChunkOf(i)) /\ Readable(Samples(ChunkOf(i)))
      BY <3>1, <2>2, <2>4, <1>0, <1>1, SamplesReadable DEF AllSettled, Settled
    <3> QED
      BY <3>1, <3>2 DEF InShards
  <2>5. InShards \subseteq {L[i] : i \in DOMAIN L}
    BY <1>0, <1>1 DEF InShards, ShardsOfChunks, Samples, chunk
  <2>6. Readable(InShards \ t)
    BY <2>5 DEF OneListing
  <2> QED
    BY <2>2, <2>3, <2>4, <2>6, <1>1 DEF EveryObjectKept, Readable
<1>3. CASE UNCHANGED vars
  BY <1>3, <1>0 DEF vars, EveryObjectKept, Readable
<1>4. CASE pc' # "done"
  BY <1>4 DEF EveryObjectKept
<1> QED
  BY <1>2, <1>3, <1>4, <1>0 DEF Next, Launch, Take, Resume, Convert, WriteFails, Finish,
                    Collect, Kill, Types

\* When all launches find the same objects, each of them that can be
\* converted, and whose chunk did not fail, is in exactly one of train and
\* test when a run is done: process_chunk_to_shard may take a shard that is
\* there for its chunk's.
THEOREM ObjectsKept ==
    ASSUME NEW L, OneListing(L)
    PROVE  Spec => []EveryObjectKept
<1>1. Init => KeptInv(L)
  BY KeptInit
<1>2. KeptInv(L) /\ [Next]_vars => KeptInv(L)'
  <2> SUFFICES ASSUME KeptInv(L), [Next]_vars
               PROVE  KeptInv(L)'
    OBVIOUS
  <2>1. Types(L)' /\ ShardsOfChunks' /\ TakenInOrder'
    BY TypesNext
  <2>2. IdleOutside' /\ ConvertedSettled' /\ AllSettled' /\ TrainOfTwo' /\ EveryObjectKept'
    BY IdleNext, ConvertedNext, AllSettledNext, TrainNext, KeptNext
  <2> QED
    BY <2>1, <2>2 DEF KeptInv
<1>3. KeptInv(L) => EveryObjectKept
  BY DEF KeptInv
<1> QED
  BY <1>1, <1>2, <1>3, PTL DEF Spec
=============================================================================
