--------------------------- MODULE DatasetShards ---------------------------
(***************************************************************************)
(* prepare_hy3dbench_dataset.py with --num_proc: the objects found under   *)
(* meshes/ are cut into chunks, a pool of processes converts each chunk    *)
(* into a shard file, a shard that is there already being taken for its    *)
(* chunk's, and all shards are then split into train and test by object.   *)
(*                                                                         *)
(* A launch may find another listing than the last one did: more archives  *)
(* are extracted, or --limit is given or left out.  A listing is in the    *)
(* order of the archives and, within one, in that of os.listdir, which is  *)
(* taken to be stable.  Rows, per-mode files and statistics are left out,  *)
(* and so is the serial mode.                                              *)
(***************************************************************************)
EXTENDS Integers, Sequences

CONSTANTS
    Listings,      \* the listings launches may find
    Convertible,   \* the objects process_single_object makes samples of
    chunk_size,
    NumShards,     \* shard names in use
    Workers,       \* the pool's processes
    Idle, Absent, Torn

VARIABLES
    listing,
    shard,         \* per shard name: absent, torn, or the objects in it
    next_chunk,    \* the first chunk no process has taken
    task,          \* the chunk each process is at
    failed,        \* the chunks whose shard could not be written
    pc,
    train, test    \* absent, torn, or the objects in the file

vars == <<listing, shard, next_chunk, task, failed, pc, train, test>>

ShardNames == 0..(NumShards - 1)

ChunkOf(i) == (i - 1) \div chunk_size

chunk(c) == {listing[i] : i \in {j \in DOMAIN listing : ChunkOf(j) = c}}

IsChunk(c) == c \in ShardNames /\ chunk(c) # {}

Samples(c) == chunk(c) \cap Convertible

Readable(x) == x \notin {Absent, Torn}

AllIdle == [w \in Workers |-> Idle]

Init ==
    /\ listing \in Listings
    /\ shard = [c \in ShardNames |-> Absent]
    /\ next_chunk = 0
    /\ task = AllIdle
    /\ failed = {}
    /\ pc = "stopped"
    /\ train = Absent
    /\ test = Absent

\* main, up to the pool: objects are discovered anew at each launch.
Launch ==
    /\ pc \in {"stopped", "done"}
    /\ pc' = "convert"
    /\ listing' \in Listings
    /\ next_chunk' = 0
    /\ failed' = {}
    /\ UNCHANGED <<shard, task, train, test>>

Take(w) ==
    /\ pc = "convert"
    /\ task[w] = Idle
    /\ IsChunk(next_chunk)
    /\ task' = [task EXCEPT ![w] = next_chunk]
    /\ next_chunk' = next_chunk + 1
    /\ UNCHANGED <<listing, shard, failed, pc, train, test>>

Finish(w) ==
    /\ pc = "convert"
    /\ task[w] # Idle
    /\ task' = [task EXCEPT ![w] = Idle]
    /\ UNCHANGED <<listing, next_chunk, pc, train, test>>

\* The shard is there with its rows, whatever chunk they are of.
Resume(w) ==
    /\ Finish(w)
    /\ Readable(shard[task[w]])
    /\ UNCHANGED <<shard, failed>>

\* A shard without rows is not written.
Convert(w) ==
    /\ Finish(w)
    /\ ~Readable(shard[task[w]])
    /\ shard' = IF Samples(task[w]) = {} THEN shard
                ELSE [shard EXCEPT ![task[w]] = Samples(task[w])]
    /\ UNCHANGED failed

\* The table cannot be written; the others go on.
WriteFails(w) ==
    /\ Finish(w)
    /\ ~Readable(shard[task[w]])
    /\ Samples(task[w]) # {}
    /\ \E left \in {shard[task[w]], Torn, Absent} :
           shard' = [shard EXCEPT ![task[w]] = left]
    /\ failed' = failed \cup {task[w]}

\* Pass 1 reads every shard file there is: one that is torn ends the run.
InShards == UNION {shard[c] : c \in {d \in ShardNames : Readable(shard[d])}}

PoolDone == pc = "convert" /\ ~IsChunk(next_chunk) /\ task = AllIdle

Collect ==
    /\ PoolDone
    /\ pc' = IF InShards = {} \/ \E c \in ShardNames : shard[c] = Torn
             THEN "stopped" ELSE "split"
    /\ UNCHANGED <<listing, shard, next_chunk, task, failed, train, test>>

\* Pass 2: at least one object goes to test, and all of them only when there
\* is but one.  A file is written when it has rows.
Split(test_uids) ==
    /\ pc = "split"
    /\ test_uids # {}
    /\ InShards \ test_uids # {} \/ \E only \in InShards : InShards = {only}
    /\ pc' = "done"
    /\ test' = test_uids
    /\ train' = IF InShards \ test_uids = {} THEN train ELSE InShards \ test_uids
    /\ UNCHANGED <<listing, shard, next_chunk, task, failed>>

\* The run is killed, with its pool; files that were open are torn.
Kill ==
    /\ pc \in {"convert", "split"}
    /\ pc' = "stopped"
    /\ task' = AllIdle
    /\ \E open \in SUBSET {c \in ShardNames : \E w \in Workers : task[w] = c} :
           shard' = [c \in ShardNames |->
               IF c \in open /\ ~Readable(shard[c]) /\ Samples(c) # {}
               THEN Torn ELSE shard[c]]
    /\ \/ UNCHANGED <<train, test>>
       \/ pc = "split" /\ train' = Torn /\ test' = Torn
       \/ pc = "split" /\ train' = Torn /\ UNCHANGED test
       \/ pc = "split" /\ test' = Torn /\ UNCHANGED train
    /\ UNCHANGED <<listing, next_chunk, failed>>

Next ==
    \/ Launch
    \/ \E w \in Workers : Take(w) \/ Resume(w) \/ Convert(w) \/ WriteFails(w)
    \/ Collect
    \/ \E test_uids \in SUBSET InShards : Split(test_uids)
    \/ Kill

Spec == Init /\ [][Next]_vars

----------------------------------------------------------------------------
(* Properties.  *)

\* "Resumable shards": when a run is done, each object it found that can be
\* converted, and whose chunk did not fail to be written, is in one of train
\* and test and not in both, whatever runs were killed or failed before.
EveryObjectKept ==
    pc = "done" =>
        /\ \A i \in DOMAIN listing :
              listing[i] \in Convertible /\ ChunkOf(i) \notin failed =>
                  \/ listing[i] \in test
                  \/ Readable(train) /\ listing[i] \in train
        /\ Readable(train) => train \cap test = {}
=============================================================================
