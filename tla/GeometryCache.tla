--------------------------- MODULE GeometryCache ---------------------------
(***************************************************************************)
(* preprocess_glb_cache.py: a pool of processes writes, for every mesh of  *)
(* a directory, the sampled points and the mesh they were sampled from     *)
(* into the directory <cache_dir>/<stem>, and marks it done.               *)
(*                                                                         *)
(* A file is absent, torn, or whole; a whole one holds the mesh it was     *)
(* made from.  A write takes one step, but whoever is killed or fails at   *)
(* that step, or writes a file that another process is writing too, may    *)
(* leave it torn.  The stem drops the extension, so that two meshes may    *)
(* share one.                                                              *)
(***************************************************************************)
EXTENDS Integers, Sequences

CONSTANTS
    MeshFiles,   \* the meshes of the directory, sorted by name
    StemOf,      \* a mesh's name without the extension
    Workers,     \* the pool's processes
    Absent, Torn

VARIABLES
    cache,       \* per stem: geom.npz, combined_mesh.ply and .done
    tasks,       \* what no process of the pool has taken
    worker       \* per process: its task, and the step it is at

cacheVars == <<cache, tasks, worker>>

Meshes == {MeshFiles[i] : i \in DOMAIN MeshFiles}

Stems == {StemOf[m] : m \in Meshes}

\* A directory lists a file once, and what marks a file as absent or torn is
\* no mesh.
ASSUME MeshFilesAssumption ==
    /\ MeshFiles \in Seq(Meshes)
    /\ \A i, j \in DOMAIN MeshFiles : MeshFiles[i] = MeshFiles[j] => i = j
ASSUME MarksAssumption == Absent # Torn /\ {Absent, Torn} \cap Meshes = {}

NoTask == [mesh |-> Absent, step |-> "idle"]

CacheFiles == {"geom", "ply"}

CacheInit ==
    /\ cache = [s \in Stems |-> [geom |-> Absent, ply |-> Absent, done |-> FALSE]]
    /\ tasks = <<>>
    /\ worker = [w \in Workers |-> NoTask]

PoolIdle == tasks = <<>> /\ \A w \in Workers : worker[w] = NoTask

StartPool ==
    /\ tasks' = MeshFiles
    /\ UNCHANGED <<cache, worker>>

Cached(s) == cache[s].done /\ cache[s].geom # Absent /\ cache[s].ply # Absent

\* A free process takes the next mesh, unless its stem is cached already.
Take(w) ==
    /\ tasks # <<>>
    /\ worker[w] = NoTask
    /\ tasks' = Tail(tasks)
    /\ worker' = IF Cached(StemOf[Head(tasks)]) THEN worker
                 ELSE [worker EXCEPT ![w] = [mesh |-> Head(tasks), step |-> "geom"]]
    /\ UNCHANGED cache

\* Mutant: the marker is written before the mesh.
StepAfterDoneFirst(step) ==
    CASE step = "geom" -> "done" [] step = "done" -> "ply" [] OTHER -> "idle"

StepAfter(step) ==
    CASE step = "geom" -> "ply" [] step = "ply" -> "done" [] OTHER -> "idle"

Proceed(w) ==
    LET next == StepAfter(worker[w].step)
    IN  worker' = [worker EXCEPT ![w] =
                      IF next = "idle" THEN NoTask ELSE [@ EXCEPT !.step = next]]

\* Another process is at the same file.
Contended(w) ==
    \E v \in Workers \ {w} : /\ worker[v].step = worker[w].step
                             /\ StemOf[worker[v].mesh] = StemOf[worker[w].mesh]

Save(w) ==
    LET file == worker[w].step
        s    == StemOf[worker[w].mesh]
    IN  /\ file \in CacheFiles
        /\ \E content \in {worker[w].mesh} \cup (IF Contended(w) THEN {Torn} ELSE {}) :
               cache' = [cache EXCEPT ![s][file] = content]
        /\ Proceed(w)
        /\ UNCHANGED tasks

MarkDone(w) ==
    /\ worker[w].step = "done"
    /\ cache' = [cache EXCEPT ![StemOf[worker[w].mesh]].done = TRUE]
    /\ Proceed(w)
    /\ UNCHANGED tasks

\* What the processes in `some' had open may be torn.
CacheTornBy(some) ==
    LET Left(s, f, torn) ==
            IF \E w \in torn : worker[w].step = f /\ StemOf[worker[w].mesh] = s
            THEN Torn ELSE cache[s][f]
    IN  {[s \in Stems |-> [geom |-> Left(s, "geom", torn),
                           ply |-> Left(s, "ply", torn),
                           done |-> cache[s].done]] : torn \in SUBSET some}

\* The mesh does not load, or a write fails: the task is reported as failed.
TaskFails(w) ==
    /\ worker[w] # NoTask
    /\ cache' \in CacheTornBy({w})
    /\ worker' = [worker EXCEPT ![w] = NoTask]
    /\ UNCHANGED tasks

\* The parent is killed alone: nobody hands out tasks any more, and a process
\* ends when it has finished the task it holds and cannot report it.
LoseParent ==
    /\ tasks' = <<>>
    /\ UNCHANGED <<cache, worker>>

\* The parent and its processes are killed (Ctrl-C, the end of a session or a
\* container).
KillPool ==
    /\ cache' \in CacheTornBy({w \in Workers : worker[w] # NoTask})
    /\ tasks' = <<>>
    /\ worker' = [w \in Workers |-> NoTask]

PoolStep(w) == Take(w) \/ Save(w) \/ MarkDone(w)

\* The stems that one mesh has to itself.
OwnStems ==
    {s \in Stems : \A m, n \in Meshes : StemOf[m] = s /\ StemOf[n] = s => m = n}

\* A marker vouches for a whole cache made from the stem's mesh, whatever was
\* killed, failed or run again before; meshes that share a stem get no such
\* promise.
DoneIsWhole ==
    \A s \in OwnStems : cache[s].done =>
        \A f \in CacheFiles : cache[s][f] \in Meshes /\ StemOf[cache[s][f]] = s
=============================================================================
