------------------------ MODULE MeshInferenceProofs ------------------------
(***************************************************************************)
(* Proofs about MeshInference and GeometryCache, for any meshes, names,    *)
(* processes, prompts, clicks, launches and faults: what the cache marks   *)
(* as done is whole, what becomes finished is whole, and a resumed command *)
(* leaves alone what was finished.                                         *)
(***************************************************************************)
EXTENDS MeshInference, FiniteSetTheorems, SequenceTheorems, TLAPS

-----------------------------------------------------------------------------
(* The cache and the pool that fills it.                                    *)

\* The part of TypeOK that is about the cache.
CacheTyped ==
    /\ cache \in [Stems -> [geom : Meshes \cup {Absent, Torn},
                            ply : Meshes \cup {Absent, Torn}, done : BOOLEAN]]
    /\ worker \in [Workers -> [mesh : Meshes \cup {Absent},
                               step : {"idle", "geom", "ply", "done"}]]
    /\ tasks \in Seq(Meshes)

\* A mesh is a task once: it waits, or one process has it.
PoolInv ==
    /\ \A i, j \in DOMAIN tasks : tasks[i] = tasks[j] => i = j
    /\ \A w \in Workers :
          /\ worker[w].step = "idle" <=> worker[w].mesh = Absent
          /\ \A i \in DOMAIN tasks : worker[w].mesh # tasks[i]
          /\ \A v \in Workers \ {w} :
                worker[v].mesh = worker[w].mesh => worker[w].mesh = Absent
    /\ proc # "preprocess" => PoolIdle

\* While a process works on a stem that no other mesh has, the stem is not
\* marked, and what the process has written is there.
OwnInv ==
    \A w \in Workers :
        LET m == worker[w].mesh
            s == StemOf[m]
        IN  m # Absent /\ s \in OwnStems =>
                /\ ~cache[s].done
                /\ worker[w].step \in {"ply", "done"} => cache[s].geom = m
                /\ worker[w].step = "done" => cache[s].ply = m

CacheInv == CacheTyped /\ PoolInv /\ OwnInv /\ DoneIsWhole

\* A mesh has a stem, and is neither of the marks.
LEMMA MeshFacts ==
  /\ Absent \notin Meshes /\ Torn \notin Meshes /\ Absent # Torn
  /\ \A m \in Meshes : StemOf[m] \in Stems
BY MarksAssumption DEF Stems

\* An own stem has one mesh.
LEMMA OwnMesh ==
  ASSUME NEW m \in Meshes, NEW n \in Meshes, StemOf[m] \in OwnStems,
         StemOf[m] = StemOf[n]
  PROVE  m = n
BY DEF OwnStems

\* A free process is NoTask.
LEMMA FreeIs ==
  ASSUME CacheTyped, NEW w \in Workers, worker[w].mesh = Absent,
         worker[w].step = "idle"
  PROVE  worker[w] = NoTask
BY DEF CacheTyped, NoTask

\* With the pool idle, no process and no task is in the way.
LEMMA IdleCache ==
  ASSUME CacheInv, UNCHANGED cacheVars, PoolIdle
  PROVE  CacheInv'
<1>1. CacheTyped' /\ DoneIsWhole' /\ OwnInv' /\ PoolIdle'
  BY DEF CacheInv, CacheTyped, DoneIsWhole, OwnInv, cacheVars, PoolIdle
<1>2. PoolInv'
  BY <1>1 DEF CacheInv, PoolInv, cacheVars
<1> QED
  BY <1>1, <1>2 DEF CacheInv

\* A mesh is taken when its stem is not cached; a marked stem of its own is.
LEMMA TakeCache ==
  ASSUME CacheInv, proc = "preprocess", proc' = proc, NEW w \in Workers, Take(w)
  PROVE  CacheInv'
<1> DEFINE m == Head(tasks)
<1>1. /\ tasks \in Seq(Meshes) /\ tasks # <<>> /\ tasks' = Tail(tasks)
      /\ worker[w] = NoTask /\ cache' = cache
  BY DEF CacheInv, CacheTyped, Take
<1>2. /\ m \in Meshes /\ m = tasks[1] /\ tasks' \in Seq(Meshes)
      /\ 1 \in DOMAIN tasks
      /\ \A i \in DOMAIN tasks' : /\ i \in Int /\ i + 1 \in DOMAIN tasks
                                  /\ tasks'[i] = tasks[i + 1] /\ i + 1 # 1
  BY <1>1, HeadTailProperties, LenProperties
<1>3. \A i \in DOMAIN tasks' : tasks'[i] # m
  BY <1>2 DEF CacheInv, PoolInv
<1>4. \A i, j \in DOMAIN tasks' : tasks'[i] = tasks'[j] => i = j
  BY <1>2 DEF CacheInv, PoolInv
<1>5. CASE worker' = worker
  <2>1. CacheTyped' /\ OwnInv' /\ DoneIsWhole'
    BY <1>1, <1>2, <1>5 DEF CacheInv, CacheTyped, OwnInv, DoneIsWhole
  <2>2. PoolInv'
    BY <1>2, <1>4, <1>5 DEF CacheInv, PoolInv
  <2> QED
    BY <2>1, <2>2 DEF CacheInv
<1>6. CASE ~Cached(StemOf[m])
  <2>1. worker' = [worker EXCEPT ![w] = [mesh |-> m, step |-> "geom"]]
    BY <1>6 DEF Take
  <2>2. CacheTyped'
    BY <1>1, <1>2, <2>1 DEF CacheInv, CacheTyped
  <2>3. /\ worker'[w].mesh = m /\ worker'[w].step = "geom"
        /\ \A v \in Workers \ {w} : worker'[v] = worker[v]
    BY <2>1 DEF CacheInv, CacheTyped
  <2>4. PoolInv'
    <3>1. \A v \in Workers : \A i \in DOMAIN tasks' : worker'[v].mesh # tasks'[i]
      BY <1>2, <1>3, <2>3 DEF CacheInv, PoolInv
    <3>2. \A v \in Workers \ {w} : worker[v].mesh # m
      BY <1>2 DEF CacheInv, PoolInv
    <3>3. m # Absent
      BY <1>2, MeshFacts
    <3>4. \A v \in Workers : worker'[v].step = "idle" <=> worker'[v].mesh = Absent
      BY <3>3, <2>3 DEF CacheInv, PoolInv
    <3>5. \A v \in Workers : \A u \in Workers \ {v} :
             worker'[u].mesh = worker'[v].mesh => worker'[v].mesh = Absent
      BY <3>2, <2>3 DEF CacheInv, PoolInv
    <3> QED
      BY <1>4, <3>1, <3>4, <3>5 DEF PoolInv
  <2>5. ASSUME StemOf[m] \in OwnStems PROVE ~cache[StemOf[m]].done
    <3>1. StemOf[m] \in Stems
      BY <1>2, MeshFacts
    <3>2. ~(cache[StemOf[m]].geom \in Meshes /\ cache[StemOf[m]].ply \in Meshes
            /\ cache[StemOf[m]].done)
      BY <1>6, MeshFacts DEF Cached
    <3> QED
      BY <2>5, <3>1, <3>2 DEF CacheInv, DoneIsWhole, CacheFiles
  <2>6. OwnInv'
    BY <1>1, <2>3, <2>5 DEF CacheInv, OwnInv
  <2>7. DoneIsWhole'
    BY <1>1 DEF CacheInv, DoneIsWhole
  <2> QED
    BY <2>2, <2>4, <2>6, <2>7 DEF CacheInv
<1> QED
  BY <1>5, <1>6 DEF Take

\* What a process leaves behind: it has the next file of its mesh, or nothing.
LEMMA ProceedPool ==
  ASSUME CacheInv, proc = "preprocess", proc' = proc, tasks' = tasks,
         NEW w \in Workers, worker[w].mesh # Absent,
         NEW x \in {NoTask} \cup
             {[mesh |-> worker[w].mesh, step |-> f] : f \in {"ply", "done"}},
         worker' = [worker EXCEPT ![w] = x]
  PROVE  /\ PoolInv'
         /\ worker' \in [Workers -> [mesh : Meshes \cup {Absent},
                                     step : {"idle", "geom", "ply", "done"}]]
<1>1. /\ worker'[w] = x
      /\ \A v \in Workers \ {w} : worker'[v] = worker[v]
  BY DEF CacheInv, CacheTyped
<1>2. \/ x.mesh = Absent /\ x.step = "idle"
      \/ x.mesh = worker[w].mesh /\ x.step \in {"ply", "done"}
  BY DEF NoTask
<1>3. \A v \in Workers : \/ worker'[v].mesh = worker[v].mesh
                         \/ worker'[v].mesh = Absent
  BY <1>1, <1>2
<1>4. \A i \in DOMAIN tasks : tasks[i] # Absent
  BY MeshFacts DEF CacheInv, CacheTyped
<1>5. \A v \in Workers, i \in DOMAIN tasks' : worker'[v].mesh # tasks'[i]
  BY <1>3, <1>4 DEF CacheInv, PoolInv
<1>6. \A v \in Workers : worker'[v].step = "idle" <=> worker'[v].mesh = Absent
  BY <1>1, <1>2 DEF CacheInv, PoolInv
<1>7. \A v \in Workers : \A u \in Workers \ {v} :
         worker'[u].mesh = worker'[v].mesh => worker'[v].mesh = Absent
  BY <1>3 DEF CacheInv, PoolInv
<1>8. PoolInv'
  BY <1>5, <1>6, <1>7 DEF CacheInv, PoolInv
<1>9. x \in [mesh : Meshes \cup {Absent}, step : {"idle", "geom", "ply", "done"}]
  BY DEF CacheInv, CacheTyped, NoTask
<1> QED
  BY <1>8, <1>9 DEF CacheInv, CacheTyped

\* On an own stem nobody else works.
LEMMA OwnAlone ==
  ASSUME CacheInv, NEW w \in Workers, worker[w].mesh # Absent,
         StemOf[worker[w].mesh] \in OwnStems,
         NEW v \in Workers, v # w, worker[v].mesh # Absent
  PROVE  StemOf[worker[v].mesh] # StemOf[worker[w].mesh]
<1>1. worker[v].mesh \in Meshes /\ worker[w].mesh \in Meshes
  BY DEF CacheInv, CacheTyped
<1>2. worker[v].mesh # worker[w].mesh
  BY DEF CacheInv, PoolInv
<1> QED
  BY <1>1, <1>2, OwnMesh

\* A file is written: on an own stem it is whole, for nobody else writes it.
LEMMA SaveCache ==
  ASSUME CacheInv, proc = "preprocess", proc' = proc, NEW w \in Workers, Save(w)
  PROVE  CacheInv'
<1> DEFINE m == worker[w].mesh
           s == StemOf[m]
           f == worker[w].step
<1>1. /\ f \in CacheFiles /\ m \in Meshes /\ m # Absent /\ s \in Stems
      /\ tasks' = tasks
  <2>1. f \in CacheFiles /\ tasks' = tasks
    BY DEF Save
  <2>2. m # Absent
    BY <2>1 DEF CacheInv, PoolInv, CacheFiles
  <2>3. m \in Meshes
    BY <2>2 DEF CacheInv, CacheTyped
  <2> QED
    BY <2>1, <2>2, <2>3, MeshFacts
<1>2. PICK content \in {m} \cup (IF Contended(w) THEN {Torn} ELSE {}) :
          cache' = [cache EXCEPT ![s][f] = content]
  BY DEF Save
<1>3. /\ content \in Meshes \cup {Absent, Torn}
      /\ s \in OwnStems => content = m
  <2>1. Contended(w) => s \notin OwnStems
    <3> SUFFICES ASSUME NEW v \in Workers \ {w}, worker[v].step = f,
                        StemOf[worker[v].mesh] = s, s \in OwnStems
                 PROVE  FALSE
      BY DEF Contended
    <3>1. worker[v].mesh # Absent
      BY <1>1 DEF CacheInv, PoolInv, CacheFiles
    <3> QED
      BY <1>1, <3>1, OwnAlone
  <2> QED
    BY <1>1, <2>1
<1>4. PICK x \in {NoTask} \cup {[mesh |-> m, step |-> g] : g \in {"ply", "done"}} :
          /\ worker' = [worker EXCEPT ![w] = x]
          /\ x # NoTask /\ x.mesh = m /\ x.step = IF f = "geom" THEN "ply" ELSE "done"
  <2> DEFINE g == IF f = "geom" THEN "ply" ELSE "done"
             y == [mesh |-> m, step |-> g]
  <2>1. StepAfter(f) = g /\ g # "idle" /\ g \in {"ply", "done"}
    BY <1>1 DEF StepAfter, CacheFiles
  <2> HIDE DEF g
  <2>2. worker' = [worker EXCEPT ![w] = [worker[w] EXCEPT !.step = StepAfter(f)]]
    BY <2>1 DEF Save, Proceed
  <2>3. worker[w] \in [mesh : Meshes \cup {Absent},
                       step : {"idle", "geom", "ply", "done"}]
    BY DEF CacheInv, CacheTyped
  <2>4. [worker[w] EXCEPT !.step = StepAfter(f)] = y
    BY <2>1, <2>3
  <2>5. y # NoTask
    BY <1>1 DEF NoTask
  <2>6. y \in {[mesh |-> m, step |-> h] : h \in {"ply", "done"}}
    BY <2>1
  <2> QED
    BY <2>2, <2>4, <2>5, <2>6 DEF g
<1>5. /\ PoolInv'
      /\ worker' \in [Workers -> [mesh : Meshes \cup {Absent},
                                  step : {"idle", "geom", "ply", "done"}]]
  BY <1>1, <1>4, ProceedPool
<1>6. /\ worker'[w].mesh = m
      /\ worker'[w].step = IF f = "geom" THEN "ply" ELSE "done"
      /\ \A v \in Workers \ {w} : worker'[v] = worker[v]
  BY <1>4 DEF CacheInv, CacheTyped
<1>7. /\ cache' \in [Stems -> [geom : Meshes \cup {Absent, Torn},
                               ply : Meshes \cup {Absent, Torn}, done : BOOLEAN]]
      /\ \A t \in Stems : cache'[t].done = cache[t].done
      /\ \A t \in Stems \ {s} : cache'[t] = cache[t]
      /\ cache'[s].geom = IF f = "geom" THEN content ELSE cache[s].geom
      /\ cache'[s].ply = IF f = "ply" THEN content ELSE cache[s].ply
  BY <1>1, <1>2, <1>3 DEF CacheInv, CacheTyped, CacheFiles
<1>8. CacheTyped'
  BY <1>1, <1>5, <1>7 DEF CacheInv, CacheTyped
<1>9. OwnInv'
  <2> SUFFICES ASSUME NEW v \in Workers, worker'[v].mesh # Absent,
                      StemOf[worker'[v].mesh] \in OwnStems
               PROVE  LET n == worker'[v].mesh
                          t == StemOf[n]
                      IN  /\ ~cache'[t].done
                          /\ worker'[v].step \in {"ply", "done"} => cache'[t].geom = n
                          /\ worker'[v].step = "done" => cache'[t].ply = n
    BY DEF OwnInv
  <2>1. CASE v = w
    <3>1. /\ ~cache[s].done
          /\ f \in {"ply", "done"} => cache[s].geom = m
      BY <1>1, <1>6, <2>1 DEF CacheInv, OwnInv
    <3> QED
      BY <1>1, <1>3, <1>6, <1>7, <2>1, <3>1 DEF CacheFiles
  <2>2. CASE v # w
    <3>1. worker'[v] = worker[v] /\ worker[v].mesh \in Meshes
      BY <1>6, <2>2 DEF CacheInv, CacheTyped
    <3>2. StemOf[worker[v].mesh] \in Stems \ {s}
      BY <1>1, <2>2, <3>1, OwnAlone, MeshFacts
    <3> QED
      BY <1>7, <3>1, <3>2 DEF CacheInv, OwnInv
  <2> QED
    BY <2>1, <2>2
<1>10. DoneIsWhole'
  <2>1. s \in OwnStems => ~cache[s].done
    BY <1>1 DEF CacheInv, OwnInv
  <2>2. \A t \in OwnStems : cache'[t].done => cache'[t] = cache[t] /\ cache[t].done
    BY <1>7, <2>1 DEF OwnStems
  <2> QED
    BY <2>2 DEF CacheInv, DoneIsWhole
<1> QED
  BY <1>5, <1>8, <1>9, <1>10 DEF CacheInv

\* A stem is marked when both of its files are there.
LEMMA MarkCache ==
  ASSUME CacheInv, proc = "preprocess", proc' = proc, NEW w \in Workers, MarkDone(w)
  PROVE  CacheInv'
<1> DEFINE m == worker[w].mesh
           s == StemOf[m]
<1>1. /\ m # Absent /\ m \in Meshes /\ s \in Stems /\ worker[w].step = "done"
      /\ tasks' = tasks /\ cache' = [cache EXCEPT ![s].done = TRUE]
      /\ worker' = [worker EXCEPT ![w] = NoTask]
  <2>1. worker[w].step = "done"
    BY DEF MarkDone
  <2>2. m # Absent
    BY <2>1 DEF CacheInv, PoolInv
  <2>3. m \in Meshes
    BY <2>2 DEF CacheInv, CacheTyped
  <2>4. StepAfter("done") = "idle"
    BY DEF StepAfter
  <2> QED
    BY <2>1, <2>2, <2>3, <2>4, MeshFacts DEF MarkDone, Proceed
<1>2. /\ PoolInv'
      /\ worker' \in [Workers -> [mesh : Meshes \cup {Absent},
                                  step : {"idle", "geom", "ply", "done"}]]
  BY <1>1, ProceedPool
<1>3. /\ worker'[w].mesh = Absent
      /\ \A v \in Workers \ {w} : worker'[v] = worker[v]
  BY <1>1 DEF CacheInv, CacheTyped, NoTask
<1>4. /\ cache' \in [Stems -> [geom : Meshes \cup {Absent, Torn},
                               ply : Meshes \cup {Absent, Torn}, done : BOOLEAN]]
      /\ \A t \in Stems \ {s} : cache'[t] = cache[t]
      /\ cache'[s].geom = cache[s].geom /\ cache'[s].ply = cache[s].ply
  BY <1>1 DEF CacheInv, CacheTyped
<1>5. CacheTyped'
  BY <1>1, <1>2, <1>4 DEF CacheInv, CacheTyped
<1>6. OwnInv'
  <2> SUFFICES ASSUME NEW v \in Workers, worker'[v].mesh # Absent,
                      StemOf[worker'[v].mesh] \in OwnStems
               PROVE  LET n == worker'[v].mesh
                          t == StemOf[n]
                      IN  /\ ~cache'[t].done
                          /\ worker'[v].step \in {"ply", "done"} => cache'[t].geom = n
                          /\ worker'[v].step = "done" => cache'[t].ply = n
    BY DEF OwnInv
  <2>1. v # w /\ worker'[v] = worker[v] /\ worker[v].mesh \in Meshes
    BY <1>3 DEF CacheInv, CacheTyped
  <2>2. StemOf[worker[v].mesh] \in Stems \ {s}
    BY <1>1, <2>1, OwnAlone, MeshFacts
  <2> QED
    BY <1>4, <2>1, <2>2 DEF CacheInv, OwnInv
<1>7. DoneIsWhole'
  <2>1. s \in OwnStems => cache[s].geom = m /\ cache[s].ply = m
    BY <1>1 DEF CacheInv, OwnInv
  <2>2. \A t \in OwnStems \ {s} : cache'[t] = cache[t]
    BY <1>4 DEF OwnStems
  <2> QED
    BY <1>1, <1>4, <2>1, <2>2 DEF CacheInv, DoneIsWhole, CacheFiles
<1> QED
  BY <1>2, <1>5, <1>6, <1>7 DEF CacheInv

\* What a process had open may be torn, and that alone; a marked stem of its
\* own has no process.
LEMMA TornCache ==
  ASSUME CacheInv, NEW W \in SUBSET Workers, cache' \in CacheTornBy(W)
  PROVE  /\ cache' \in [Stems -> [geom : Meshes \cup {Absent, Torn},
                                  ply : Meshes \cup {Absent, Torn}, done : BOOLEAN]]
         /\ \A t \in Stems : \/ cache'[t] = cache[t]
                             \/ /\ cache'[t].done = cache[t].done
                                /\ \E w \in W : /\ worker[w].mesh # Absent
                                                /\ StemOf[worker[w].mesh] = t
         /\ DoneIsWhole'
<1> DEFINE Left(t, f, torn) ==
             IF \E w \in torn : worker[w].step = f /\ StemOf[worker[w].mesh] = t
             THEN Torn ELSE cache[t][f]
<1>1. PICK torn \in SUBSET W :
          cache' = [t \in Stems |-> [geom |-> Left(t, "geom", torn),
                                     ply |-> Left(t, "ply", torn),
                                     done |-> cache[t].done]]
  BY DEF CacheTornBy
<1>2. \A t \in Stems : cache[t] \in [geom : Meshes \cup {Absent, Torn},
                               ply : Meshes \cup {Absent, Torn}, done : BOOLEAN]
  BY DEF CacheInv, CacheTyped
<1>3. \A t \in Stems :
         /\ Left(t, "geom", torn) \in Meshes \cup {Absent, Torn}
         /\ Left(t, "ply", torn) \in Meshes \cup {Absent, Torn}
  BY <1>2
<1>4. \A t \in Stems :
         (~ \E w \in torn : worker[w].mesh # Absent /\ StemOf[worker[w].mesh] = t)
         => Left(t, "geom", torn) = cache[t].geom /\ Left(t, "ply", torn) = cache[t].ply
  BY DEF CacheInv, PoolInv
<1> HIDE DEF Left
<1>5. cache' \in [Stems -> [geom : Meshes \cup {Absent, Torn},
                            ply : Meshes \cup {Absent, Torn}, done : BOOLEAN]]
  BY <1>1, <1>2, <1>3
<1>6. \A t \in Stems :
         \/ cache'[t] = cache[t]
         \/ /\ cache'[t].done = cache[t].done
            /\ \E w \in torn : worker[w].mesh # Absent /\ StemOf[worker[w].mesh] = t
  <2> SUFFICES ASSUME NEW t \in Stems,
                      ~ \E w \in torn : /\ worker[w].mesh # Absent
                                        /\ StemOf[worker[w].mesh] = t
               PROVE  cache'[t] = cache[t]
    BY <1>1
  <2> QED
    BY <1>1, <1>2, <1>4
<1>7. DoneIsWhole'
  <2> SUFFICES ASSUME NEW t \in OwnStems, cache'[t].done
               PROVE  cache'[t] = cache[t] /\ cache[t].done
    BY DEF CacheInv, DoneIsWhole
  <2>1. t \in Stems /\ cache[t].done
    BY <1>6 DEF OwnStems
  <2>2. \A w \in torn : worker[w].mesh # Absent => StemOf[worker[w].mesh] # t
    BY <2>1 DEF CacheInv, OwnInv
  <2> QED
    BY <1>6, <2>1, <2>2
<1> QED
  BY <1>5, <1>6, <1>7

\* A task that fails takes its open file with it, and its process is free.
LEMMA FailCache ==
  ASSUME CacheInv, proc = "preprocess", proc' = proc, NEW w \in Workers, TaskFails(w)
  PROVE  CacheInv'
<1>1. /\ worker[w] # NoTask /\ cache' \in CacheTornBy({w}) /\ tasks' = tasks
      /\ worker' = [worker EXCEPT ![w] = NoTask]
  BY DEF TaskFails
<1>2. worker[w].mesh # Absent
  BY <1>1, FreeIs DEF CacheInv, PoolInv
<1>3. /\ PoolInv'
      /\ worker' \in [Workers -> [mesh : Meshes \cup {Absent},
                                  step : {"idle", "geom", "ply", "done"}]]
  BY <1>1, <1>2, ProceedPool
<1>4. /\ worker'[w].mesh = Absent
      /\ \A v \in Workers \ {w} : worker'[v] = worker[v]
  BY <1>1 DEF CacheInv, CacheTyped, NoTask
<1>5. /\ cache' \in [Stems -> [geom : Meshes \cup {Absent, Torn},
                               ply : Meshes \cup {Absent, Torn}, done : BOOLEAN]]
      /\ \A t \in Stems : cache'[t] = cache[t] \/ StemOf[worker[w].mesh] = t
      /\ DoneIsWhole'
  <2>1. {w} \in SUBSET Workers
    OBVIOUS
  <2> QED
    BY <1>1, <2>1, TornCache
<1>6. CacheTyped'
  BY <1>1, <1>3, <1>5 DEF CacheInv, CacheTyped
<1>7. OwnInv'
  <2> SUFFICES ASSUME NEW v \in Workers, worker'[v].mesh # Absent,
                      StemOf[worker'[v].mesh] \in OwnStems
               PROVE  LET n == worker'[v].mesh
                          t == StemOf[n]
                      IN  /\ ~cache'[t].done
                          /\ worker'[v].step \in {"ply", "done"} => cache'[t].geom = n
                          /\ worker'[v].step = "done" => cache'[t].ply = n
    BY DEF OwnInv
  <2>1. v # w /\ worker'[v] = worker[v] /\ worker[v].mesh \in Meshes
    BY <1>4 DEF CacheInv, CacheTyped
  <2>2. StemOf[worker[v].mesh] \in Stems /\ StemOf[worker[v].mesh] # StemOf[worker[w].mesh]
    BY <1>2, <2>1, OwnAlone, MeshFacts
  <2> QED
    BY <1>5, <2>1, <2>2 DEF CacheInv, OwnInv
<1> QED
  BY <1>3, <1>5, <1>6, <1>7 DEF CacheInv

\* A killed pool leaves nothing to do and nobody to do it.
LEMMA KillCache ==
  ASSUME CacheInv, KillPool
  PROVE  CacheInv'
<1> DEFINE W == {w \in Workers : worker[w] # NoTask}
<1>1. cache' \in CacheTornBy(W) /\ W \in SUBSET Workers
      /\ tasks' = <<>> /\ worker' = [w \in Workers |-> NoTask]
  BY DEF KillPool
<1> HIDE DEF W
<1>2. /\ cache' \in [Stems -> [geom : Meshes \cup {Absent, Torn},
                               ply : Meshes \cup {Absent, Torn}, done : BOOLEAN]]
      /\ DoneIsWhole'
  BY <1>1, TornCache
<1>3. \A w \in Workers : worker'[w].mesh = Absent /\ worker'[w].step = "idle"
  BY <1>1 DEF NoTask
<1>4. tasks' \in Seq(Meshes) /\ DOMAIN tasks' = {}
  BY <1>1
<1>5. CacheTyped'
  BY <1>1, <1>2, <1>4 DEF CacheTyped, NoTask
<1>6. OwnInv'
  BY <1>3 DEF OwnInv
<1>7. PoolInv'
  BY <1>1, <1>3, <1>4 DEF PoolInv, PoolIdle
<1> QED
  BY <1>2, <1>5, <1>6, <1>7 DEF CacheInv

\* A pool that has lost its parent only has less to do.
LEMMA LoseCache ==
  ASSUME CacheInv, proc = "preprocess", proc' = proc, LoseParent
  PROVE  CacheInv'
<1>1. tasks' = <<>> /\ cache' = cache /\ worker' = worker
  BY DEF LoseParent
<1>2. tasks' \in Seq(Meshes) /\ DOMAIN tasks' = {}
  BY <1>1
<1>3. CacheTyped' /\ OwnInv' /\ DoneIsWhole'
  BY <1>1, <1>2 DEF CacheInv, CacheTyped, OwnInv, DoneIsWhole
<1>4. PoolInv'
  BY <1>1, <1>2 DEF CacheInv, PoolInv
<1> QED
  BY <1>3, <1>4 DEF CacheInv

\* A pool starts with every mesh as a task, each once.
LEMMA StartCache ==
  ASSUME CacheInv, proc = "none", proc' = "preprocess", StartPool
  PROVE  CacheInv'
<1>1. tasks' = MeshFiles /\ cache' = cache /\ worker' = worker
  BY DEF StartPool
<1>2. \A w \in Workers : worker[w].mesh = Absent /\ worker[w].step = "idle"
  BY DEF CacheInv, PoolInv, PoolIdle, NoTask
<1>3. \A i \in DOMAIN tasks' : tasks'[i] \in Meshes
  BY <1>1 DEF Meshes
<1>4. CacheTyped' /\ OwnInv' /\ DoneIsWhole'
  BY <1>1, MeshFilesAssumption DEF CacheInv, CacheTyped, OwnInv, DoneIsWhole
<1>5. PoolInv'
  BY <1>1, <1>2, <1>3, MeshFilesAssumption, MeshFacts DEF PoolInv
<1> QED
  BY <1>4, <1>5 DEF CacheInv

\* No file, no task and no process at first.
LEMMA InitCache == Init => CacheInv
<1> SUFFICES ASSUME Init PROVE CacheInv
  OBVIOUS
<1>1. /\ cache = [s \in Stems |-> [geom |-> Absent, ply |-> Absent, done |-> FALSE]]
      /\ tasks = <<>> /\ worker = [w \in Workers |-> NoTask]
  BY DEF Init, CacheInit
<1>2. \A w \in Workers : worker[w].mesh = Absent /\ worker[w].step = "idle"
  BY <1>1 DEF NoTask
<1>3. tasks \in Seq(Meshes) /\ DOMAIN tasks = {}
  BY <1>1
<1>4. CacheTyped
  BY <1>1, <1>3 DEF CacheTyped, NoTask
<1>5. OwnInv
  BY <1>2 DEF OwnInv
<1>6. PoolInv
  BY <1>1, <1>2, <1>3 DEF PoolInv, PoolIdle
<1>7. DoneIsWhole
  BY <1>1 DEF DoneIsWhole, OwnStems
<1> QED
  BY <1>4, <1>5, <1>6, <1>7 DEF CacheInv

\* The driver of inference leaves the cache alone, and needs no pool.
LEMMA SameCache ==
  ASSUME CacheInv, proc # "preprocess" \/ PoolIdle, UNCHANGED cacheVars
  PROVE  CacheInv'
<1>1. PoolIdle
  BY DEF CacheInv, PoolInv
<1> QED
  BY <1>1, IdleCache

\* Every step keeps the invariant of the cache.
LEMMA NextCache == CacheInv /\ [Next]_vars => CacheInv'
<1> SUFFICES ASSUME CacheInv, [Next]_vars PROVE CacheInv'
  OBVIOUS
<1>1. CASE UNCHANGED vars
  <2>1. UNCHANGED <<cache, tasks, worker, proc>>
    BY <1>1 DEF vars, cacheVars
  <2>2. CacheTyped' /\ PoolInv' /\ OwnInv' /\ DoneIsWhole'
    BY <2>1 DEF CacheInv, CacheTyped, PoolInv, PoolIdle, OwnInv, DoneIsWhole
  <2> QED
    BY <2>2 DEF CacheInv
<1>2. CASE \E again \in BOOLEAN : LaunchInference(again)
  <2>1. proc = "none" /\ UNCHANGED cacheVars
    BY <1>2 DEF LaunchInference, Launch
  <2> QED
    BY <2>1, SameCache
<1>3. CASE LaunchPreprocess
  <2>1. proc = "none" /\ proc' = "preprocess" /\ StartPool
    BY <1>3 DEF LaunchPreprocess, Launch
  <2> QED
    BY <2>1, StartCache
<1>4. ASSUME NEW w \in Workers, PreprocessStep(w) PROVE CacheInv'
  <2>1. proc = "preprocess" /\ proc' = proc /\ (Take(w) \/ Save(w) \/ MarkDone(w))
    BY <1>4 DEF PreprocessStep, PoolStep
  <2> QED
    BY <2>1, TakeCache, SaveCache, MarkCache
<1>5. ASSUME NEW w \in Workers, PreprocessFails(w) PROVE CacheInv'
  <2>1. proc = "preprocess" /\ proc' = proc /\ TaskFails(w)
    BY <1>5 DEF PreprocessFails
  <2> QED
    BY <2>1, FailCache
<1>6. CASE PreprocessEnds
  <2>1. PoolIdle /\ UNCHANGED cacheVars
    BY <1>6 DEF PreprocessEnds
  <2> QED
    BY <2>1, SameCache
<1>7. CASE \/ NextMesh \/ Ends \/ LoadGeometry \/ GeometryFails \/ SkipRound
           \/ Predict(launches) \/ Predict(NoMask) \/ Write \/ RoundFails
  <2>1. Inferring
    BY <1>7 DEF NextMesh, Ends, LoadGeometry, GeometryFails, SkipRound, Predict, Write,
                RoundFails, InferStep
  <2>2. proc # "preprocess" /\ UNCHANGED cacheVars
    BY <2>1 DEF Inferring
  <2> QED
    BY <2>2, SameCache
<1>8. CASE Kill
  <2>1. CASE proc = "preprocess"
    BY <1>8, <2>1, KillCache DEF Kill
  <2>2. CASE proc # "preprocess"
    BY <1>8, <2>2, SameCache DEF Kill
  <2> QED
    BY <2>1, <2>2
<1>9. CASE ParentKilled
  <2>1. proc = "preprocess" /\ proc' = proc /\ LoseParent
    BY <1>9 DEF ParentKilled
  <2> QED
    BY <2>1, LoseCache
<1> QED
  BY <1>1, <1>2, <1>3, <1>4, <1>5, <1>6, <1>7, <1>8, <1>9 DEF Next

\* A marker vouches for a whole cache of its stem's only mesh, whatever was
\* killed, failed or run again before.
THEOREM DoneIsWholeHolds == Spec => []DoneIsWhole
<1>1. Spec => []CacheInv
  BY InitCache, NextCache, PTL DEF Spec
<1>2. CacheInv => DoneIsWhole
  BY DEF CacheInv
<1> QED
  BY <1>1, <1>2, PTL

-----------------------------------------------------------------------------
(* The driver, and the files it leaves.                                     *)

\* A prediction as it is built up: no answer yet, one, or one per click.
Draft == [points : Meshes, faces : Meshes, history : Seq(Answers)]

\* The prediction of the first i clicks.
UpTo(p, i) == [p EXCEPT !.history = SubSeq(@, 1, i)]

\* The answer a prediction ends in.
LastAnswer(p) == p.history[Len(p.history)]

\* A mesh is being worked on, and its geometry is loaded.
InRound == pc \in {"predict"} \cup OutFiles

\* The files a round has written before the one that is open.
Before(f) ==
    CASE f = "logits" -> {}
      [] f = "face_idx" -> {"logits"}
      [] f = "metadata" -> {"logits", "face_idx"}
      [] f = "binary_mask" -> {"logits", "face_idx", "metadata"}

\* The part of TypeOK that is about the driver.
DriverTyped ==
    /\ mode \in Modes /\ proc \in {"none", "preprocess", "infer"}
    /\ launches \in 0..MaxLaunches /\ resume \in BOOLEAN
    /\ mesh_files \in Seq(Meshes)
    /\ pc \in {"next", "geometry", "predict"} \cup OutFiles
    /\ round \in Rounds
    /\ out \in [Stems -> [Rounds -> [OutFiles -> Whole \cup {Absent, Torn}]]]

\* How far the driver has got, and what it has in hand there.
Shape ==
    /\ pc # "next" => proc = "infer" /\ mesh_files # <<>>
    /\ proc = "infer" => launches \in 1..MaxLaunches
    /\ InRound => prediction \in Draft
    /\ pc \in OutFiles => Len(prediction.history) \in 1..NumClicks
    /\ mode # "interactive" => pc # "binary_mask"
    /\ mode = "interactive" =>
          /\ pc = "predict" => Len(prediction.history) = round - 1
          /\ pc \in OutFiles => Len(prediction.history) = round
    /\ pc \in OutFiles /\ (mode = "interactive" \/ pc # "metadata") =>
          LastAnswer(prediction) # NoMask

\* What this round, and in interactive mode the rounds before it, have written
\* is the prediction; an answer without masks has metadata only.
Written ==
    /\ pc \in OutFiles /\ LastAnswer(prediction) # NoMask =>
          \A f \in Before(pc) : out[stem][round][f] = prediction
    /\ mode = "interactive" /\ InRound =>
          \A i \in 1..(round - 1), f \in OutFiles :
              out[stem][i][f] = UpTo(prediction, i)

\* What is on disk, whoever left it there: metadata of an answer with masks has
\* its two arrays beside it, and a mask its metadata.
Left ==
    \A s \in Stems, i \in Rounds :
        /\ out[s][i].metadata \in Whole /\ LastAnswer(out[s][i].metadata) # NoMask =>
              out[s][i].logits # Absent /\ out[s][i].face_idx # Absent
        /\ out[s][i].binary_mask # Absent => out[s][i].metadata # Absent

\* A resumed command does not work on what was finished when it came there.
Fresh ==
    resume /\ pc # "next" =>
        /\ mode = "text_guided" => out[stem][1].metadata = Absent
        /\ mode = "interactive" => out[stem][NumClicks].binary_mask = Absent
        /\ mode \in {"full_shape", "cached"} /\ pc \in OutFiles =>
              (out[stem][round].metadata \in Whole =>
                  LastAnswer(out[stem][round].metadata) = NoMask)

DriverInv == DriverTyped /\ Shape /\ Written /\ Left /\ Fresh

\* Every mode has a round.
LEMMA ModeFacts ==
  ASSUME mode \in Modes
  PROVE  /\ mode \in {"full_shape", "cached", "text_guided", "interactive"}
         /\ NumRounds \in Nat \ {0}
         /\ 1 \in Rounds
         /\ mode = "interactive" => NumRounds = NumClicks
         /\ mode = "text_guided" => NumRounds = 1
<1>1. mode \in {"full_shape", "cached", "text_guided", "interactive"}
  BY BoundsAssumption
<1>2. /\ NumRounds \in Nat \ {0}
      /\ mode = "interactive" => NumRounds = NumClicks
      /\ mode = "text_guided" => NumRounds = 1
  BY <1>1, BoundsAssumption DEF NumRounds
<1> QED
  BY <1>1, <1>2 DEF Rounds

\* What is written is whole, and so is the prediction of the clicks before.
LEMMA DraftIsWhole ==
  ASSUME NEW p \in Draft, Len(p.history) \in 1..NumClicks
  PROVE  /\ p \in Whole
         /\ \A i \in 1..Len(p.history) :
               /\ UpTo(p, i) \in Whole
               /\ UpTo(p, i).history = SubSeq(p.history, 1, i)
         /\ UpTo(p, Len(p.history)) = p
<1> DEFINE h == p.history
<1>1. /\ h \in Seq(Answers) /\ Len(h) \in Nat
      /\ p = [points |-> p.points, faces |-> p.faces, history |-> h]
      /\ p.points \in Meshes /\ p.faces \in Meshes
  BY LenProperties DEF Draft
<1>2. \A q \in Seq(Answers) : Len(q) \in 1..NumClicks =>
          q \in UNION {[1..n -> Answers] : n \in 1..NumClicks}
  BY LenProperties
<1>3. p \in Whole
  BY <1>1, <1>2 DEF Whole
<1>4. ASSUME NEW i \in 1..Len(h)
      PROVE  /\ UpTo(p, i) \in Whole /\ UpTo(p, i).history = SubSeq(h, 1, i)
  <2>1. SubSeq(h, 1, i) \in Seq(Answers) /\ Len(SubSeq(h, 1, i)) = i
    BY <1>1, SubSeqProperties
  <2>2. UpTo(p, i) = [points |-> p.points, faces |-> p.faces, history |-> SubSeq(h, 1, i)]
    <3>1. \A x : [p EXCEPT !.history = x]
                   = [points |-> p.points, faces |-> p.faces, history |-> x]
      BY DEF Draft
    <3>2. UpTo(p, i) = [p EXCEPT !.history = SubSeq(h, 1, i)]
      BY DEF UpTo
    <3> QED
      BY <3>1, <3>2
  <2>3. i \in 1..NumClicks
    BY <1>1, BoundsAssumption
  <2>4. SubSeq(h, 1, i) \in UNION {[1..n -> Answers] : n \in 1..NumClicks}
    BY <1>2, <2>1, <2>3
  <2> QED
    BY <1>1, <2>2, <2>4 DEF Whole
<1>5. UpTo(p, Len(h)) = p
  BY <1>1, SubSeqFull DEF UpTo
<1> QED
  BY <1>3, <1>4, <1>5

\* The prediction of earlier clicks stays when one is added.
LEMMA UpToAppend ==
  ASSUME NEW p \in Draft, NEW a \in Answers, NEW i \in 1..Len(p.history)
  PROVE  UpTo([p EXCEPT !.history = Append(@, a)], i) = UpTo(p, i)
<1>1. p.history \in Seq(Answers) /\ Len(p.history) \in Nat
  BY LenProperties DEF Draft
<1>2. /\ Append(p.history, a) \in Seq(Answers)
      /\ Len(Append(p.history, a)) = Len(p.history) + 1
      /\ \A k \in 1..Len(p.history) : Append(p.history, a)[k] = p.history[k]
  BY <1>1, AppendProperties
<1>3. SubSeq(Append(p.history, a), 1, i) = SubSeq(p.history, 1, i)
  BY <1>1, <1>2, SubSeqProperties, SeqEqual, SMTT(30)
<1> QED
  BY <1>3 DEF UpTo, Draft

\* The stem at work is one of the stems.
LEMMA StemIs ==
  ASSUME DriverTyped, mesh_files # <<>>
  PROVE  stem \in Stems /\ Head(mesh_files) \in Meshes /\ Tail(mesh_files) \in Seq(Meshes)
BY HeadTailProperties, MeshFacts DEF DriverTyped, stem

\* The open file is written, or torn, or nothing happens to the output.
OutMoves ==
    \/ out' = out
    \/ /\ pc \in OutFiles
       /\ \E x \in {prediction, Torn} : out' = [out EXCEPT ![stem][round][pc] = x]

\* Whether a file is the one that is open.
IsOpen(s, i, f) == pc \in OutFiles /\ s = stem /\ i = round /\ f = pc

\* Only the open file changes, to the prediction or to a torn file.
LEMMA OnlyOpen ==
  ASSUME DriverInv, mode' = mode, OutMoves
  PROVE  /\ Rounds' = Rounds
         /\ out' \in [Stems -> [Rounds -> [OutFiles -> Whole \cup {Absent, Torn}]]]
         /\ \A s \in Stems, i \in Rounds, f \in OutFiles :
               out'[s][i][f] = out[s][i][f]
               \/ (IsOpen(s, i, f) /\ out'[s][i][f] \in {prediction, Torn})
<1>0. Rounds' = Rounds
  BY DEF Rounds, NumRounds
<1>1. CASE out' = out
  <2>1. out' \in [Stems -> [Rounds -> [OutFiles -> Whole \cup {Absent, Torn}]]]
    BY <1>1 DEF DriverInv, DriverTyped
  <2> QED
    BY <1>0, <1>1, <2>1
<1>2. CASE pc \in OutFiles
           /\ \E x \in {prediction, Torn} : out' = [out EXCEPT ![stem][round][pc] = x]
  <2>1. PICK x \in {prediction, Torn} : out' = [out EXCEPT ![stem][round][pc] = x]
    BY <1>2
  <2>2. stem \in Stems /\ round \in Rounds /\ pc \in OutFiles
    BY <1>2, StemIs DEF DriverInv, DriverTyped, Shape, OutFiles
  <2>3. prediction \in Whole
    BY <1>2, DraftIsWhole DEF DriverInv, Shape, InRound
  <2>4. x \in Whole \cup {Absent, Torn}
    BY <2>3
  <2>5. out \in [Stems -> [Rounds -> [OutFiles -> Whole \cup {Absent, Torn}]]]
    BY DEF DriverInv, DriverTyped
  <2>6. out' \in [Stems -> [Rounds -> [OutFiles -> Whole \cup {Absent, Torn}]]]
    BY <2>1, <2>2, <2>4, <2>5
  <2>7. \A s \in Stems, i \in Rounds, f \in OutFiles :
           out'[s][i][f] = IF s = stem /\ i = round /\ f = pc THEN x ELSE out[s][i][f]
    BY <2>1, <2>2, <2>5
  <2>8. \A s \in Stems, i \in Rounds, f \in OutFiles :
           out'[s][i][f] = out[s][i][f] \/ (IsOpen(s, i, f) /\ out'[s][i][f] = x)
    <3> SUFFICES ASSUME NEW s \in Stems, NEW i \in Rounds, NEW f \in OutFiles
                 PROVE  out'[s][i][f] = out[s][i][f]
                        \/ (IsOpen(s, i, f) /\ out'[s][i][f] = x)
      OBVIOUS
    <3>1. CASE s = stem /\ i = round /\ f = pc
      BY <2>2, <2>7, <3>1 DEF IsOpen
    <3>2. CASE ~(s = stem /\ i = round /\ f = pc)
      BY <2>7, <3>2
    <3> QED
      BY <3>1, <3>2
  <2> QED
    BY <1>0, <2>6, <2>8
<1> QED
  BY <1>1, <1>2 DEF OutMoves

\* What is on disk keeps its form.
LEMMA LeftKept ==
  ASSUME DriverInv, mode' = mode, OutMoves
  PROVE  Left'
<1>1. /\ Rounds' = Rounds
      /\ \A s \in Stems, i \in Rounds, f \in OutFiles :
               out'[s][i][f] = out[s][i][f]
               \/ (IsOpen(s, i, f) /\ out'[s][i][f] \in {prediction, Torn})
  BY OnlyOpen
<1>2. pc \in OutFiles => prediction \in Whole
  BY DraftIsWhole DEF DriverInv, Shape, InRound
<1>3. Torn # Absent /\ Torn \notin Whole /\ Absent \notin Whole
  BY FilesAssumption, MeshFacts
<1>4. \A s \in Stems, i \in Rounds, f \in OutFiles :
         out[s][i][f] # Absent => out'[s][i][f] # Absent
  BY <1>1, <1>2, <1>3 DEF IsOpen
<1> SUFFICES ASSUME NEW s \in Stems, NEW i \in Rounds
             PROVE  LET o == out'[s][i] IN
                    /\ o.metadata \in Whole /\ LastAnswer(o.metadata) # NoMask =>
                          o.logits # Absent /\ o.face_idx # Absent
                    /\ o.binary_mask # Absent => o.metadata # Absent
  BY <1>1 DEF Left
<1>5. /\ out[s][i].metadata \in Whole /\ LastAnswer(out[s][i].metadata) # NoMask =>
            out[s][i].logits # Absent /\ out[s][i].face_idx # Absent
      /\ out[s][i].binary_mask # Absent => out[s][i].metadata # Absent
  BY DEF DriverInv, Left
<1>6. {"logits", "face_idx", "metadata", "binary_mask"} = OutFiles
  BY DEF OutFiles
<1>7. CASE IsOpen(s, i, "metadata") /\ out'[s][i].metadata \in {prediction, Torn}
  <2>1. LastAnswer(prediction) # NoMask =>
           out[s][i].logits = prediction /\ out[s][i].face_idx = prediction
    BY <1>7 DEF DriverInv, Written, Before, IsOpen
  <2>2. prediction # Absent
    BY <1>2, <1>3, <1>7 DEF IsOpen
  <2> QED
    BY <1>3, <1>4, <1>6, <1>7, <2>1, <2>2
<1>8. CASE out'[s][i].metadata = out[s][i].metadata
  <2>1. CASE out'[s][i].binary_mask = out[s][i].binary_mask
    BY <1>4, <1>5, <1>6, <1>8, <2>1
  <2>2. CASE IsOpen(s, i, "binary_mask")
    <3>1. LastAnswer(prediction) # NoMask
      BY <2>2 DEF DriverInv, Shape, IsOpen
    <3>2. out[s][i].metadata = prediction /\ prediction # Absent
      BY <1>2, <1>3, <2>2, <3>1 DEF DriverInv, Written, Before, IsOpen
    <3> QED
      BY <1>4, <1>5, <1>6, <1>8, <3>2
  <2> QED
    BY <1>1, <1>6, <2>1, <2>2
<1> QED
  BY <1>1, <1>6, <1>7, <1>8

\* At the next mesh nothing is in hand.
LEMMA ToNext ==
  ASSUME DriverInv, mode' = mode, OutMoves, pc' = "next",
         proc' \in {"none", "preprocess", "infer"}, resume' \in BOOLEAN,
         launches' \in 0..MaxLaunches, proc' = "infer" => launches' \in 1..MaxLaunches,
         mesh_files' \in Seq(Meshes), round' \in Rounds
  PROVE  DriverInv'
<1>1. Left'
  BY LeftKept
<1>2. DriverTyped'
  BY OnlyOpen DEF DriverInv, DriverTyped
<1>3. "next" \notin {"predict"} \cup OutFiles
  BY DEF OutFiles
<1>4. Shape' /\ Written' /\ Fresh'
  BY <1>3 DEF Shape, Written, Fresh, InRound
<1> QED
  BY <1>1, <1>2, <1>4 DEF DriverInv

\* What a command lists are meshes of the directory.
LEMMA ListingIs ==
  ASSUME NEW files \in IF mode = "cached" THEN CachedFiles ELSE {MeshFiles}
  PROVE  Listing(files) \in Seq(Meshes)
<1> DEFINE listed == {j \in DOMAIN MeshFiles :
                         /\ cache[StemOf[MeshFiles[j]]].geom # Absent
                         /\ \A i \in DOMAIN MeshFiles :
                               StemOf[MeshFiles[i]] = StemOf[MeshFiles[j]] => i <= j}
           n == Cardinality(listed)
<1>1. MeshFiles \in Seq(Meshes) /\ DOMAIN MeshFiles = 1..Len(MeshFiles)
      /\ Len(MeshFiles) \in Nat
  BY MeshFilesAssumption, LenProperties
<1>2. listed \subseteq DOMAIN MeshFiles /\ n \in Nat
  <2>1. listed \subseteq 1..Len(MeshFiles)
    BY <1>1
  <2>2. IsFiniteSet(1..Len(MeshFiles))
    BY <1>1, FS_Interval
  <2> HIDE DEF listed
  <2> QED
    BY <1>1, <2>1, <2>2, FS_Subset, FS_CardinalityType
<1>3. files \in Seq(Meshes)
  <2>1. CASE mode = "cached"
    <3>1. files \in CachedFiles
      BY <2>1
    <3>2. PICK q \in [1..n -> listed] : files = [k \in DOMAIN q |-> MeshFiles[q[k]]]
      BY <3>1 DEF CachedFiles
    <3> HIDE DEF listed, n
    <3>3. DOMAIN q = 1..n /\ \A k \in 1..n : MeshFiles[q[k]] \in Meshes
      BY <1>2 DEF Meshes
    <3> QED
      BY <1>2, <3>2, <3>3
  <2>2. CASE mode # "cached"
    BY <1>1, <2>2
  <2> QED
    BY <2>1, <2>2
<1>4. ASSUME MaxSamples < Len(files)
      PROVE  SubSeq(files, 1, MaxSamples) \in Seq(Meshes)
  <2>1. MaxSamples \in Nat /\ \A i \in 1..MaxSamples : files[i] \in Meshes
    BY <1>3, <1>4, BoundsAssumption, LenProperties, ElementOfSeq
  <2> QED
    BY <2>1, SubSeqProperties
<1> QED
  BY <1>3, <1>4 DEF Listing

\* Nothing is in hand and nothing on disk at first.
LEMMA InitDriver == Init => DriverInv
<1> SUFFICES ASSUME Init PROVE DriverInv
  OBVIOUS
<1>1. /\ mode \in Modes /\ proc = "none" /\ launches = 0 /\ resume = TRUE
      /\ mesh_files = <<>> /\ pc = "next" /\ round = 1
      /\ out = [s \in Stems |-> [i \in Rounds |-> [f \in OutFiles |-> Absent]]]
  BY DEF Init
<1>2. 1 \in Rounds
  BY <1>1, ModeFacts
<1>3. DriverTyped
  BY <1>1, <1>2, BoundsAssumption DEF DriverTyped
<1>4. "next" \notin {"predict"} \cup OutFiles
  BY DEF OutFiles
<1>5. Shape /\ Written /\ Fresh
  BY <1>1, <1>4 DEF Shape, Written, Fresh, InRound
<1>6. Left
  BY <1>1, FilesAssumption DEF Left, OutFiles
<1> QED
  BY <1>3, <1>5, <1>6 DEF DriverInv

\* A command starts, or its cache is filled, or it ends or is killed: nothing is
\* in hand afterwards.
LEMMA CommandDriver ==
  ASSUME DriverInv,
         \/ \E again \in BOOLEAN : LaunchInference(again)
         \/ LaunchPreprocess
         \/ \E w \in Workers : PreprocessStep(w) \/ PreprocessFails(w)
         \/ ParentKilled \/ PreprocessEnds \/ Ends \/ Kill
  PROVE  DriverInv'
<1>1. /\ proc \in {"none", "preprocess", "infer"} /\ launches \in 0..MaxLaunches
      /\ resume \in BOOLEAN /\ mesh_files \in Seq(Meshes) /\ round \in Rounds
      /\ proc # "infer" => pc = "next"
      /\ proc = "infer" => launches \in 1..MaxLaunches
      /\ MaxLaunches \in Nat /\ 1 \in Rounds /\ <<>> \in Seq(Meshes)
  BY ModeFacts, BoundsAssumption DEF DriverInv, DriverTyped, Shape
<1>2. ASSUME NEW again \in BOOLEAN, LaunchInference(again) PROVE DriverInv'
  <2>1. /\ mode' = mode /\ out' = out /\ pc' = "next" /\ proc' = "infer"
        /\ resume' = again /\ round' = round
        /\ launches' = launches + 1 /\ launches < MaxLaunches
    BY <1>2 DEF LaunchInference, Launch
  <2>2. mesh_files' \in Seq(Meshes)
    <3>1. PICK files \in IF mode = "cached" THEN CachedFiles ELSE {MeshFiles} :
             mesh_files' = Listing(files)
      BY <1>2 DEF LaunchInference
    <3> QED
      BY <3>1, ListingIs
  <2>3. launches' \in 1..MaxLaunches /\ launches' \in 0..MaxLaunches
    BY <1>1, <2>1
  <2>4. /\ mesh_files' \in Seq(Meshes) /\ resume' \in BOOLEAN /\ round' \in Rounds
        /\ proc' \in {"none", "preprocess", "infer"}
    BY <1>1, <2>1, <2>2
  <2>5. OutMoves
    BY <2>1 DEF OutMoves
  <2> QED
    BY <2>1, <2>2, <2>3, <2>4, <2>5, ToNext
<1>3. CASE LaunchPreprocess
  <2>1. /\ mode' = mode /\ out' = out /\ pc' = pc /\ proc = "none"
        /\ proc' = "preprocess" /\ resume' = resume /\ mesh_files' = mesh_files
        /\ round' = round /\ launches' = launches + 1 /\ launches < MaxLaunches
    BY <1>3 DEF LaunchPreprocess, Launch
  <2>2. launches' \in 0..MaxLaunches
    BY <1>1, <2>1
  <2> QED
    BY <1>1, <2>1, <2>2, ToNext DEF OutMoves
<1>4. CASE \/ \E w \in Workers : PreprocessStep(w) \/ PreprocessFails(w)
           \/ ParentKilled
  <2>1. /\ mode' = mode /\ out' = out /\ pc' = pc /\ proc = "preprocess"
        /\ proc' = proc /\ resume' = resume /\ mesh_files' = mesh_files
        /\ round' = round /\ launches' = launches
    BY <1>4 DEF PreprocessStep, PreprocessFails, ParentKilled, driverVars
  <2> QED
    BY <1>1, <2>1, ToNext DEF OutMoves
<1>5. CASE PreprocessEnds
  <2>1. /\ mode' = mode /\ out' = out /\ pc' = pc /\ proc = "preprocess"
        /\ proc' = "none" /\ resume' = resume /\ mesh_files' = mesh_files
        /\ round' = round /\ launches' = launches
    BY <1>5 DEF PreprocessEnds, driverVars
  <2> QED
    BY <1>1, <2>1, ToNext DEF OutMoves
<1>6. CASE Ends
  <2>1. /\ mode' = mode /\ out' = out /\ pc' = "next" /\ proc' = "none"
        /\ resume' = resume /\ mesh_files' = <<>> /\ round' = 1
        /\ launches' = launches
    BY <1>6 DEF Ends, InferStep, Inferring, Gone
  <2> QED
    BY <1>1, <2>1, ToNext DEF OutMoves
<1>7. CASE Kill
  <2>1. /\ mode' = mode /\ pc' = "next" /\ proc' = "none"
        /\ resume' = resume /\ mesh_files' = <<>> /\ round' = 1
        /\ launches' = launches
    BY <1>7 DEF Kill, Gone
  <2>2. OutMoves
    BY <1>7 DEF Kill, OutTorn, OutMoves
  <2> QED
    BY <1>1, <2>1, <2>2, ToNext
<1> QED
  BY <1>2, <1>3, <1>4, <1>5, <1>6, <1>7

\* A mesh is skipped if it is finished and the command resumes, and taken up if
\* not.
LEMMA NextMeshDriver ==
  ASSUME DriverInv, NextMesh
  PROVE  DriverInv'
<1>1. /\ mode' = mode /\ proc = "infer" /\ proc' = proc /\ launches' = launches
      /\ resume' = resume /\ round' = round /\ prediction' = prediction /\ out' = out
      /\ pc = "next" /\ mesh_files # <<>>
  BY DEF NextMesh, InferStep, Inferring
<1>2. /\ proc' \in {"none", "preprocess", "infer"} /\ resume' \in BOOLEAN
      /\ launches' \in 0..MaxLaunches /\ launches' \in 1..MaxLaunches
      /\ round' \in Rounds /\ Tail(mesh_files) \in Seq(Meshes)
  BY <1>1, StemIs DEF DriverInv, DriverTyped, Shape
<1>3. CASE Skips(stem)
  <2>1. mesh_files' = Tail(mesh_files) /\ pc' = "next"
    BY <1>1, <1>3 DEF NextMesh
  <2> QED
    BY <1>1, <1>2, <2>1, ToNext DEF OutMoves
<1>4. CASE ~Skips(stem)
  <2>1. mesh_files' = mesh_files /\ pc' = "geometry" /\ "geometry" \notin OutFiles
        /\ stem' = stem /\ "geometry" # "predict"
    BY <1>4 DEF NextMesh, OutFiles, stem
  <2>2. DriverTyped'
    BY <1>1, <2>1 DEF DriverInv, DriverTyped, Rounds, NumRounds
  <2>3. Shape' /\ Written'
    BY <1>1, <1>2, <2>1 DEF Shape, Written, InRound
  <2>4. Left'
    BY <1>1 DEF DriverInv, Left, Rounds, NumRounds
  <2>5. Fresh'
    <3>1. resume => ~Finished(stem)
      BY <1>4 DEF Skips
    <3>2. stem \in Stems /\ (mode = "interactive" => NumClicks \in Rounds)
      BY <1>1, StemIs, ModeFacts, BoundsAssumption DEF DriverInv, DriverTyped, Rounds
    <3>3. resume /\ mode = "text_guided" => out[stem][1].metadata = Absent
      BY <3>1 DEF Finished, Exists
    <3>4. resume /\ mode = "interactive" => out[stem][NumClicks].binary_mask = Absent
      BY <3>1, <3>2 DEF Finished, Exists, DriverInv, Left
    <3> QED
      BY <1>1, <2>1, <3>3, <3>4 DEF Fresh
  <2> QED
    BY <2>2, <2>3, <2>4, <2>5 DEF DriverInv
<1> QED
  BY <1>3, <1>4

\* The geometry is loaded, or it is not and the mesh is left out.
LEMMA GeometryDriver ==
  ASSUME DriverInv, LoadGeometry \/ GeometryFails
  PROVE  DriverInv'
<1>1. /\ mode' = mode /\ proc = "infer" /\ proc' = proc /\ launches' = launches
      /\ resume' = resume /\ out' = out /\ pc = "geometry"
  BY DEF LoadGeometry, GeometryFails, InferStep, Inferring
<1>2. /\ mesh_files # <<>> /\ launches' \in 1..MaxLaunches
      /\ launches' \in 0..MaxLaunches /\ resume' \in BOOLEAN
      /\ round \in Rounds /\ Tail(mesh_files) \in Seq(Meshes)
  BY <1>1, StemIs DEF DriverInv, DriverTyped, Shape
<1>3. CASE GeometryFails
  <2>1. mesh_files' = Tail(mesh_files) /\ pc' = "next" /\ round' = round
    BY <1>3 DEF GeometryFails, NextMeshFrom
  <2> QED
    BY <1>1, <1>2, <2>1, ToNext DEF OutMoves
<1>4. CASE LoadGeometry
  <2>1. /\ Readable /\ pc' = "predict" /\ round' = 1 /\ mesh_files' = mesh_files
        /\ prediction' = [points |-> source.points, faces |-> source.faces,
                          history |-> <<>>]
        /\ stem' = stem /\ "predict" \notin OutFiles
    BY <1>4 DEF LoadGeometry, OutFiles, stem
  <2>2. prediction' \in Draft /\ prediction'.history = <<>>
    BY <2>1 DEF Readable, Draft
  <2>3. 1 \in Rounds
    BY ModeFacts DEF DriverInv, DriverTyped
  <2>4. DriverTyped'
    BY <1>1, <2>1, <2>3 DEF DriverInv, DriverTyped, Rounds, NumRounds
  <2>5. Shape'
    BY <1>1, <1>2, <2>1, <2>2 DEF Shape, InRound
  <2>6. Written'
    BY <2>1 DEF Written
  <2>7. Left'
    BY <1>1 DEF DriverInv, Left, Rounds, NumRounds
  <2>8. Fresh'
    BY <1>1, <2>1 DEF DriverInv, Fresh
  <2> QED
    BY <2>4, <2>5, <2>6, <2>7, <2>8 DEF DriverInv
<1> QED
  BY <1>3, <1>4

\* The next round begins with the prediction in hand: in interactive mode its
\* round is on disk, and elsewhere nothing is asked of it.
LEMMA NextRoundDriver ==
  ASSUME DriverInv, InRound, NextRound, OutMoves,
         UNCHANGED <<mode, proc, launches, resume, prediction>>,
         mode = "interactive" =>
             /\ pc = "binary_mask"
             /\ out' = [out EXCEPT ![stem][round][pc] = prediction]
  PROVE  DriverInv'
<1>0. pc # "next"
  BY DEF InRound, OutFiles
<1>1. /\ mode' = mode /\ proc = "infer" /\ proc' = proc /\ launches' = launches
      /\ resume' = resume /\ prediction' = prediction /\ mesh_files # <<>>
      /\ launches' \in 1..MaxLaunches /\ launches' \in 0..MaxLaunches
      /\ resume' \in BOOLEAN /\ round \in Rounds /\ Tail(mesh_files) \in Seq(Meshes)
      /\ stem \in Stems /\ prediction \in Draft
  BY <1>0, StemIs DEF DriverInv, DriverTyped, Shape
<1>2. CASE ~(round < NumRounds)
  <2>1. mesh_files' = Tail(mesh_files) /\ pc' = "next" /\ round' = round
    BY <1>2 DEF NextRound, NextMeshFrom
  <2> QED
    BY <1>1, <2>1, ToNext
<1>3. CASE round < NumRounds
  <2>1. /\ mesh_files' = mesh_files /\ pc' = "predict" /\ round' = round + 1
        /\ stem' = stem /\ "predict" \notin OutFiles
    BY <1>3 DEF NextRound, OutFiles, stem
  <2>2. /\ NumRounds \in Nat /\ round \in 1..NumRounds
        /\ mode # "text_guided" /\ (mode = "interactive" => NumRounds = NumClicks)
    BY <1>1, <1>3, ModeFacts DEF Rounds, DriverInv, DriverTyped
  <2>3. round' \in Rounds /\ Rounds' = Rounds
    <3>1. Rounds' = Rounds
      BY <1>1 DEF Rounds, NumRounds
    <3>2. round + 1 \in 1..NumRounds
      BY <1>3, <2>2
    <3> QED
      BY <2>1, <3>1, <3>2 DEF Rounds
  <2>4. DriverTyped'
    BY <1>1, <2>1, <2>3, OnlyOpen DEF DriverInv, DriverTyped
  <2>5. Shape'
    <3>1. mode = "interactive" => Len(prediction.history) = round
      BY DEF DriverInv, Shape, OutFiles
    <3>2. mode = "interactive" => Len(prediction.history) = round' - 1
      BY <2>1, <2>2, <3>1
    <3> QED
      BY <1>1, <2>1, <3>2 DEF Shape, InRound
  <2>6. Written'
    <3> SUFFICES ASSUME mode = "interactive", NEW i \in 1..round, NEW f \in OutFiles
                 PROVE  out'[stem][i][f] = UpTo(prediction, i)
      <4>1. 1..(round' - 1) = 1..round
        BY <2>1, <2>2
      <4> QED
        BY <1>1, <2>1, <4>1 DEF Written
    <3>1. /\ pc = "binary_mask" /\ "binary_mask" \in OutFiles
          /\ out' = [out EXCEPT ![stem][round]["binary_mask"] = prediction]
          /\ i \in Rounds
      BY <2>2 DEF OutFiles, Rounds
    <3>2. /\ Len(prediction.history) = round /\ LastAnswer(prediction) # NoMask
          /\ Len(prediction.history) \in 1..NumClicks
      BY <3>1 DEF DriverInv, Shape
    <3>3. out'[stem][i][f] = IF i = round /\ f = "binary_mask" THEN prediction
                             ELSE out[stem][i][f]
      BY <1>1, <3>1 DEF DriverInv, DriverTyped
    <3>4. CASE i < round
      <4>1. i \in 1..(round - 1)
        BY <2>2, <3>4
      <4>2. out[stem][i][f] = UpTo(prediction, i)
        BY <4>1 DEF DriverInv, Written, InRound
      <4> QED
        BY <2>2, <3>3, <3>4, <4>2
    <3>5. CASE i = round
      <4>1. UpTo(prediction, round) = prediction
        BY <1>1, <3>2, DraftIsWhole
      <4>2. f # "binary_mask" => f \in Before("binary_mask")
        BY DEF Before, OutFiles
      <4>3. f # "binary_mask" => out[stem][round][f] = prediction
        BY <3>1, <3>2, <4>2 DEF DriverInv, Written
      <4> QED
        BY <3>3, <3>5, <4>1, <4>3
    <3> QED
      BY <2>2, <3>4, <3>5
  <2>7. Left'
    BY <1>1, LeftKept
  <2>8. Fresh'
    <3> SUFFICES ASSUME resume, mode = "interactive"
                 PROVE  out'[stem][NumClicks].binary_mask = Absent
      BY <1>1, <2>1, <2>2 DEF Fresh
    <3>1. out[stem][NumClicks].binary_mask = Absent
      BY <1>0 DEF DriverInv, Fresh
    <3>2. NumClicks \in Rounds /\ "binary_mask" \in OutFiles /\ NumClicks # round
      BY <1>3, <2>2, BoundsAssumption DEF Rounds, OutFiles
    <3> QED
      BY <1>1, <3>1, <3>2, OnlyOpen DEF IsOpen
  <2> QED
    BY <2>4, <2>5, <2>6, <2>7, <2>8 DEF DriverInv
<1> QED
  BY <1>2, <1>3

\* A finished round of full-shape inference is skipped.
LEMMA SkipDriver ==
  ASSUME DriverInv, SkipRound
  PROVE  DriverInv'
<1>1. /\ InRound /\ NextRound /\ OutMoves
      /\ UNCHANGED <<mode, proc, launches, resume, prediction>>
      /\ mode # "interactive"
  BY DEF SkipRound, InferStep, Inferring, InRound, OutMoves, RoundFinished
<1> QED
  BY <1>1, NextRoundDriver

\* A round that fails may leave its open file torn.
LEMMA FailDriver ==
  ASSUME DriverInv, RoundFails
  PROVE  DriverInv'
<1>1. /\ InRound /\ OutMoves
      /\ UNCHANGED <<mode, proc, launches, resume, prediction>>
  BY DEF RoundFails, Inferring, InRound, OutMoves, OutTorn
<1>2. CASE mode \in {"full_shape", "cached"}
  BY <1>1, <1>2, NextRoundDriver DEF RoundFails
<1>3. CASE mode \notin {"full_shape", "cached"}
  <2>1. mesh_files' = Tail(mesh_files) /\ pc' = "next" /\ round' = round
    BY <1>3 DEF RoundFails, NextMeshFrom
  <2>2. pc # "next"
    BY <1>1 DEF InRound, OutFiles
  <2>3. /\ proc = "infer" /\ mesh_files # <<>> /\ launches \in 1..MaxLaunches
        /\ launches \in 0..MaxLaunches /\ resume \in BOOLEAN /\ round \in Rounds
        /\ Tail(mesh_files) \in Seq(Meshes)
    BY <2>2, StemIs DEF DriverInv, DriverTyped, Shape
  <2> QED
    BY <1>1, <2>1, <2>3, ToNext
<1> QED
  BY <1>2, <1>3

\* An answer is added to the prediction; without masks an interactive command
\* leaves the mesh out.
LEMMA PredictDriver ==
  ASSUME DriverInv, NEW a \in {launches, NoMask}, Predict(a)
  PROVE  DriverInv'
<1>1. /\ mode' = mode /\ proc = "infer" /\ proc' = proc /\ launches' = launches
      /\ resume' = resume /\ out' = out /\ pc = "predict" /\ InRound /\ OutMoves
  BY DEF Predict, InferStep, Inferring, InRound, OutMoves
<1>2. /\ mesh_files # <<>> /\ launches \in 1..MaxLaunches
      /\ launches' \in 0..MaxLaunches /\ resume' \in BOOLEAN
      /\ round \in Rounds /\ Tail(mesh_files) \in Seq(Meshes)
      /\ prediction \in Draft /\ stem \in Stems
      /\ mode = "interactive" => Len(prediction.history) = round - 1
  BY <1>1, StemIs DEF DriverInv, DriverTyped, Shape
<1>3. a \in Answers
  BY <1>2 DEF Answers
<1>4. CASE mode = "interactive" /\ a = NoMask
  <2>1. mesh_files' = Tail(mesh_files) /\ pc' = "next" /\ round' = round
    BY <1>4 DEF Predict, NextMeshFrom
  <2> QED
    BY <1>1, <1>2, <2>1, ToNext
<1>5. CASE ~(mode = "interactive" /\ a = NoMask)
  <2> DEFINE h == prediction.history
             g == IF mode = "interactive" THEN Append(h, a) ELSE <<a>>
  <2>1. /\ pc' = IF a = NoMask THEN "metadata" ELSE "logits"
        /\ prediction' = [prediction EXCEPT !.history = g]
        /\ mesh_files' = mesh_files /\ round' = round /\ stem' = stem
    BY <1>5 DEF Predict, stem
  <2>2. /\ h \in Seq(Answers) /\ Len(h) \in Nat
        /\ Append(h, a) \in Seq(Answers) /\ Len(Append(h, a)) = Len(h) + 1
        /\ Append(h, a)[Len(h) + 1] = a
    BY <1>2, <1>3, AppendProperties, LenProperties DEF Draft
  <2>3. g \in Seq(Answers) /\ g[Len(g)] = a
        /\ Len(g) = IF mode = "interactive" THEN Len(h) + 1 ELSE 1
    BY <1>3, <2>2
  <2> HIDE DEF g
  <2>4. prediction' \in Draft /\ prediction'.history = g
    BY <1>2, <2>1, <2>3 DEF Draft
  <2>5. /\ NumRounds \in Nat /\ round \in 1..NumRounds
        /\ mode = "interactive" => NumRounds = NumClicks
    BY <1>2, ModeFacts DEF Rounds, DriverInv, DriverTyped
  <2>6. /\ Len(g) \in 1..NumClicks
        /\ mode = "interactive" => Len(g) = round
    BY <1>2, <2>2, <2>3, <2>5, BoundsAssumption
  <2>7. /\ pc' \in OutFiles /\ pc' \in {"metadata", "logits"}
        /\ pc' # "metadata" => a # NoMask
    BY <2>1 DEF OutFiles
  <2>8. DriverTyped'
    BY <1>1, <1>2, <2>1, <2>7 DEF DriverInv, DriverTyped, Rounds, NumRounds
  <2>9. Shape'
    BY <1>1, <1>2, <1>5, <2>1, <2>3, <2>4, <2>6, <2>7 DEF Shape, InRound, LastAnswer
  <2>10. Written'
    <3>1. LastAnswer(prediction') # NoMask => Before(pc') = {}
      BY <2>1, <2>3, <2>4 DEF LastAnswer, Before
    <3>2. ASSUME mode = "interactive", NEW i \in 1..(round - 1), NEW f \in OutFiles
          PROVE  out'[stem][i][f] = UpTo(prediction', i)
      <4>1. out[stem][i][f] = UpTo(prediction, i)
        BY <1>1, <3>2 DEF DriverInv, Written
      <4>2. i \in 1..Len(h) /\ prediction' = [prediction EXCEPT !.history = Append(@, a)]
        BY <1>2, <2>1, <3>2 DEF g
      <4> QED
        BY <1>1, <1>2, <1>3, <4>1, <4>2, UpToAppend
    <3> QED
      BY <1>1, <2>1, <3>1, <3>2 DEF Written
  <2>11. Left'
    BY <1>1, LeftKept
  <2>12. Fresh'
    <3>1. ASSUME resume, mode \in {"full_shape", "cached"},
                 out[stem][round].metadata \in Whole
          PROVE  LastAnswer(out[stem][round].metadata) = NoMask
      <4>1. ~IsCompletedOutput(stem, round)
        BY <3>1 DEF Predict, RoundFinished
      <4> QED
        BY <1>2, <3>1, <4>1, FilesAssumption
           DEF IsCompletedOutput, Exists, DriverInv, Left
    <3> QED
      BY <1>1, <2>1, <3>1 DEF DriverInv, Fresh
  <2> QED
    BY <2>8, <2>9, <2>10, <2>11, <2>12 DEF DriverInv
<1> QED
  BY <1>4, <1>5

\* A file is written, and the next one is due, or the next round.
LEMMA WriteDriver ==
  ASSUME DriverInv, Write
  PROVE  DriverInv'
<1>1. /\ mode' = mode /\ proc = "infer" /\ proc' = proc /\ launches' = launches
      /\ resume' = resume /\ prediction' = prediction /\ pc \in OutFiles /\ InRound
      /\ out' = [out EXCEPT ![stem][round][pc] = prediction]
  BY DEF Write, InferStep, Inferring, InRound
<1>2. OutMoves
  BY <1>1 DEF OutMoves
<1>3. CASE After(pc) = "end"
  <2>1. mode = "interactive" => pc = "binary_mask"
    BY <1>1, <1>3 DEF After, OutFiles
  <2> QED
    BY <1>1, <1>2, <1>3, <2>1, NextRoundDriver DEF Write
<1>4. CASE After(pc) # "end"
  <2>1. /\ pc' = After(pc) /\ mesh_files' = mesh_files /\ round' = round
        /\ stem' = stem
    BY <1>4 DEF Write, stem
  <2>2. /\ mesh_files # <<>> /\ launches \in 1..MaxLaunches /\ round \in Rounds
        /\ prediction \in Draft /\ stem \in Stems
        /\ Len(prediction.history) \in 1..NumClicks
        /\ mode = "interactive" => Len(prediction.history) = round
        /\ mode # "interactive" => pc # "binary_mask"
        /\ mode = "interactive" \/ pc # "metadata" => LastAnswer(prediction) # NoMask
    BY <1>1, StemIs DEF DriverInv, DriverTyped, Shape, OutFiles
  <2>3. /\ pc' \in OutFiles /\ pc' \in {"face_idx", "metadata", "binary_mask"}
        /\ Before(pc') = Before(pc) \cup {pc}
        /\ pc' = "binary_mask" => mode = "interactive" /\ pc = "metadata"
        /\ pc = "metadata" => mode = "interactive"
    BY <1>1, <1>4, <2>1 DEF After, OutFiles, Before
  <2>4. /\ \A s \in Stems, i \in Rounds, f \in OutFiles :
              out'[s][i][f] = IF s = stem /\ i = round /\ f = pc THEN prediction
                              ELSE out[s][i][f]
    BY <1>1, <2>2 DEF DriverInv, DriverTyped
  <2>5. DriverTyped'
    BY <1>1, <1>2, <2>1, <2>2, <2>3, OnlyOpen DEF DriverInv, DriverTyped
  <2>6. Shape'
    BY <1>1, <2>1, <2>2, <2>3 DEF Shape, InRound
  <2>7. Written'
    <3>1. Before(pc') \subseteq OutFiles
      BY <2>3 DEF Before, OutFiles
    <3>2. ASSUME LastAnswer(prediction) # NoMask, NEW f \in Before(pc')
          PROVE  out'[stem][round][f] = prediction
      <4>1. f \in OutFiles /\ (f = pc \/ f \in Before(pc))
        BY <2>3, <3>1, <3>2
      <4>2. f \in Before(pc) => out[stem][round][f] = prediction
        BY <1>1, <3>2 DEF DriverInv, Written
      <4> QED
        BY <2>2, <2>4, <4>1, <4>2
    <3>3. ASSUME mode = "interactive", NEW i \in 1..(round - 1), NEW f \in OutFiles
          PROVE  out'[stem][i][f] = UpTo(prediction, i)
      <4>1. out[stem][i][f] = UpTo(prediction, i)
        BY <1>1, <3>3 DEF DriverInv, Written
      <4>2. i \in Rounds /\ i # round
        BY <2>2, ModeFacts DEF DriverInv, DriverTyped, Rounds
      <4> QED
        BY <2>2, <2>4, <4>1, <4>2
    <3> QED
      BY <1>1, <2>1, <3>2, <3>3 DEF Written
  <2>8. Left'
    BY <1>1, <1>2, LeftKept
  <2>9. Fresh'
    <3>1. pc # "next" /\ {"metadata", "binary_mask"} \subseteq OutFiles
      BY <1>1 DEF OutFiles
    <3>2. mode = "text_guided" => pc # "metadata" /\ 1 \in Rounds
      BY <2>3, ModeFacts DEF DriverInv, DriverTyped
    <3>3. mode = "interactive" => pc # "binary_mask" /\ NumClicks \in Rounds
      BY <1>1, <1>4, ModeFacts, BoundsAssumption DEF After, DriverInv, DriverTyped, Rounds
    <3>4. mode \in {"full_shape", "cached"} => pc # "metadata"
      BY <2>3
    <3>5. ASSUME resume
          PROVE  /\ mode = "text_guided" => out'[stem][1].metadata = Absent
                 /\ mode = "interactive" => out'[stem][NumClicks].binary_mask = Absent
      BY <2>2, <2>4, <3>1, <3>2, <3>3, <3>5 DEF DriverInv, Fresh
    <3>6. ASSUME resume, mode \in {"full_shape", "cached"}
          PROVE  out'[stem][round].metadata \in Whole =>
                     LastAnswer(out'[stem][round].metadata) = NoMask
      <4>1. out'[stem][round].metadata = out[stem][round].metadata
        BY <2>2, <2>4, <3>1, <3>4, <3>6
      <4> QED
        BY <1>1, <3>1, <3>6, <4>1 DEF DriverInv, Fresh
    <3> QED
      BY <1>1, <2>1, <3>5, <3>6 DEF Fresh
  <2> QED
    BY <2>5, <2>6, <2>7, <2>8, <2>9 DEF DriverInv
<1> QED
  BY <1>3, <1>4

\* Every step keeps the invariant of the driver.
LEMMA NextDriver == DriverInv /\ [Next]_vars => DriverInv'
<1> SUFFICES ASSUME DriverInv, [Next]_vars PROVE DriverInv'
  OBVIOUS
<1>1. CASE UNCHANGED vars
  <2>1. /\ mode' = mode /\ proc' = proc /\ launches' = launches /\ resume' = resume
        /\ mesh_files' = mesh_files /\ pc' = pc /\ round' = round
        /\ prediction' = prediction /\ out' = out /\ stem' = stem /\ Rounds' = Rounds
    BY <1>1 DEF vars, stem, Rounds, NumRounds
  <2>2. DriverTyped' /\ Shape' /\ Written' /\ Left' /\ Fresh'
    BY <2>1 DEF DriverInv, DriverTyped, Shape, Written, Left, Fresh, InRound
  <2> QED
    BY <2>2 DEF DriverInv
<1>2. CASE Next
  <2>1. CASE \/ \E again \in BOOLEAN : LaunchInference(again)
             \/ LaunchPreprocess
             \/ \E w \in Workers : PreprocessStep(w) \/ PreprocessFails(w)
             \/ ParentKilled \/ PreprocessEnds \/ Ends \/ Kill
    BY <2>1, CommandDriver
  <2>2. CASE NextMesh \/ LoadGeometry \/ GeometryFails \/ SkipRound \/ Write \/ RoundFails
    BY <2>2, NextMeshDriver, GeometryDriver, SkipDriver, WriteDriver, FailDriver
  <2>3. CASE Predict(launches) \/ Predict(NoMask)
    BY <2>3, PredictDriver
  <2> QED
    BY <1>2, <2>1, <2>2, <2>3 DEF Next
<1> QED
  BY <1>1, <1>2

\* Both invariants hold throughout.
THEOREM InferenceSafety == Spec => [](CacheInv /\ DriverInv)
<1>1. Init => CacheInv /\ DriverInv
  BY InitCache, InitDriver
<1>2. (CacheInv /\ DriverInv) /\ [Next]_vars => (CacheInv /\ DriverInv)'
  BY NextCache, NextDriver
<1> QED
  BY <1>1, <1>2, PTL DEF Spec

\* What a file holds is a prediction that was made, or it is absent or torn, and
\* the commands keep their types.
THEOREM TypeCorrect == Spec => []TypeOK
<1>1. CacheInv /\ DriverInv => TypeOK
  BY DEF CacheInv, DriverInv, CacheTyped, DriverTyped, TypeOK
<1> QED
  BY <1>1, InferenceSafety, PTL

-----------------------------------------------------------------------------
(* What becomes finished, and what stays.                                   *)

\* No step changes the mode, and none does more to the output than to write or
\* tear the open file.
LEMMA StepMoves ==
  ASSUME [Next]_vars
  PROVE  mode' = mode /\ OutMoves
<1>1. CASE UNCHANGED vars
  BY <1>1 DEF vars, OutMoves
<1>2. CASE \/ \E again \in BOOLEAN : LaunchInference(again)
           \/ LaunchPreprocess
           \/ \E w \in Workers : PreprocessStep(w) \/ PreprocessFails(w)
           \/ ParentKilled \/ PreprocessEnds
  BY <1>2 DEF LaunchInference, Launch, LaunchPreprocess, PreprocessStep,
              PreprocessFails, ParentKilled, PreprocessEnds, driverVars, OutMoves
<1>3. CASE \/ NextMesh \/ Ends \/ LoadGeometry \/ GeometryFails \/ SkipRound
           \/ Predict(launches) \/ Predict(NoMask)
  BY <1>3 DEF NextMesh, Ends, LoadGeometry, GeometryFails, SkipRound, Predict,
              InferStep, Inferring, OutMoves
<1>4. CASE Write
  BY <1>4 DEF Write, InferStep, Inferring, OutMoves
<1>5. CASE RoundFails
  BY <1>5 DEF RoundFails, Inferring, OutTorn, OutMoves
<1>6. CASE Kill
  BY <1>6 DEF Kill, OutTorn, OutMoves
<1> QED
  BY <1>1, <1>2, <1>3, <1>4, <1>5, <1>6 DEF Next

\* Rounds of full-shape inference: the metadata is written last.
LEMMA RoundBecomesWhole ==
  ASSUME DriverInv, mode' = mode, OutMoves, NEW s \in Stems, NEW i \in Rounds,
         ~NoMasksIn(prediction), ~NoMasksIn(out'[s][i].metadata),
         ~RoundFinished(s, i), RoundFinished(s, i)'
  PROVE  Agree(out'[s][i])
<1> DEFINE old == out[s][i]
           new == out'[s][i]
<1>1. /\ new.metadata \notin {Absent, Torn}
      /\ new.logits # Absent /\ new.face_idx # Absent
      /\ ~(/\ old.metadata \notin {Absent, Torn}
           /\ old.logits # Absent /\ old.face_idx # Absent)
  BY DEF RoundFinished, IsCompletedOutput, Exists
<1>2. {"logits", "face_idx", "metadata"} \subseteq OutFiles
  BY DEF OutFiles
<1>3. /\ out' \in [Stems -> [Rounds -> [OutFiles -> Whole \cup {Absent, Torn}]]]
      /\ \A f \in OutFiles : new[f] = old[f]
             \/ (IsOpen(s, i, f) /\ new[f] \in {prediction, Torn})
  BY OnlyOpen
<1>4. new.metadata \in Whole /\ LastAnswer(new.metadata) # NoMask
  <2>1. new.metadata \in Whole
    BY <1>1, <1>2, <1>3
  <2> QED
    BY <2>1 DEF NoMasksIn, LastAnswer
<1>5. IsOpen(s, i, "metadata") /\ new.metadata = prediction
  <2>1. new.metadata # old.metadata
    BY <1>1, <1>4 DEF DriverInv, Left
  <2> QED
    BY <1>1, <1>2, <1>3, <2>1
<1>6. prediction \in Whole /\ LastAnswer(prediction) # NoMask
  BY <1>4, <1>5
<1>7. old.logits = prediction /\ old.face_idx = prediction
  BY <1>5, <1>6 DEF DriverInv, Written, Before, IsOpen
<1>8. new.logits = old.logits /\ new.face_idx = old.face_idx
  BY <1>2, <1>3, <1>5 DEF IsOpen
<1> QED
  BY <1>5, <1>6, <1>7, <1>8 DEF Agree

\* The one round of text-guided inference: metadata that is there counts, torn
\* or not, and what it counts for is whole.
LEMMA TextBecomesWhole ==
  ASSUME DriverInv, mode' = mode, OutMoves, mode = "text_guided",
         NEW s \in Stems, NEW i \in Rounds,
         ~NoMasksIn(prediction), ~Finished(s), Finished(s)'
  PROVE  /\ out'[s][i].metadata \in {prediction, Torn}
         /\ Agree([out'[s][i] EXCEPT !.metadata = prediction])
<1> DEFINE old == out[s][i]
           new == out'[s][i]
<1>1. i = 1
  BY ModeFacts DEF DriverInv, DriverTyped, Rounds
<1>2. old.metadata = Absent /\ new.metadata # Absent
  BY <1>1 DEF Finished, Exists
<1>3. {"logits", "face_idx", "metadata"} \subseteq OutFiles
  BY DEF OutFiles
<1>4. /\ out' \in [Stems -> [Rounds -> [OutFiles -> Whole \cup {Absent, Torn}]]]
      /\ \A f \in OutFiles : new[f] = old[f]
             \/ (IsOpen(s, i, f) /\ new[f] \in {prediction, Torn})
  BY OnlyOpen
<1>5. IsOpen(s, i, "metadata") /\ new.metadata \in {prediction, Torn}
  BY <1>2, <1>3, <1>4
<1>6. prediction \in Whole
  BY <1>5, DraftIsWhole DEF DriverInv, Shape, InRound, IsOpen
<1>7. LastAnswer(prediction) # NoMask
  BY <1>6 DEF NoMasksIn, LastAnswer
<1>8. old.logits = prediction /\ old.face_idx = prediction
  BY <1>5, <1>7 DEF DriverInv, Written, Before, IsOpen
<1>9. new.logits = prediction /\ new.face_idx = prediction
  BY <1>3, <1>4, <1>5, <1>8 DEF IsOpen
<1>10. new \in [OutFiles -> Whole \cup {Absent, Torn}]
  BY <1>4
<1>11. LET o == [new EXCEPT !.metadata = prediction]
       IN  o.logits = prediction /\ o.face_idx = prediction /\ o.metadata = prediction
  BY <1>3, <1>9, <1>10
<1> QED
  BY <1>5, <1>6, <1>11 DEF Agree

\* The clicks of interactive inference: when the last mask is there, every click
\* is whole, and builds on the answers to the clicks before it.
LEMMA ClicksBecomeWhole ==
  ASSUME DriverInv, mode' = mode, OutMoves, mode = "interactive",
         NEW s \in Stems, NEW i \in Rounds, ~Finished(s), Finished(s)'
  PROVE  /\ Agree(out'[s][i])
         /\ out'[s][i].metadata.history = SubSeq(prediction.history, 1, i)
         /\ out'[s][i].binary_mask \in {out'[s][i].logits} \cup
                (IF i = NumClicks THEN {Torn} ELSE {})
<1> DEFINE new == out'[s][i]
           n == NumClicks
<1>1. NumRounds = n /\ n \in Nat \ {0} /\ n \in Rounds /\ i \in 1..n
  BY ModeFacts, BoundsAssumption DEF DriverInv, DriverTyped, Rounds
<1>2. /\ out[s][n].metadata = Absent \/ out[s][n].binary_mask = Absent
      /\ out'[s][n].metadata # Absent /\ out'[s][n].binary_mask # Absent
  BY DEF Finished, Exists
<1>3. OutFiles = {"logits", "face_idx", "metadata", "binary_mask"}
  BY DEF OutFiles
<1>4. \A j \in Rounds, f \in OutFiles : out'[s][j][f] = out[s][j][f]
             \/ (IsOpen(s, j, f) /\ out'[s][j][f] \in {prediction, Torn})
  BY OnlyOpen
<1>5. out[s][n].binary_mask = Absent
  BY <1>1, <1>2 DEF DriverInv, Left
<1>6. /\ IsOpen(s, n, "binary_mask")
      /\ out'[s][n].binary_mask \in {prediction, Torn}
  BY <1>1, <1>2, <1>3, <1>4, <1>5
<1>7. /\ pc = "binary_mask" /\ pc \in OutFiles /\ s = stem /\ round = n /\ InRound
      /\ prediction \in Draft /\ Len(prediction.history) = n
      /\ LastAnswer(prediction) # NoMask
  BY <1>3, <1>6 DEF IsOpen, DriverInv, Shape, InRound
<1>8. CASE i < n
  <2>1. i \in 1..(round - 1)
    BY <1>1, <1>7, <1>8
  <2>2. \A f \in OutFiles : out[s][i][f] = UpTo(prediction, i)
    BY <1>7, <2>1 DEF DriverInv, Written
  <2>3. \A f \in OutFiles : new[f] = UpTo(prediction, i)
    BY <1>4, <1>7, <1>8, <2>2 DEF IsOpen
  <2>4. /\ UpTo(prediction, i) \in Whole
        /\ UpTo(prediction, i).history = SubSeq(prediction.history, 1, i)
    BY <1>1, <1>7, DraftIsWhole
  <2> QED
    BY <1>3, <2>3, <2>4 DEF Agree
<1>9. CASE i = n
  <2>1. /\ prediction \in Whole
        /\ prediction.history = SubSeq(prediction.history, 1, n)
    BY <1>1, <1>7, DraftIsWhole
  <2>2. \A f \in {"logits", "face_idx", "metadata"} : out[s][n][f] = prediction
    BY <1>7 DEF DriverInv, Written, Before
  <2>3. \A f \in {"logits", "face_idx", "metadata"} : new[f] = prediction
    BY <1>1, <1>3, <1>4, <1>7, <1>9, <2>2 DEF IsOpen
  <2> QED
    BY <1>6, <1>9, <2>1, <2>3 DEF Agree
<1> QED
  BY <1>1, <1>8, <1>9

\* What becomes finished is whole and of one prediction, in interactive mode
\* each click's of the answer to the click before.
THEOREM FinishedOutputIsWhole == Spec => FinishedIsWhole
<1> DEFINE Becomes ==
      \A s \in Stems, i \in Rounds :
         LET old == out[s][i]
             new == out'[s][i]
         IN  ~NoMasksIn(prediction) /\ ~NoMasksIn(new.metadata) =>
             /\ ~RoundFinished(s, i) /\ RoundFinished(s, i)' => Agree(new)
             /\ ~Finished(s) /\ Finished(s)' /\ mode = "text_guided" =>
                    /\ new.metadata \in {prediction, Torn}
                    /\ Agree([new EXCEPT !.metadata = prediction])
             /\ ~Finished(s) /\ Finished(s)' /\ mode = "interactive" =>
                    /\ Agree(new)
                    /\ new.metadata.history = SubSeq(prediction.history, 1, i)
                    /\ new.binary_mask \in {new.logits} \cup
                           (IF i = NumClicks THEN {Torn} ELSE {})
<1>1. DriverInv /\ [Next]_vars => [Becomes]_vars
  <2> SUFFICES ASSUME DriverInv, [Next]_vars PROVE Becomes
    OBVIOUS
  <2>1. mode' = mode /\ OutMoves
    BY StepMoves
  <2> QED
    BY <2>1, RoundBecomesWhole, TextBecomesWhole, ClicksBecomeWhole
<1>2. FinishedIsWhole <=> [][Becomes]_vars
  BY DEF FinishedIsWhole
<1> QED
  BY <1>1, <1>2, InferenceSafety, PTL DEF Spec

\* A resumed command leaves alone what was finished when it got there.
THEOREM ResumeKeepsFinished == Spec => ResumeKeeps
<1> DEFINE Keeps ==
      proc = "infer" /\ resume =>
         \A s \in Stems, i \in Rounds :
            (Finished(s) \/ RoundFinished(s, i)) /\ ~NoMasksIn(out[s][i].metadata) =>
                out'[s][i] = out[s][i]
<1>1. DriverInv /\ [Next]_vars => [Keeps]_vars
  <2> SUFFICES ASSUME DriverInv, [Next]_vars, resume, NEW s \in Stems, NEW i \in Rounds,
                      Finished(s) \/ RoundFinished(s, i),
                      ~NoMasksIn(out[s][i].metadata)
               PROVE  out'[s][i] = out[s][i]
    OBVIOUS
  <2>1. mode' = mode /\ OutMoves
    BY StepMoves
  <2>2. /\ out \in [Stems -> [Rounds -> [OutFiles -> Whole \cup {Absent, Torn}]]]
        /\ mode \in {"full_shape", "cached", "text_guided", "interactive"}
    BY ModeFacts DEF DriverInv, DriverTyped
  <2>3. SUFFICES ASSUME pc \in OutFiles, s = stem, i = round PROVE FALSE
    <3>1. CASE out' = out
      BY <3>1
    <3>2. CASE /\ pc \in OutFiles
               /\ \E x \in {prediction, Torn} : out' = [out EXCEPT ![stem][round][pc] = x]
      <4>1. PICK x \in {prediction, Torn} : out' = [out EXCEPT ![stem][round][pc] = x]
        BY <3>2
      <4>2. ~(s = stem /\ i = round)
        BY <2>3, <3>2
      <4>3. stem \in Stems /\ round \in Rounds
        BY <3>2, StemIs DEF DriverInv, DriverTyped, Shape, OutFiles
      <4> QED
        BY <2>2, <4>1, <4>2, <4>3
    <3> QED
      BY <2>1, <3>1, <3>2 DEF OutMoves
  <2>4. pc # "next" /\ {"metadata", "binary_mask"} \subseteq OutFiles
    BY <2>3 DEF OutFiles
  <2>5. CASE mode \in {"full_shape", "cached"}
    <3>1. IsCompletedOutput(s, i)
      BY <2>5 DEF Finished, RoundFinished
    <3>2. out[s][i].metadata \in Whole
      BY <2>2, <2>4, <3>1 DEF IsCompletedOutput
    <3>3. LastAnswer(out[s][i].metadata) # NoMask
      BY <3>2 DEF NoMasksIn, LastAnswer
    <3> QED
      BY <2>3, <2>4, <2>5, <3>2, <3>3 DEF DriverInv, Fresh
  <2>6. CASE mode = "text_guided"
    BY <2>3, <2>4, <2>6 DEF DriverInv, Fresh, Finished, RoundFinished, Exists
  <2>7. CASE mode = "interactive"
    BY <2>3, <2>4, <2>7 DEF DriverInv, Fresh, Finished, RoundFinished, Exists
  <2> QED
    BY <2>2, <2>5, <2>6, <2>7
<1>2. ResumeKeeps <=> [][Keeps]_vars
  BY DEF ResumeKeeps
<1> QED
  BY <1>1, <1>2, InferenceSafety, PTL DEF Spec
=============================================================================
