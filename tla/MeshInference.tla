--------------------------- MODULE MeshInference ---------------------------
(***************************************************************************)
(* The drivers of batch inference over one output directory: full-shape    *)
(* (test_mask_pred.py, from the meshes or from the cache), text-guided     *)
(* (infer_grounding.py) and interactive (infer_promptable.py), with the    *)
(* files process_and_save leaves and the tests by which a resumed command  *)
(* skips what is finished.                                                 *)
(*                                                                         *)
(* One command runs at a time.  It may be killed at any step, and launched *)
(* again with --resume true or false.  Decoding may sample, so that an     *)
(* answer with masks is named by the launch that gave it.  A whole file is *)
(* the prediction it was written from: where its points and its mesh come  *)
(* from, and the answers of the rounds up to it.  Colored meshes, legends  *)
(* and error.txt are left out.                                             *)
(***************************************************************************)
EXTENDS GeometryCache, FiniteSets

CONSTANTS
    Modes,         \* the modes the output directory may be used in
    MaxSamples,    \* --max_samples; 0, like a negative number, is for all
    NumPrompts,    \* how many prompts full_shape runs
    NumClicks,     \* how many clicks an interactive command has
    NoMask,        \* an answer the mask decoder returns nothing for
    MaxLaunches,   \* bound: how often a command is launched
    MaxFaults      \* bound: how many kills and failures there are

Answers == 1..MaxLaunches \cup {NoMask}

\* What a whole file holds.
Whole == [points : Meshes, faces : Meshes,
          history : UNION {[1..n -> Answers] : n \in 1..NumClicks}]

ASSUME BoundsAssumption ==
    /\ Modes \subseteq {"full_shape", "cached", "text_guided", "interactive"}
    /\ MaxSamples \in Nat /\ NumPrompts \in Nat \ {0} /\ NumClicks \in Nat \ {0}
    /\ MaxLaunches \in Nat
ASSUME FilesAssumption == Absent \notin Whole /\ Torn \notin Whole

VARIABLES
    mode,
    proc,          \* the command that runs: none, preprocess or infer
    launches, faults,
    resume,
    mesh_files,    \* the meshes the loop has not finished
    pc,
    round,         \* the prompt or click
    prediction,    \* what the current round writes
    out            \* per stem and round: the files of its directory

vars == <<cacheVars, mode, proc, launches, faults, resume, mesh_files, pc, round,
          prediction, out>>

driverVars == <<resume, mesh_files, pc, round, prediction, out>>

OutFiles == {"logits", "face_idx", "metadata", "binary_mask"}

NumRounds ==
    CASE mode \in {"full_shape", "cached"} -> NumPrompts
      [] mode = "interactive" -> NumClicks
      [] mode = "text_guided" -> 1

Rounds == 1..NumRounds

NoPrediction == [points |-> Absent, faces |-> Absent, history |-> <<>>]

Init ==
    /\ CacheInit
    /\ mode \in Modes
    /\ proc = "none"
    /\ launches = 0 /\ faults = 0
    /\ resume = TRUE
    /\ mesh_files = <<>>
    /\ pc = "next"
    /\ round = 1
    /\ prediction = NoPrediction
    /\ out = [s \in Stems |-> [i \in Rounds |-> [f \in OutFiles |-> Absent]]]

----------------------------------------------------------------------------
(* What a resumed command takes for finished.  *)

Exists(s, i, f) == out[s][i][f] # Absent

\* is_completed_output
IsCompletedOutput(s, i) ==
    /\ out[s][i].metadata \notin {Absent, Torn}
    /\ Exists(s, i, "logits")
    /\ Exists(s, i, "face_idx")

Finished(s) ==
    CASE mode \in {"full_shape", "cached"} -> \A i \in Rounds : IsCompletedOutput(s, i)
      [] mode = "text_guided" -> Exists(s, 1, "metadata")
      [] mode = "interactive" -> /\ Exists(s, NumClicks, "metadata")
                                 /\ Exists(s, NumClicks, "binary_mask")

\* One round of it, where rounds are skipped one by one.
RoundFinished(s, i) ==
    mode \in {"full_shape", "cached"} /\ IsCompletedOutput(s, i)

----------------------------------------------------------------------------
(* The commands.  *)

Launch ==
    /\ proc = "none"
    /\ launches < MaxLaunches
    /\ launches' = launches + 1
    /\ UNCHANGED <<mode, faults, round, prediction, out>>

\* In cache mode the stems are listed, each once, and only those with points:
\* the one listing that keeps the order of the meshes.
CachedFiles ==
    LET listed == {j \in DOMAIN MeshFiles :
                      /\ cache[StemOf[MeshFiles[j]]].geom # Absent
                      /\ \A i \in DOMAIN MeshFiles :
                            StemOf[MeshFiles[i]] = StemOf[MeshFiles[j]] => i <= j}
        inOrder == {q \in [1..Cardinality(listed) -> listed] :
                       \A k, l \in DOMAIN q : k < l => q[k] < q[l]}
    IN  {[k \in DOMAIN q |-> MeshFiles[q[k]]] : q \in inOrder}

\* The first MaxSamples of them, or all; full_shape takes others, but with its
\* seed always the same.
Listing(files) ==
    IF 0 < MaxSamples /\ MaxSamples < Len(files)
    THEN SubSeq(files, 1, MaxSamples) ELSE files

LaunchInference(again) ==
    /\ Launch
    /\ proc' = "infer"
    /\ resume' = again
    /\ \E files \in IF mode = "cached" THEN CachedFiles ELSE {MeshFiles} :
          mesh_files' = Listing(files)
    /\ pc' = "next"
    /\ UNCHANGED cacheVars

LaunchPreprocess ==
    /\ mode = "cached"
    /\ Launch
    /\ proc' = "preprocess"
    /\ StartPool
    /\ UNCHANGED <<resume, mesh_files, pc>>

PreprocessStep(w) ==
    /\ proc = "preprocess"
    /\ PoolStep(w)
    /\ UNCHANGED <<mode, proc, launches, faults, driverVars>>

Fault == faults < MaxFaults /\ faults' = faults + 1

PreprocessFails(w) ==
    /\ proc = "preprocess"
    /\ TaskFails(w)
    /\ Fault
    /\ UNCHANGED <<mode, proc, launches, driverVars>>

\* The preprocessor is killed alone: until its processes are through, no other
\* command is launched.
ParentKilled ==
    /\ proc = "preprocess"
    /\ LoseParent
    /\ Fault
    /\ UNCHANGED <<mode, proc, launches, driverVars>>

PreprocessEnds ==
    /\ proc = "preprocess"
    /\ PoolIdle
    /\ proc' = "none"
    /\ UNCHANGED <<cacheVars, mode, launches, faults, driverVars>>

----------------------------------------------------------------------------
(* The loop over the meshes.  *)

Inferring ==
    /\ proc = "infer"
    /\ UNCHANGED <<cacheVars, mode, launches, resume>>

InferStep == Inferring /\ UNCHANGED faults

stem == StemOf[Head(mesh_files)]

\* Mutant: an interactive command does not look at what is there.
SkipsButClicks(s) == resume /\ mode # "interactive" /\ Finished(s)

Skips(s) == resume /\ Finished(s)

NextMesh ==
    /\ InferStep
    /\ pc = "next"
    /\ mesh_files # <<>>
    /\ IF Skips(stem)
       THEN mesh_files' = Tail(mesh_files) /\ UNCHANGED pc
       ELSE pc' = "geometry" /\ UNCHANGED mesh_files
    /\ UNCHANGED <<proc, round, prediction, out>>

\* What the process had in memory is gone.
Gone ==
    /\ proc' = "none"
    /\ mesh_files' = <<>>
    /\ pc' = "next"
    /\ round' = 1
    /\ prediction' = NoPrediction

Ends ==
    /\ InferStep
    /\ pc = "next"
    /\ mesh_files = <<>>
    /\ Gone
    /\ UNCHANGED out

NextMeshFrom == mesh_files' = Tail(mesh_files) /\ pc' = "next" /\ UNCHANGED round

\* The points and the mesh, from the mesh itself or from the two cache files.
source ==
    IF mode = "cached"
    THEN [points |-> cache[stem].geom, faces |-> cache[stem].ply]
    ELSE [points |-> Head(mesh_files), faces |-> Head(mesh_files)]

\* Mutant: a torn file is taken for a whole one.
ReadableIfThere == source.points # Absent /\ source.faces # Absent

Readable == source.points \in Meshes /\ source.faces \in Meshes

LoadGeometry ==
    /\ InferStep
    /\ pc = "geometry"
    /\ Readable
    /\ pc' = "predict"
    /\ round' = 1
    /\ prediction' = [points |-> source.points, faces |-> source.faces,
                      history |-> <<>>]
    /\ UNCHANGED <<proc, mesh_files, out>>

GeometryFails ==
    /\ Inferring
    /\ pc = "geometry"
    /\ IF Readable THEN Fault ELSE UNCHANGED faults
    /\ NextMeshFrom
    /\ UNCHANGED <<proc, prediction, out>>

NextRound ==
    IF round < NumRounds
    THEN round' = round + 1 /\ pc' = "predict" /\ UNCHANGED mesh_files
    ELSE NextMeshFrom

SkipRound ==
    /\ InferStep
    /\ pc = "predict"
    /\ resume /\ RoundFinished(stem, round)
    /\ NextRound
    /\ UNCHANGED <<proc, prediction, out>>

\* run_inference.  A click's answer builds on those of the clicks before it;
\* without masks it is an error in interactive mode, and elsewhere only
\* metadata.json is written.
Predict(a) ==
    /\ InferStep
    /\ pc = "predict"
    /\ ~ (resume /\ RoundFinished(stem, round))
    /\ IF mode = "interactive" /\ a = NoMask
       THEN NextMeshFrom /\ UNCHANGED prediction
       ELSE /\ pc' = IF a = NoMask THEN "metadata" ELSE "logits"
            /\ prediction' = [prediction EXCEPT !.history =
                   IF mode = "interactive" THEN Append(@, a) ELSE <<a>>]
            /\ UNCHANGED <<mesh_files, round>>
    /\ UNCHANGED <<proc, out>>

----------------------------------------------------------------------------
(* process_and_save: the file being written is the one pc names.  *)

\* Mutant: the metadata is saved before the face indices.
AfterMetadataEarly(f) ==
    CASE f = "logits" -> "metadata"
      [] f = "metadata" -> "face_idx"
      [] f = "face_idx" /\ mode = "interactive" -> "binary_mask"
      [] OTHER -> "end"

After(f) ==
    CASE f = "logits" -> "face_idx"
      [] f = "face_idx" -> "metadata"
      [] f = "metadata" /\ mode = "interactive" -> "binary_mask"
      [] OTHER -> "end"

Write ==
    /\ InferStep
    /\ pc \in OutFiles
    /\ out' = [out EXCEPT ![stem][round][pc] = prediction]
    /\ IF After(pc) = "end" THEN NextRound
       ELSE pc' = After(pc) /\ UNCHANGED <<mesh_files, round>>
    /\ UNCHANGED <<proc, prediction>>

\* The file that is open may be left torn.
OutTorn ==
    {out} \cup (IF pc \in OutFiles
                THEN {[out EXCEPT ![stem][round][pc] = Torn]} ELSE {})

\* An exception: full_shape goes on with the next prompt, the others with the
\* next mesh.
RoundFails ==
    /\ Inferring
    /\ Fault
    /\ pc \in {"predict"} \cup OutFiles
    /\ out' \in OutTorn
    /\ IF mode \in {"full_shape", "cached"} THEN NextRound ELSE NextMeshFrom
    /\ UNCHANGED <<proc, prediction>>

Kill ==
    /\ proc # "none"
    /\ Fault
    /\ Gone
    /\ out' \in IF proc = "infer" THEN OutTorn ELSE {out}
    /\ IF proc = "preprocess" THEN KillPool ELSE UNCHANGED cacheVars
    /\ UNCHANGED <<mode, launches, resume>>

Next ==
    \/ \E again \in BOOLEAN : LaunchInference(again)
    \/ LaunchPreprocess
    \/ \E w \in Workers : PreprocessStep(w) \/ PreprocessFails(w)
    \/ ParentKilled
    \/ PreprocessEnds
    \/ NextMesh
    \/ Ends
    \/ LoadGeometry
    \/ GeometryFails
    \/ SkipRound
    \/ Predict(launches) \/ Predict(NoMask)
    \/ Write
    \/ RoundFails
    \/ Kill

Spec == Init /\ [][Next]_vars

----------------------------------------------------------------------------
(* Properties.  *)

\* The state has its type: what a file holds is a prediction, or it is absent
\* or torn.
TypeOK ==
    /\ cache \in [Stems -> [geom : Meshes \cup {Absent, Torn},
                            ply : Meshes \cup {Absent, Torn}, done : BOOLEAN]]
    /\ worker \in [Workers -> [mesh : Meshes \cup {Absent},
                               step : {"idle", "geom", "ply", "done"}]]
    /\ tasks \in Seq(Meshes)
    /\ mode \in Modes /\ proc \in {"none", "preprocess", "infer"}
    /\ launches \in 0..MaxLaunches /\ resume \in BOOLEAN
    /\ mesh_files \in Seq(Meshes)
    /\ pc \in {"next", "geometry", "predict"} \cup OutFiles
    /\ round \in Rounds
    /\ out \in [Stems -> [Rounds -> [OutFiles -> Whole \cup {Absent, Torn}]]]

NoMasksIn(p) == p \in Whole /\ p.history[Len(p.history)] = NoMask

Agree(o) == o.logits \in Whole /\ o.face_idx = o.logits /\ o.metadata = o.logits

\* What becomes finished is whole, whatever was killed, failed or forced to
\* run again before: its files come from one prediction, in interactive mode
\* each click's from the answer to the click before.  Only the file that
\* makes text-guided and interactive output count as finished may be torn,
\* for there it is not read.  An answer without masks is left out: it saves
\* no logits and leaves those that are there.  So is what was finished before:
\* a forced command that is cut short while it writes over it leaves files of
\* two predictions, which still count as finished.
FinishedIsWhole ==
    [][\A s \in Stems, i \in Rounds :
         LET old == out[s][i]
             new == out'[s][i]
         IN  ~NoMasksIn(prediction) /\ ~NoMasksIn(new.metadata) =>
             /\ ~RoundFinished(s, i) /\ RoundFinished(s, i)' => Agree(new)
             /\ ~Finished(s) /\ Finished(s)' /\ mode = "text_guided" =>
                    /\ new.metadata \in {prediction, Torn}
                    /\ Agree([new EXCEPT !.metadata = prediction])
             /\ ~Finished(s) /\ Finished(s)' /\ mode = "interactive" =>
                    /\ Agree(new)
                    /\ new.metadata.history = SubSeq(prediction.history, 1, i)
                    /\ new.binary_mask \in {new.logits} \cup
                           (IF i = NumClicks THEN {Torn} ELSE {})]_vars

\* A resumed command leaves alone what was finished when it got there, all of
\* it in the modes that finish as a whole (the mixed files of a forced command
\* that was cut short included).
ResumeKeeps ==
    [][proc = "infer" /\ resume =>
         \A s \in Stems, i \in Rounds :
            (Finished(s) \/ RoundFinished(s, i)) /\ ~NoMasksIn(out[s][i].metadata) =>
                out'[s][i] = out[s][i]]_vars
=============================================================================
