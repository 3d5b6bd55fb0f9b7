# PartLLM in TLA+

TLA+ models of the concurrent and crash-prone parts of PartLLM, the TLC
configurations that check them on small instances, and TLAPS proofs of the
properties that matter most.

PartLLM segments 3D meshes into parts with a multimodal language model
(`recipe/part_seg`), trained with a trimmed copy of verl (`verl/`) and run either
in plain HuggingFace transformers or with the language model moved to a vLLM
worker process (`recipe/part_seg/vllm_bridge`).

## Inventory

| component | where | state it keeps | operations | how it meets the others | what is hard |
|---|---|---|---|---|---|
| vLLM bridge | `vllm_bridge/src/partllm_vllm/ipc.py`, `vllm_bridge/tools/vllm_worker.py` | lock, request id, `_closed`, `_socket`, finalizer; the bytes in a socket pair; the worker's place in its loop | start-up, `generate`, `close`, `_abort`, `_force_cleanup`; the worker's `run` | two processes and a socket pair; threads of the parent share one instance | timeouts racing answers, half-sent frames, Ctrl-C anywhere, a killed parent, a worker that hangs |
| token contracts, joint decoding | `contracts.py`, `constants.py`, `hybrid.py`, `run_hybrid_inference.py`, `test_mask_pred.py` | the generated token ids | stop tokens, SEG limit, BG query | both back ends feed the same mask decoder | two implementations of one stopping rule |
| SFT checkpointing | `verl/utils/checkpoint/*`, `sft_trainer.py`, `engine/fsdp/transformer_impl.py` | per rank: step, dataloader position; rank 0: `previous_saved_paths`; on disk: shards, dataloader states, tracker | launch/resume, save, rotate, announce | every rank of a torchrun job, four barriers per save, one shared directory | crashes between any two writes, rotation against the tracker, reruns in one directory |
| training loop, data order | `sft_trainer.py`, `multiturn_sft_dataset.py` | epoch, sampler seed, dataloader position | `fit` | resumes from a checkpoint | data repeated or skipped on resume |
| inference drivers | `tools/inference/test_mask_pred.py`, `infer_grounding.py`, `infer_promptable.py`, `refine_protocol.py` | per stem and prompt or click: logits, face indices, metadata, mask | list, resume, skip, predict, write | read the geometry cache; one output directory | partial outputs taken for complete ones; two meshes of one stem |
| geometry cache | `tools/inference/preprocess_glb_cache.py` | per stem: `geom.npz`, `combined_mesh.ply`, `.done` | `preprocess_one` in a process pool | read by the drivers, which do not look at `.done` | concurrent writers, kills between the files |
| dataset converters | `tools/prepare_*_dataset.py` | shards, parquet files | chunked conversion in a pool, then the split into train and test | read by the trainer | half-written shards; shards of another listing |
| post-processing | `postprocess.py`, `_color_mesh_by_logits` of `test_mask_pred.py` | a label per face; within a sweep, the band and its components | fill, drop, refill, merge, alpha expansion | last step of every prediction | early ends, stale structures, degenerate regions |
| activation offload | `verl/utils/activation_offload.py` | counters, tags and buffers of tensor groups; three CUDA streams | push, pop, commit in forward and backward | autograd hooks | windows and counters; order between streams |
| micro-batches | `seqlen_balancing.py`, `engine/utils.py`, `engine/fsdp/transformer_impl.py`, `engine_workers.py` | per rank: count, groups, collected rows | count, agree, partition, run, collect, reduce | every micro-batch is a round of collectives of all ranks | ranks with different counts; rows out of order |
| data protocol | `protocol.py`, `decorator.py` | none | pad, chunk | the Ray controller, which the SFT trainer does not use | boundary sizes |
| FSDP engine, losses, kernels, model code, tracking, profiling, vendored torch | `verl/`, `transformers-4-27/` | tensors | | | numeric or observing code |

`PROJECT.json` lists every component with its status, and under `hazards` what
is hard to test in the code, each at its line, with the properties that cover it.

## Modules

| module | what it is |
|---|---|
| `GenerationService` | abstract: every request has its own ticket, is executed at most once, and an answer is given only to its own caller while the service is open; what was executed and answered is kept in order, so that a second execution is a step of its own |
| `VllmBridge` | the bridge in full: parent threads, socket pair, worker process |
| `VllmBridgeInv` | the inductive invariant of `VllmBridge` |
| `VllmBridgeProofs` | TLAPS proofs about `VllmBridge` |
| `MCVllmBridge` | TLC instance |
| `CheckpointStore` | abstract: one durable step, replaced in an instant |
| `SftCheckpoint` | saving, rotating, announcing and resuming checkpoints on all ranks, with crashes |
| `SftCheckpointInv` | the inductive invariant of `SftCheckpoint` |
| `SftCheckpointProofs` | TLAPS proofs about `SftCheckpoint`, its refinement of `CheckpointStore` included |
| `MCSftCheckpoint` | TLC instances |
| `JointDecoding` | from generated tokens to mask queries and part names, with transformers and with vLLM |
| `JointDecodingProofs` | the inductive invariant of `JointDecoding` and the TLAPS proofs |
| `MCJointDecoding` | TLC instances |
| `KarmarkarKarp` | the largest-differencing partition: states, merging, order |
| `MicroBatching` | one call of `forward_backward_batch` on every rank |
| `MicroBatchingProofs` | the inductive invariant of `MicroBatching`, with the partitioner's, and the TLAPS proofs |
| `MCMicroBatching` | TLC instances |
| `ActivationOffload` | groups, windows, counters and the order of work on the streams |
| `ActivationOffloadProofs` | its inductive invariant and the TLAPS proofs |
| `MCActivationOffload` | TLC instance |
| `GeometryCache` | the preprocessor's pool over the cache directory |
| `MeshInference` | the three inference commands over one output directory, composed with `GeometryCache` |
| `MeshInferenceProofs` | the inductive invariants of the cache and of the drivers, and the TLAPS proofs |
| `MCMeshInference` | TLC instance |
| `DatasetShards` | chunks, shards and the split of the hy3dbench converter |
| `DatasetShardsProofs` | what holds when the listing stays the same, with its TLAPS proof |
| `MCDatasetShards` | TLC instance |
| `MeshGraph` | a mesh as a graph: shells, regions, bands, virtual edges, filling |
| `GraphCut` | the cut networks of an expansion inside a band, and their minimum cuts |
| `FaceLabels` | from sampled logits to the final face labels |
| `FaceLabelsProofs` | sums over finite sets, components and cuts, the inductive invariant of `FaceLabels` and the TLAPS proofs |
| `MCFaceLabels` | TLC instance: five small meshes |

### VllmBridge

State. `lock`, `nextRequestId`, `closed`, `socket`, `finalizer` are the fields of
`PointVLLMProcess` (`_lock`, `_next_request_id`, `_closed`, `_socket is not None`,
`_finalizer.alive`); `pc[t]` is where thread `t` is in `generate_raw`, `close`,
`_abort` or `_force_cleanup`, and `why[t]` the caller `_force_cleanup` returns to.
`toWorker` and `toParent` are the two directions of the socket pair. A `generate`
frame is two chunks, its JSON and its payload, because that is where a send can be
interrupted; a payload given up half way is a `cut` chunk, and `WorkerReadsRaw`
completes it from whatever follows, as `_recv_exact` would. `wpc` and `wid` are the
worker's place in `run`, `sig` the strongest signal its process group was sent.

Actions. Start-up: `BootReady`, `BootFails`. A call: `CallGenerate`, `Issue` or
`IssueRefused` (under the lock), `SendHead`, `SendRaw`, `Receive` (releases the
lock), `Check` (after it, as in the code). Failures of a call: `TimeOut`,
`PeerGone`, `Interrupt`, all through `Abort`. Closing: `CallClose` (the look at
`_closed` before the lock), `CloseAgain`, `CloseLocked`, `CloseSend`,
`CloseHearsOrFails`, `CloseReaped`, `CloseWaitExpires`. Cleaning up:
`CleanupKills`, `CleanupReturns`. Ctrl-C elsewhere: `InterruptCleanup`,
`InterruptWait`, `InterruptLastCleanup`. The end of the parent: `Exit`,
`ParentDies`. The worker: `WorkerLoads` ... `WorkerExits`, `EngineReturns`,
`EngineRaises`, `WorkerKilled`, `WorkerCrashes`.

Bounds. Two threads (the main one, which builds and owns the process and alone
receives Ctrl-C, and another), three request ids, two chunks of socket buffer. Two
threads are every interleaving the lock has to order; a third id lets a call follow
one that failed while another waits; a buffer of two blocks a writer on a worker
that does not read. `MaxId` is a bound of the model and not of the code: a thread
that has queued for the lock when the ids are used up stays there, and no property
speaks of it.

Fairness. A thread that has begun a call goes on (`Continue`): the operating system
schedules it, and a timeout that runs expires. A SIGKILL takes effect. Nothing is
assumed of the worker, which may hang in its load, its engine or its shutdown and may
ignore SIGTERM, except in `OrphanStops`, which says so in its own hypothesis.

Properties. `ReplyIsOwn` (no thread takes another request's answer from the socket),
`WorkerAligned` (frame boundaries are never lost), `FinalizerGuardsWorker` (no path
detaches the finalizer from a worker nobody will stop), `NoSendAfterClose`; `LockReleased`, `OrderlyExitStopsWorker`, `OrphanStops`;
`ServiceSpec` (it implements `GenerationService`).

### SftCheckpoint

State. `pc[r]` is where rank `r` is in `fit` or in a save, `file[r]` the shard file
it writes next, `loader[r]` the batches its dataloader has yielded; `step` is
`global_step`, `saved` is `previous_saved_paths` of rank 0, as steps. On disk, `dirs`,
`shard[s][k][r]`, `data[s][r]` and `tracker`; a shard stands for the launch that
wrote it, a dataloader state for its position, and either can be absent or torn.

Actions. `LaunchFresh`, `LaunchResume`, `LaunchFails` are `load_checkpoint` of all
ranks; `Train` one iteration of `fit`. A save is `MakeRoom`
(`ensure_checkpoint_capacity`), `MakeDir`, barrier `b1`, `WriteShard` per file,
barrier `b2`, `Register` (`register_checkpoint`) on rank 0, barrier `b3` (the
engine's), `WriteData`, `WriteTracker` on rank 0, barrier `b4`. `Crash` can happen at
every point while a job runs: it tears the files being written and interrupts the
removal of directories at any file.

Bounds. Two ranks, two shard files each, five steps with a save every second step and
at the last, two checkpoints kept, three launches. Three saves in one launch make the
rotation drop a directory both before and after a save; three launches let a resumed
job crash and resume again; two files show a crash between the files of one rank.

Fairness. Weak fairness of the job's own steps: a rank that is not in a barrier goes
on, and a barrier or training step that has all its ranks is passed. Nothing forces
a crash or a launch.

Properties. `TrackedIsWhole` (what the tracker names is on disk, with every shard of
every rank from one launch), `RankZeroInStep`, `RotationBound`, `BoundedLoss`,
`FinalCheckpoint`, `JobEnds`, `NeverStartsOver` (a launch in auto mode never loses
what was announced), `ResumesOneSave` (no launch loads the files of two saves),
`StoreSpec` (it implements `CheckpointStore`: a save takes effect in one instant).

### JointDecoding

The inference tools generate either in process (`run_inference` of
`test_mask_pred.py`) or through the bridge (`run_inference` of
`run_hybrid_inference.py`, whose `engine.generate` ends in the worker's
`PointVLLMEngine.generate`). The mask decoder then turns the hidden states at the SEG
tokens and at the BG token into one mask each, and `parse_response_parts` names the
masks by the lines of the answer.

State. Per backend, `gen` is `generated_ids` behind the prompt, `fixed` is
`generated_ids_for_mask`, `query` the positions whose hidden states go to the decoder,
`pc` how far the run has got; `args` holds `max_generated_parts` and `auto_add_bg`. A
token is text, a line break, SEG, BG or an end token: nothing in the code looks closer.

Actions. `Emit` is the model's next token. Both backends get the same one as long as
both ask: the model assumes that they agree on every choice, which for greedy decoding
in bfloat16 is an idealisation, and asks whether the code around them agrees then.
Transformers stops at an end token, at BG or at the SEG limit; vLLM at an end token, at
BG or after `max_new_tokens`. `Return` is the end of `PointVLLMEngine.generate`:
`preserve_stop_token` on any of the forms in which vLLM can report a stop
(`Candidates`, external: a stop token that is the reason may be missing from the ids),
then `truncate_on_max_seg`. `Guard` is `ensure_bg_token_for_joint_mask`, `Decode` the
forward pass over the finished sequence. `ensure_joint_bg` of `contracts.py` states the
same rule as `EnsureBg` and is called by nothing.

Bounds. Every sequence of up to seven tokens: seven hold two whole lines and the BG
line, so limits of one and two are reached with tokens to spare, and lines are cut at
every place. The limits 0 and -1 are the two ways to write none.

Properties. `SameAnswer` (the backends agree on ids, queries and failure),
`BackgroundLast`, `PartBound`, `WholeLinesAligned` (names stand for their masks, for a
model that keeps to the form of its training targets). Nothing waits, so there is no
fairness and no liveness here.

### MicroBatching

State. Per data-parallel rank, `batch` (lengths, and whether a sample carries the optional
metadata), `count` (`num_micro_batches`), `heap` (the partitioner's `states_pq`), `micro`
(the micro-batches as index lists), `ran`, `output` (per key, which sample each row is of) and
`pc`, the collective the rank has come to or what it does next. `mode` is
`use_dynamic_bsz`, training or validation, and the limit.

Actions. A collective is one action of all ranks, enabled when all have come to it:
`ReduceTokens`, `Agree` (the maximum of the counts), `RunMicroBatch` (FSDP gathers
parameters in every forward), `OptimizerStep`, `ReduceLoss`. Between them each rank
`Count`s, `Merge`s and `Schedule`s (dynamic) or `Chunk`s (static), and `Collect`s. A rank
that raises leaves the others in their collective until `Kill`, which is torchrun. The
partitioner's heap breaks ties by its internal order, so equal candidates are a choice, and so
is the order in which `sorted` leaves micro-batches of one workload. `RunMicroBatch` appends the rows
of its micro-batch to those of the ones before.

Bounds. Two ranks, every pair of batches of three samples of three kinds and of five
sorted samples, three token limits, two static sizes. Three samples make ranks disagree on
the count; five are not divisible by two and give the partitioner more merges than ties.

Fairness. Weak fairness of each rank's own steps and of a collective that all have
reached. `RunMicroBatch` with ranks of different counts is not enabled, so a disagreement
would show as a deadlock and violate `CallEnds`.

Properties. `CallEnds` (no rank is left in a collective the others never come to),
`RaisesForCause` (no rank raises on another's account or on an empty group),
`BalanceBound` (the differencing bound: no two groups differ by more than one sample),
`RowsAligned` (rows of all keys belong together, and to the batch's order with static
batches), `DynamicRowsInOrder` (violated, below).

### ActivationOffload

State. The handler's own fields under their names (`current_group`,
`offloaded_group_count`, `tensor_tag_to_state`, `tensor_tag_to_buf`,
`group_offload_mapping`), the tag autograd holds per layer, and per stream `seen`: the
events that precede whatever the stream enqueues next. `past` is what preceded each event
when it was enqueued. A group is the tensors of one layer; a layer saves some or none.

Actions. `Forward` (with `tensor_push`), `CommitForward` (`on_group_commit_forward`),
`CommitBackward` (`on_group_commit_backward`), `Backward` (with `tensor_pop`), over any
number of training steps. An assertion or a `KeyError` is `pc = "failed"`.

Bounds. Three to six layers: the first sizes for which offloading is switched on, and
window divisions with and without a remainder. The proofs need no bound.

Properties. `NeverFails`, `CopiesOrdered` (no copy before its source is computed, no
memory freed before the copy out of it, no use before the copy back), `AtMostTwoGroups`
(what the docstring promises of device memory, on the references and on the streams).
Events are cleared at the end of a step, so order across two steps is not claimed.

### GeometryCache and MeshInference

State. `cache[stem]` holds the two cache files and the marker; a whole file is the mesh it was
made from, and a file can be absent or torn. `tasks` and `worker` are the pool.
`out[stem][round]` holds `logits`, `face_idx`, `metadata` and `binary_mask`, each absent,
torn or the prediction it was written from; a round is a prompt or a click.

Actions. `LaunchPreprocess`, `Take`, `Save`, `MarkDone`, `TaskFails`, `ParentKilled`, `PreprocessEnds`; and
`LaunchInference` with or without `--resume`, `NextMesh` (the skip test of each mode),
`LoadGeometry`, `GeometryFails`, `SkipRound`, `Predict` (with masks or without), `Write` one
file after another, `RoundFails` (an exception: full-shape goes on with the next prompt, the
others with the next mesh), `Kill` of either command at any step, with all its processes.
`ParentKilled` is a signal to the parent of the pool alone: each process finishes the task it
holds and ends when it cannot report it. A write is one step, but
whoever is killed or fails at it, or races with another process on the same file, may leave it
torn. One command runs at a time, and none is launched while processes of a killed
preprocessor are still at work.

Bounds. Three meshes, two of them of one stem; pool of two; two prompts or clicks; three
launches and two faults. A fault in each of two launches and a third that reads the result
is the shortest way to a wrong skip. Commands simply end, so deadlock is not checked here.

Properties. `DoneIsWhole` (a marker vouches for a whole cache of its stem's mesh),
`FinishedIsWhole` (what becomes finished without being torn at that very write is of one
prediction), `ResumeKeeps` (a resumed command leaves finished predictions alone). `DoneIsWhole`
speaks of stems that one mesh has to itself, since the code cannot tell two meshes of one stem
apart; answers without masks are left out of the other two, since they leave older files as they are.
`FinishedIsWhole` judges the steps by which output becomes finished. It says nothing of output that
was finished before: a command with `--resume false` that is killed between two files of it leaves
files of two predictions beside each other, they count as finished, and every resumed command leaves
them alone, which is all that `ResumeKeeps` asks.

### DatasetShards

State. `shard[c]` is absent, torn or the objects in it; `listing`, the objects this launch
found; `next_chunk`, `task`, `failed`; `train` and `test`.

Actions. `Launch` (a new listing), `Take`, `Resume` (the shard is there), `Convert`,
`WriteFails`, `Collect` (pass 1, which a torn shard ends), `Split` (pass 2), `Kill`.

Property. `EveryObjectKept`: after the split every convertible object whose chunk did not
fail is in train or test. It is violated when the listing grows and proved when it does not.

### MeshGraph, GraphCut and FaceLabels

State. `labels` is `face_labels`; `rings`, `sweep`, `todo`, `band` and `changed` are the
locals of `graph_cut_fast_from_unary` (`struct` is the band it was built for);
`mesh`, `cost` and `args` stay.

Actions. `Fill` (by voting and nearest labelled face, in the two-step way of high-poly
meshes, or along edges without post-processing), `DropSmallRegions`, `Refill`,
`MergeAreaTailRegions`, `Preflight` (the budgets; the band of a high-poly mesh is narrowed until
it fits), `SkipGraphCut`, `StartSweep`, `Expand` (one label), `EndSweep`, `Stop`. `GraphCut` builds the
network of a component as the code does, with auxiliary nodes and capacities towards fixed
neighbours, and takes any of its minimum cuts.

Abstractions. A mesh is what `IsMesh` says: finitely many numbered faces, edges between two different
ones, and a length, area and position each. Costs and areas are integers, positions lie on a line.
Connected components are the least sets of faces that no edge leads out of, as scipy's
`connected_components` finds them. Minimum cuts and nearest
faces that tie are choices; ties between nearest shells take one, and the instance has none.
Components are solved one by one, as the threads do, on data none of them writes. Switches the
source sets are taken as set (`fast`, `converge`, `stitch_shells`, no split, no tolerated change),
which makes the older cut over the whole mesh unreachable.

Bounds. Five meshes of four to six faces: a strip that is high-poly here (threshold 6, a band of
two rings with a fallback of one, budgets small enough to narrow the band and to skip the cut), a
chain, a plate with regions below 0.1 % and in the last 5 %, three shells of which one has no area,
and faces without edges. The thresholds 0.1 %, 95 % and 1 % are the real ones; four sweeps are enough
both to converge and to reach the limit.

Properties. `ExpansionOptimal` (an expansion is the best the band allows for the energy of the *whole*
mesh, so splitting into components, fixing neighbours and keeping the structure lose nothing),
`ConvergedIsMinimum` (when the sweeps stop early no label could still gain), `ShellKeepsALabel` (none of
the steps filling, dropping, refilling and merging takes a shell all the labels it has at that step;
which face keeps its label may differ from step to step), and in `TypeOK` that no face stays unlabelled. One thing the model
made visible and no document contradicts: when a single region holds more than 95 % of the area it
is itself a tail region, and nothing is merged into it.

## Runs

| run | configuration | shows |
|---|---|---|
| `bridge` | `MCVllmBridge.cfg` | every property of `VllmBridge` and its refinement of `GenerationService`; about 96 000 states |
| `sft` | `MCSftCheckpoint.cfg` | every property of `SftCheckpoint` and its refinement of `CheckpointStore`; about 85 000 states |
| `sft_keep_one` | `MCSftKeepOne.cfg` | violated: with `max_ckpt_to_keep=1` a crash loses the only checkpoint |
| `sft_loaders` | `MCSftLoaders.cfg` | violated: a tracked checkpoint may lack the dataloader state of a rank |
| `joint` | `MCJointDecoding.cfg` | every property of `JointDecoding`, for every answer of up to seven tokens; about 320 000 states |
| `joint_cut` | `MCJointCut.cfg` | violated: an answer cut within a line names the background |
| `microbatch` | `MCMicroBatching.cfg` | every property of `MicroBatching` but one, for every pair of batches; about 139 000 states |
| `microbatch_order` | `MCMicroOrder.cfg` | violated: with dynamic batches rows come back in the order of the micro-batches |
| `offload` | `MCActivationOffload.cfg` | every property of `ActivationOffload` for three to six layers; 1 100 states |
| `segment` | `MCMeshInference.cfg` | every property of `GeometryCache` and `MeshInference`, in all four modes; about 1.9 million states |
| `shards_grow` | `MCShardsGrow.cfg` | violated: a launch that finds more objects loses some of them |
| `labels` | `MCFaceLabels.cfg` | every property of `FaceLabels` on five meshes and every switch; about 118 000 states |

Deadlock is checked except in `segment` and `shards_grow`, where commands may simply not be
launched again; elsewhere `Over`, `Ended` or `Done` is the state in which the system really
has stopped.

## Findings

1. **`max_ckpt_to_keep=1` has a window without a checkpoint.** `register_checkpoint`
   removes the previous checkpoint when the shards of the new one are complete, but
   the tracker still names the removed one until the dataloader states are written.
   A crash in that window makes the next launch start from step 0. The docstring of
   `ensure_checkpoint_capacity` says the old one is kept until the new save completes.
   With two or more, or with `null`, the proofs and the run `sft` show it cannot happen.
2. **The tracker does not wait for the other ranks' dataloader states.** A crash after
   rank 0 has moved the tracker and before another rank has written `data_{r}.pt` gives
   a checkpoint that resumes with that rank's dataloader at its start. Rank 0 itself is
   safe (`RankZeroInStep`).
3. **A cut answer names the background.** An answer that `max_new_tokens` cuts within a
   line is parsed into one part more than it has SEG queries; the index of that part is
   the background class, so the legend and the per-part files show the background under
   the unfinished name.
4. **Dynamic batches are not put back in order.** `restore_dynamic_batch` stands inside the loop
   over keys without rows (`engine/utils.py:142`), behind the deletion of the key, and is never
   reached for one that has rows. Validation pairs log probabilities and loss masks by position.
   `train.sh` turns dynamic batches off; the engine's default is on.
5. **A shard is taken for its chunk's whatever was in the chunk.** Preparing three objects in
   chunks of two and then five finds the second shard there, with one object, and drops the
   object that has joined its chunk (`prepare_hy3dbench_dataset.py:377`).

Seen while modelling and not kept as runs: with `resume_mode=disable` in a used directory the old
tracker stays, and a crash while the new run overwrites the tracked directory leaves shards of two
runs that `auto` resumes (adding `"disable"` to `Modes` in `MCSftCheckpoint.cfg` breaks
`ResumesOneSave`); checkpoints of earlier launches are never rotated out, since the list of saved
paths starts empty (`RotationBound` speaks of what the launch itself has written); two meshes of one
stem overwrite or skip each other's outputs, and their cache may be torn under its marker; a
command with `--resume false` that is killed while it writes over finished output leaves files of two
predictions that count as finished; a sampling value that JSON cannot encode closes the whole bridge,
though the worker is in order and nothing was sent.

## Proofs

`VllmBridgeProofs` proves, for every set of threads, buffer size, number of requests
and with or without a timeout, that the specification keeps `SafetyInv`
(`BridgeSafety`), and from it `BridgeTypeCorrect`, `BridgeReplyIsOwn`,
`BridgeWorkerAligned`, `BridgeFinalizerGuardsWorker` and `BridgeNoSendAfterClose`.
The assumptions are those of `VllmBridge`: the main thread is a thread, the bounds are
positive.

`ReplyIsOwn` alone is not inductive: that the next answer in the socket is the
holder's own depends on what is still in the socket and where the worker is. `SafetyInv`
adds `LockInv` (the lock is held exactly by the thread inside `_exchange` or
`close`), `PhaseInv` (what happens before `__init__` has returned and after the
parent ended), `OpenInv` (an open call has an open socket, a closing one has set
`_closed`), `StreamInv` (how far the holder's request can have got, chunk by chunk),
`AlignInv` (what the worker can find in front of it when nobody holds the other end
any more) and `SignalInv`. Each conjunct has a lemma with one step per action; the
temporal steps are left to PTL.

`BridgeImplementsService` proves the refinement of `GenerationService` from `ServiceInv`:
`SafetyInv` with `TicketInv` (a thread in a call has an issued ticket), `FreshInv` (wherever a
request is before its answer, it has not been answered yet) and `AnswersInv` (the answers in the
socket are of answered requests). With them `EngineReturns` maps to an execution of a pending
request, `Receive` to the answer of its own caller, `Check` and the ends of failed calls to its
return, and every other step to a ticket issued or refused, to the closing of the service, to the
end of the caller or to a stutter.

`SftCheckpointProofs` proves, for every number of ranks, shard files and steps, every
`save_freq` and every history of crashes and launches, that `SftCheckpoint` keeps
`StoreInv` (`StoreSafety`), and from it `StoreTypeCorrect`, `TrackedCheckpointWhole`,
`RankZeroDataInStep`, `FinalCheckpointStays`, `EveryResumeOneSave` and
`AnnouncedNeverLost`. The theorems suppose `Supported`: `max_ckpt_to_keep` is not 1 and
nobody launches with `resume_mode=disable`; with either setting the properties are violated.
`KeepSafety` extends `StoreInv` to `KeepInv`, and with it `RotationIsBounded` (`RotationBound`) and
`LossIsBounded` (`BoundedLoss`) are proved under the same supposition.
`ImplementsStore` proves the refinement of `CheckpointStore`, where besides `os.rename`
never fails, since the code's fallback opens the tracker in place.

That the tracked checkpoint is whole is not inductive: it survives a save only because
the save writes to another directory and rotation drops only older ones. `StoreInv` adds
`PhaseInv` (barriers keep all ranks in one stretch of the save), `StepInv` (the step being
saved is beyond the tracked one until it is announced), `FileInv` (which shards a rank
has written, from its place), `SavedInv` (rank 0's list is in order and ends at the
tracked step or the one being saved; with two places or more the rotation, which drops
from the front, cannot reach the tracked one), `DataInv` and `EndInv`. The lemmas on
`Kept` and `Dropped` carry the sequence arithmetic of the rotation; one lemma per action
shows the step; `Mapping` reads the abstract variables off the tracker and rank 0. `KeepInv` adds
`NextSaveInv` (training has passed no save step since the tracked one, and a directory ahead of
the tracker is the next save step's) and `RotationInv` (what this launch has written is on rank 0's
list and on disk, but for the save being made or one that a crash has left).

`JointDecodingProofs` proves, for every sequence of tokens of any length, every set of limits and
every `max_new_tokens`, `TypeCorrect`, `PartsAreBounded` (`PartBound`), `AnswersAgree`
(`SameAnswer`), `BackgroundIsLast` (`BackgroundLast`) and `WholeLinesAreAligned`
(`WholeLinesAligned`). The limits are integers and `max_new_tokens` is positive, nothing else. That the
backends agree at the end says nothing of how they come to agree: they stop at different tokens
and only the cut makes them equal. `IInv` therefore says what each has generated while it still asks
(`Shapes`), that both have the same tokens until transformers stops and that it then has what
the cut will leave of vLLM's (`Together`), and what decoding made of it (`Decoded`). Which token
is the n-th SEG is a question of ranks, and the lemmas about these (`RankOnto`, `InOrderIs`, `MinMaxIs`,
`RankImage`) hold for every finite set of integers.

`MicroBatchingProofs` proves, for every set of ranks, batches, token limits and static sizes,
`TypeCorrect`, `RaiseHasCause` (`RaisesForCause`), `RowsStayAligned` (`RowsAligned`) and
`GroupsAreBalanced` (`BalanceBound`). The assumptions are that ranks are finite, batches are sequences
of samples of positive length, and limits and sizes are positive. None of these is inductive. `IInv` has for
every rank the invariant of the stage it is in. In the partitioner (`HeapInv`) the states on the
heap cover the batch and share no sample, each is in descending order of its sums, its first groups are
the filled ones, and it differs within itself by at most one sample's workload: `MergedWithin` shows
that joining the heaviest group of one state with the lightest of another keeps the last, `MergedFilled`
that it fills as many groups as there are samples, so no group ends empty. From there on (`RunInv`)
the micro-batches partition the batch, and the rows of every key are those of the micro-batches run
so far. `RaisesForCause` follows since every rank has as many samples as any other (`SameLength`):
the agreed maximum of the counts then never asks a rank for more groups than it has samples.

`MeshInferenceProofs` proves, for every set of meshes, stems, rounds and files and every number
of launches and faults, `DoneIsWholeHolds` (`DoneIsWhole`), `TypeCorrect`, and the action properties
`FinishedOutputIsWhole` (`FinishedIsWhole`) and `ResumeKeepsFinished` (`ResumeKeeps`). A marker is
whole because of what its process did before: `CacheInv` says that no two processes of the pool have the same
mesh and that a process on a stem of its own finds it unmarked, with what it has written in place.
`DriverInv` says which files of the round at hand are written (`Written`), what every earlier command
can have left beside each other (`Left`: metadata of an answer with masks never without its
arrays), and that what a resumed command works on was not finished when it came to it (`Fresh`).
The assumptions are that the listing names a mesh once and that `Absent` and `Torn` are neither
meshes nor predictions.

`ActivationOffloadProofs` proves, for every number of layers from three on (all
`LayerCountsAssumption` asks) and whatever each layer saves, the four properties of the run
`offload` as `OffloadTypeCorrect`, `OffloadNeverFails`, `OffloadCopiesOrdered` and
`OffloadAtMostTwo`. None is inductive: that a popped tensor is on the device depends on where the
windows fall. `WindowsAre` first shows what the division in `layer_window_map` comes to: group `i`
has the window of layer `i + 1`, for every number of layers. `OffloadInv` then has `Tags` (a tag is held exactly for
the groups with tensors, and names its own layer), `Books` (from the place in the step: the counters, the mapping, which groups
are on the host and which buffers are referred to), `Ordered` (every enqueued event has what it
`Needs` in its past) and `Streamed` (what each stream has seen at each layer). One lemma per
operation on the streams shows that it keeps `Ordered`; one per action, split into first, middle and last
layer for the commits, shows the step.

`DatasetShardsProofs` proves `ObjectsKept`: with `OneListing(L)`, that is when every launch finds
the same listing, `EveryObjectKept` holds for every listing, chunk size and pool, with kills and
failing writes. `KeptInv` says that a readable shard holds what its chunk gives and that every
chunk taken and finished is settled.

`FaceLabelsProofs` proves, for every mesh, cost row, threshold and budget, the four properties of the
run `labels` as `TypeCorrect`, `ShellsKeepALabel`, `ExpansionsAreOptimal` and `ConvergedIsAMinimum`. The
assumptions are those of `FaceLabels`: the cases are meshes (`IsMesh`) with costs for finitely many
classes, and the bounds are natural. Nothing is supposed of the instance's meshes: shells without
area, faces without edges and ties are covered.

- `TypeInv` says which labels are in use, that filling leaves no face without one if any face was
  sampled, and that the band that is kept is the band of the present labels. That filling
  reaches every face needs the nearest shell to exist (`NearestIs`: distances of centroids are
  compared as ratios, `RatioTransitive`), and rounds that end (`RoundsExist`).
- `ShellsKeepALabel` follows from `DroppedLeave`: a shell of small regions keeps its largest one.
- `ExpansionsAreOptimal` is about sums. The cost of the cut that a component's network has for a
  side `S` is what its faces and the edges at them would cost in the whole mesh (`CutCostIs`), edge by edge
  inside the component, auxiliary node and all (`EdgeCutIs`), and face by face for the edges out of the band
  (`CapacityIs`), whose other end has the label of the face inside. That last fact is where the kept
  structure matters: it holds of the band around the present borders (`CutReady`) and of no older one. An
  edge has an end in one component at most (`TouchingIs`), so the energy is a component's part and a rest that
  the component does not decide (`EnergySplit`), and replacing the components one after the other never
  loses (`ReplaceOne`, `ExpansionBest`).
- `Settled`, the strengthening for `ConvergedIsAMinimum`: while a sweep has changed nothing, no label that has
  had its turn could gain by any choice of faces in the band. An expansion that changes no label leaves this true
  because the labels are the same; one that changes a label sets `changed`.

The lemmas about sums (`SumSplit`, `SumUnion`, `SumOfSums`) and minima rest on `SubsetInduction`, which
turns the well-foundedness of the strict subset order, a theorem of the library, into induction over a set
of sets: the prover takes that where it cannot take a predicate.

Only model-checked, beside the violated properties: liveness under fairness (`LockReleased`,
`OrderlyExitStopsWorker`, `OrphanStops`, `JobEnds`, `CallEnds`), which is out of the prover's reach
here. Every other property of a passing run is stated by a theorem above.

Some forms of the models come from the proofs, because the provers know nothing of TLC's own operators and
can unfold neither `FoldSet` nor a community operator that takes an operator. `sorted` is not taken from
`Permutations`: it is the orders in which no element follows one it goes before (`KarmarkarKarp!Orders`), or
the increasing function (`JointDecoding!InOrder`, `MicroBatching!Sorted`, `MeshInference!CachedFiles`).
Components are the least closed sets instead of a fold that joins them, sums are sums of a function over
its domain, and an expansion is the set of faces that is a minimum cut in each component. What a rank has
returned is kept row by row, since that is what the invariant speaks of.

## Not modelled

Tensor code (model, kernels, losses, FSDP sharding, mask decoding), observers
(profiling, tracking), installation scripts, the upstream verl RL and Ray code that
the SFT trainer does not use, and vendored torch. These make up most of the lines of the
repository: the network of `transformers-4-27`, the RL losses and kernels of verl, and torch
functions copied from upstream have arithmetic on tensors and no state that steps of
several actors share, so the share of all lines that is modelled stays small by the nature
of the code.

Of the modelled components: the HDFS copy of a checkpoint, `resume_path` mode, Ray mode,
jobs on several nodes without a shared file system, several epochs; the process group of
a crashed worker; the contents of prompts and payloads, and the length checks before
generation; the dataset mode of `test_mask_pred.py`, colored meshes and legends; the serial
mode of the hy3dbench converter and the other converters, which convert file by file
without resuming; a pool process that outlives a killed preprocessor into the next launch (it
could tear a file that the next launch marks); the greedy and the equal-size partitions; instance splitting and the other unary
costs of the post-processing, which no command asks for.

Hazards met in the source, outside what the models tell apart: `ipc.py:474` (the unlocked look at
`_closed` lets `close` return while another thread still waits), `ipc.py:210` (the process group of a crashed
worker is not signalled), `checkpoint_handler.py:127`, `138` and `177` (a failed rename opens the
tracker in place; the HDFS copy does not wait; a torn dataloader state raises on one rank),
`sft_trainer.py:586` and `688` (the position within the epoch; a zero frequency divides by zero),
`hybrid.py:173` (the length limit only one back end has), `prepare_hy3dbench_dataset.py:603`.

## Plan

Modules in the order of their importance, each with an MC module, mutants and, where
the table says so, theorems.

Done: 1 `VllmBridge` with `GenerationService`; 2 `SftCheckpoint` with `CheckpointStore`;
3 `JointDecoding`; 4 `GeometryCache` with `MeshInference`, the click-by-click loop included;
5 `DatasetShards`; 6 `ActivationOffload`; 7 `KarmarkarKarp` with `MicroBatching`; 8 `MeshGraph`,
`GraphCut` and `FaceLabels`. The safety properties of all of them and both refinements are proved.

Left, in this order:

1. `SftDataOrder`: sampler, epochs and dataloader position across resumes; composes with
   `SftCheckpoint`'s steps. Property: every sample of an epoch is trained on once.
2. Padding and chunking of the data protocol as operators with reference definitions.
