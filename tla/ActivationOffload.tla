------------------------- MODULE ActivationOffload -------------------------
(***************************************************************************)
(* The asynchronous, double-buffered offload of the tensors autograd saves *)
(* (activation_offload.py), as enable_activation_offloading sets it up: a  *)
(* group of tensors per FSDP layer, every group but the last offloaded.    *)
(*                                                                         *)
(* Forward pushes a layer's tensors and then commits its group; backward   *)
(* commits first and then pops.  Copies run on two streams of their own    *)
(* beside the compute stream.  What a stream enqueues runs after all it    *)
(* has enqueued before and after all it has waited for: an event's past is *)
(* the set of events that precede it in this order, and `seen' is the past *)
(* of what a stream enqueues next.  Events are those of one training step. *)
(*                                                                         *)
(* A group stands for all tensors of one layer that are not parameters;    *)
(* a layer may save none.  Each layer runs once in forward, and its commit *)
(* is differentiated.  A module in eval mode does nothing of this.         *)
(***************************************************************************)
EXTENDS Integers, FiniteSets

CONSTANT LayerCounts   \* how many FSDP layers a model may have

\* With fewer than three layers nothing is offloaded.
ASSUME LayerCountsAssumption == LayerCounts \subseteq {n \in Nat : n >= 3}

VARIABLES
    num_layers,
    pc, layer,                \* what runs next, and in which layer
    current_group,
    offloaded_group_count,
    tensor_tag_to_state,      \* per group: no tensors, on the device, a copy
    tensor_tag_to_buf,        \* groups whose buffer is still referred to
    group_offload_mapping,    \* groups with an entry
    saved_tag,                \* the group in the tag autograd holds of a layer
    seen, past                \* the streams, and the events enqueued so far

handler == <<current_group, offloaded_group_count, tensor_tag_to_state,
             tensor_tag_to_buf, group_offload_mapping>>

vars == <<num_layers, pc, layer, handler, saved_tag, seen, past>>

num_offload_group == num_layers - 1

Layers == 0..(num_layers - 1)

OffloadGroups == 0..(num_offload_group - 1)

Streams == {"compute", "d2h", "h2d"}

Kinds == {"forward", "offload", "free", "reload", "backward"}

Events == Kinds \X Layers

NoTag == -1

\* The layer at whose commit group i is released in forward, and reloaded in
\* backward.
layer_window_map(i) ==
    LET share == num_layers \div num_offload_group
        rest  == num_layers % num_offload_group
    IN  share * (i + 1) - 1 + IF i < rest THEN i + 1 ELSE rest

----------------------------------------------------------------------------
(* The streams.  Each operator maps a record of seen and past to the next.  *)

Now == [seen |-> seen, past |-> past]

Wait(x, s, t) == [x EXCEPT !.seen[s] = @ \cup x.seen[t]]

Enqueue(x, s, e) ==
    [seen |-> [x.seen EXCEPT ![s] = @ \cup {e}],
     past |-> [x.past EXCEPT ![e] = x.seen[s]]]

Becomes(x) == seen' = x.seen /\ past' = x.past

NothingSeen == [s \in Streams |-> {}]

NothingPast == [e \in Events |-> {}]

Init ==
    /\ num_layers \in LayerCounts
    /\ pc = "forward" /\ layer = 0
    /\ current_group = 0
    /\ offloaded_group_count = 0
    /\ tensor_tag_to_state = [g \in Layers |-> "none"]
    /\ tensor_tag_to_buf = {}
    /\ group_offload_mapping = {}
    /\ saved_tag = [l \in Layers |-> NoTag]
    /\ seen = NothingSeen
    /\ past = NothingPast

\* An assertion or a KeyError.
Fail ==
    /\ pc' = "failed"
    /\ UNCHANGED <<num_layers, layer, handler, saved_tag, seen, past>>

----------------------------------------------------------------------------
\* A layer's forward, with a tensor_push for what it saves.
Forward(saves) ==
    /\ pc = "forward"
    /\ IF saves /\ tensor_tag_to_state[current_group] # "none" THEN Fail ELSE
        /\ pc' = "commit_forward"
        /\ IF saves
           THEN /\ tensor_tag_to_state' =
                       [tensor_tag_to_state EXCEPT ![current_group] = "device"]
                /\ saved_tag' = [saved_tag EXCEPT ![layer] = current_group]
                /\ tensor_tag_to_buf' =
                       IF current_group < num_offload_group
                       THEN tensor_tag_to_buf \cup {current_group}
                       ELSE tensor_tag_to_buf
           ELSE UNCHANGED <<tensor_tag_to_state, saved_tag, tensor_tag_to_buf>>
        /\ Becomes(Enqueue(Now, "compute", <<"forward", layer>>))
        /\ UNCHANGED <<num_layers, layer, current_group,
                       offloaded_group_count, group_offload_mapping>>

\* The copies of bulk_offload_group(g).
OffloadCopy(x, g) ==
    IF tensor_tag_to_state[g] = "device"
    THEN Enqueue(x, "d2h", <<"offload", g>>) ELSE x

\* d2h_stream.wait_stream(current_stream), bulk_offload_group(g).
StartOffload(x, g) == OffloadCopy(Wait(x, "d2h", "compute"), g)

\* The two waits, and the buffers of group g set to None.
Release(x, g) ==
    LET y == Wait(Wait(x, "d2h", "compute"), "compute", "d2h")
    IN  IF g \in tensor_tag_to_buf
        THEN Enqueue(y, "compute", <<"free", g>>) ELSE y

Offload(groups) ==
    /\ tensor_tag_to_state' = [g \in Layers |->
           IF g \in groups /\ tensor_tag_to_state[g] = "device"
           THEN "copy" ELSE tensor_tag_to_state[g]]
    /\ group_offload_mapping' = group_offload_mapping \cup groups

\* Mutant: the next group is offloaded one commit late.
NextGroupLate(due) == IF due + 2 < num_offload_group THEN {due + 2} ELSE {}

NextGroup(due) == IF due < num_offload_group - 1 THEN {due + 1} ELSE {}

\* Mutant: one group too many is counted in.
AfterReleaseTwice(due) == due + 2

AfterRelease(due) == due + 1

\* on_group_commit_forward: group 0 starts at the first commit, and at the
\* window of the group that is due its buffers go and the next one starts.
CommitForward ==
    LET due   == offloaded_group_count
        first == IF current_group = 0 THEN {0} ELSE {}
        x     == IF current_group = 0 THEN StartOffload(Now, 0) ELSE Now
    IN  /\ pc = "commit_forward"
        /\ IF due \notin OffloadGroups THEN Fail ELSE
            /\ IF layer_window_map(due) = current_group
               THEN LET next == NextGroup(due)
                        y    == Release(x, due)
                    IN  /\ Offload(first \cup next)
                        /\ tensor_tag_to_buf' = tensor_tag_to_buf \ {due}
                        /\ offloaded_group_count' = AfterRelease(due)
                        /\ Becomes(IF next = {} THEN y
                                   ELSE OffloadCopy(y, CHOOSE g \in next : TRUE))
               ELSE /\ Offload(first)
                    /\ Becomes(x)
                    /\ UNCHANGED <<tensor_tag_to_buf, offloaded_group_count>>
            /\ current_group' = current_group + 1
            /\ IF layer = num_layers - 1
               THEN pc' = "commit_backward" /\ UNCHANGED layer
               ELSE pc' = "forward" /\ layer' = layer + 1
            /\ UNCHANGED <<num_layers, saved_tag>>

\* Mutant: the count goes down to zero with the last group's reload.
AfterReloadAll(n) == n - 1

AfterReload(n) == IF n > 1 THEN n - 1 ELSE n

LastWait(x, g) == IF g = 0 THEN Wait(x, "compute", "h2d") ELSE x

\* Mutant: the wait of compute for the copies is left out.
ReloadWaitsNot(x) == Wait(x, "h2d", "compute")

ReloadWaits(x) == Wait(Wait(x, "h2d", "compute"), "compute", "h2d")

\* At group 0 the count goes back to zero.
CountAfter(g, n) == IF g = 0 THEN 0 ELSE n

\* on_group_commit_backward: at the window of the group reloaded next.
CommitBackward ==
    LET g   == current_group - 1
        due == offloaded_group_count - 1
    IN  /\ pc = "commit_backward"
        /\ IF \/ g < 0
              \/ due \notin OffloadGroups
              \/ layer_window_map(due) = g /\ due \notin group_offload_mapping
           THEN Fail ELSE
            /\ IF layer_window_map(due) = g
               THEN LET x == ReloadWaits(Now)
                        y == IF tensor_tag_to_state[due] = "copy"
                             THEN Enqueue(x, "h2d", <<"reload", due>>) ELSE x
                    IN  /\ Becomes(LastWait(y, g))
                        /\ tensor_tag_to_state' =
                               [tensor_tag_to_state EXCEPT ![due] =
                                   IF @ = "copy" THEN "device" ELSE @]
                        /\ group_offload_mapping' = group_offload_mapping \ {due}
                        /\ offloaded_group_count' =
                               CountAfter(g, AfterReload(offloaded_group_count))
               ELSE /\ Becomes(LastWait(Now, g))
                    /\ offloaded_group_count' = CountAfter(g, offloaded_group_count)
                    /\ UNCHANGED <<tensor_tag_to_state, group_offload_mapping>>
            /\ current_group' = g
            /\ pc' = "backward"
            /\ UNCHANGED <<num_layers, layer, tensor_tag_to_buf, saved_tag>>

\* A layer's backward, with a tensor_pop of what it had saved.
Backward ==
    LET tag == saved_tag[layer]
    IN  /\ pc = "backward"
        /\ IF tag # NoTag /\ tensor_tag_to_state[tag] # "device" THEN Fail ELSE
            /\ IF tag = NoTag
               THEN UNCHANGED <<tensor_tag_to_state, tensor_tag_to_buf, saved_tag>>
               ELSE /\ tensor_tag_to_state' =
                           [tensor_tag_to_state EXCEPT ![tag] = "none"]
                    /\ tensor_tag_to_buf' = tensor_tag_to_buf \ {tag}
                    /\ saved_tag' = [saved_tag EXCEPT ![layer] = NoTag]
            /\ IF layer = 0
               THEN /\ pc' = "forward" /\ UNCHANGED layer
                    /\ seen' = NothingSeen /\ past' = NothingPast
               ELSE /\ pc' = "commit_backward" /\ layer' = layer - 1
                    /\ Becomes(Enqueue(Now, "compute", <<"backward", layer>>))
            /\ UNCHANGED <<num_layers, current_group, offloaded_group_count,
                           group_offload_mapping>>

Next ==
    \/ \E saves \in BOOLEAN : Forward(saves)
    \/ CommitForward
    \/ CommitBackward
    \/ Backward

Spec == Init /\ [][Next]_vars

----------------------------------------------------------------------------
(* Properties.  *)

\* The handler's fields have their types, and its counters name groups there
\* are.
TypeOK ==
    /\ num_layers \in LayerCounts
    /\ pc \in {"forward", "commit_forward", "commit_backward", "backward", "failed"}
    /\ layer \in Layers
    /\ current_group \in 0..num_layers
    /\ offloaded_group_count \in 0..num_offload_group
    /\ tensor_tag_to_state \in [Layers -> {"none", "device", "copy"}]
    /\ tensor_tag_to_buf \subseteq OffloadGroups
    /\ group_offload_mapping \subseteq OffloadGroups
    /\ saved_tag \in [Layers -> Layers \cup {NoTag}]
    /\ seen \in [Streams -> SUBSET Events]
    /\ past \in [Events -> SUBSET Events]

\* No step of training meets an assertion or a missing key: every tag is free
\* when it is pushed, and every tensor is back when it is popped.
NeverFails == pc # "failed"

\* A copy to the host starts after the layer that computes what it copies,
\* device memory is freed after the copy out of it, a copy back starts after
\* the copy out, and backward runs after the copy back of what it uses.
CopiesOrdered ==
    /\ \A g \in Layers :
           /\ <<"offload", g>> \in seen["d2h"] =>
                  <<"forward", g>> \in past[<<"offload", g>>]
           /\ <<"free", g>> \in seen["compute"] =>
                  <<"offload", g>> \in past[<<"free", g>>]
           /\ <<"reload", g>> \in seen["h2d"] =>
                  <<"offload", g>> \in past[<<"reload", g>>]
    /\ pc = "backward" /\ saved_tag[layer] \in OffloadGroups =>
           <<"reload", saved_tag[layer]>> \in seen["compute"]

\* The groups that hold device memory.
Resident ==
    {g \in Layers : tensor_tag_to_state[g] = "device"} \cup tensor_tag_to_buf

\* "There are at most two activation groups in GPU memory": two are referred
\* to, and on the streams a layer computes after the group two before it is
\* freed, and a group comes back after the backward of all but the next.
AtMostTwoGroups ==
    /\ Cardinality(Resident) <= 2
    /\ \A g, l \in Layers :
           /\ l >= g + 2 /\ <<"forward", l>> \in seen["compute"] /\ saved_tag[g] # NoTag =>
                  <<"free", saved_tag[g]>> \in past[<<"forward", l>>]
           /\ l >= g + 2 /\ <<"reload", g>> \in seen["h2d"] =>
                  <<"backward", l>> \in past[<<"reload", g>>]
=============================================================================
