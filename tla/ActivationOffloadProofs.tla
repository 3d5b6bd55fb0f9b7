---------------------- MODULE ActivationOffloadProofs ----------------------
(***************************************************************************)
(* For every number of layers, and whatever each layer saves, the offload  *)
(* meets no assertion, orders its copies and keeps at most two groups on   *)
(* the device.  The invariant says, for each of the four places a step is  *)
(* at, which groups are where as a function of the layer alone (Books),    *)
(* and which events the streams have come past (Streamed); that copies are *)
(* ordered follows from what every event has in its past (Ordered).        *)
(***************************************************************************)
EXTENDS ActivationOffload, FiniteSetTheorems, TLAPS

Saved(g) == tensor_tag_to_state[g] # "none"

Tags ==
    /\ tensor_tag_to_state \in [Layers -> {"none", "device", "copy"}]
    /\ saved_tag = [l \in Layers |-> IF Saved(l) THEN l ELSE NoTag]

\* The groups below n are on the host, those from n to m on the device, and
\* there are none above.
Placed(n, m) ==
    \A g \in Layers :
        /\ g < n => tensor_tag_to_state[g] # "device"
        /\ n <= g /\ g <= m => tensor_tag_to_state[g] # "copy"
        /\ g > m => ~Saved(g)

Buffers(groups) == tensor_tag_to_buf = {g \in OffloadGroups : g \in groups /\ Saved(g)}

Books ==
    /\ pc = "forward" =>
        /\ current_group = layer
        /\ offloaded_group_count = IF layer = 0 THEN 0 ELSE layer - 1
        /\ group_offload_mapping = 0..(layer - 1)
        /\ Placed(layer, layer - 1)
        /\ Buffers({layer - 1})
    /\ pc = "commit_forward" =>
        /\ current_group = layer
        /\ offloaded_group_count = IF layer = 0 THEN 0 ELSE layer - 1
        /\ group_offload_mapping = 0..(layer - 1)
        /\ Placed(layer, layer)
        /\ Buffers({layer - 1, layer})
    /\ pc = "commit_backward" =>
        /\ current_group = layer + 1
        /\ offloaded_group_count = IF layer = 0 THEN 1 ELSE layer
        /\ group_offload_mapping = 0..(layer - 1)
        /\ Placed(layer, layer)
        /\ tensor_tag_to_buf = {}
    /\ pc = "backward" =>
        /\ current_group = layer
        /\ offloaded_group_count = IF layer <= 1 THEN layer ELSE layer - 1
        /\ group_offload_mapping = 0..(layer - 2)
        /\ Placed(layer - 1, layer)
        /\ tensor_tag_to_buf = {}

\* The records of what the streams have seen and of the events' pasts.
Runs == [seen : [Streams -> SUBSET Events], past : [Events -> SUBSET Events]]

Enqueued(x) == UNION {x.seen[s] : s \in Streams}

\* What must be in the past of an event once it is enqueued.
Needs(e) ==
    CASE e[1] = "forward" ->
            {<<"free", g>> : g \in {h \in Layers : h + 2 <= e[2] /\ Saved(h)}}
      [] e[1] = "offload" -> {<<"forward", e[2]>>}
      [] e[1] = "free" -> {<<"offload", e[2]>>}
      [] e[1] = "reload" ->
            {<<"offload", e[2]>>} \cup {<<"backward", l>> : l \in {k \in Layers : k >= e[2] + 2}}
      [] e[1] = "backward" -> {}

Ordered(x) == \A e \in Enqueued(x) : Needs(e) \subseteq x.past[e]

Streamed ==
    /\ pc \in {"forward", "commit_forward"} =>
        /\ \A l \in Layers : <<"forward", l>> \in Enqueued(Now) =>
               l < layer \/ (l = layer /\ pc = "commit_forward")
        /\ \A g \in Layers : g < layer /\ Saved(g) =>
               <<"offload", g>> \in seen["d2h"]
        /\ \A g \in Layers : g + 2 <= layer /\ Saved(g) =>
               <<"free", g>> \in seen["compute"]
    /\ pc = "commit_forward" => <<"forward", layer>> \in seen["compute"]
    /\ pc \in {"commit_backward", "backward"} =>
        /\ \A g \in Layers : g < layer /\ Saved(g) =>
               <<"offload", g>> \in seen["compute"]
        /\ \A l \in Layers : l > layer => <<"backward", l>> \in seen["compute"]
    /\ pc = "commit_backward" /\ layer \in OffloadGroups /\ Saved(layer) =>
        <<"reload", layer>> \in seen["h2d"]
    /\ pc = "backward" =>
        /\ layer \in OffloadGroups /\ Saved(layer) => <<"reload", layer>> \in seen["compute"]
        /\ layer > 0 /\ Saved(layer - 1) => <<"reload", layer - 1>> \in seen["h2d"]

\* What makes the four properties inductive.
OffloadInv ==
    /\ num_layers \in LayerCounts
    /\ layer \in Layers
    /\ pc \in {"forward", "commit_forward", "commit_backward", "backward"}
    /\ Tags
    /\ Books
    /\ Now \in Runs
    /\ Ordered(Now)
    /\ Streamed

----------------------------------------------------------------------------
(* Numbers.  *)

\* There are at least three layers, and every group but the last is offloaded.
LEMMA LayersAre ==
    ASSUME num_layers \in LayerCounts
    PROVE  /\ num_layers \in Nat /\ num_layers >= 3
           /\ num_offload_group \in Nat /\ num_offload_group = num_layers - 1
           /\ Layers = 0..(num_layers - 1)
           /\ OffloadGroups = 0..(num_layers - 2)
<1>1. num_layers \in Nat /\ num_layers >= 3
  BY LayerCountsAssumption
<1> QED
  BY <1>1 DEF num_offload_group, Layers, OffloadGroups

\* With one group fewer than layers, group i is due one layer after its own.
LEMMA WindowsAre ==
    ASSUME num_layers \in LayerCounts, NEW i \in OffloadGroups
    PROVE  layer_window_map(i) = i + 1
<1>1. /\ num_layers \in Nat /\ num_layers >= 3
      /\ num_offload_group \in Nat /\ num_offload_group = num_layers - 1
      /\ i \in Nat
  BY LayersAre
<1>2. num_layers = 1 * num_offload_group + 1 /\ 1 < num_offload_group
  BY <1>1
<1>3. num_layers \div num_offload_group = 1 /\ num_layers % num_offload_group = 1
  BY <1>1, <1>2
<1>4. layer_window_map(i) = 1 * (i + 1) - 1 + IF i < 1 THEN i + 1 ELSE 1
  BY <1>3 DEF layer_window_map
<1> QED
  BY <1>1, <1>4

----------------------------------------------------------------------------
(* Streams.  *)

\* A stream that waits for another has seen what both had.
LEMMA WaitRuns ==
    ASSUME NEW x \in Runs, Ordered(x), NEW s \in Streams, NEW t \in Streams
    PROVE  /\ Wait(x, s, t) \in Runs
           /\ Ordered(Wait(x, s, t))
           /\ Enqueued(Wait(x, s, t)) = Enqueued(x)
           /\ Wait(x, s, t).seen = [x.seen EXCEPT ![s] = @ \cup x.seen[t]]
<1> DEFINE y == Wait(x, s, t)
<1>1. y.seen = [x.seen EXCEPT ![s] = @ \cup x.seen[t]] /\ y.past = x.past
  BY DEF Wait, Runs
<1>2. y \in Runs
  BY DEF Wait, Runs
<1>3. Enqueued(y) = Enqueued(x)
  BY <1>1 DEF Enqueued, Runs
<1> QED
  BY <1>1, <1>2, <1>3 DEF Ordered

\* An event may be enqueued once its stream has seen what it needs.
LEMMA EnqueueRuns ==
    ASSUME NEW x \in Runs, Ordered(x), NEW s \in Streams, NEW e \in Events,
           Needs(e) \subseteq x.seen[s]
    PROVE  /\ Enqueue(x, s, e) \in Runs
           /\ Ordered(Enqueue(x, s, e))
           /\ Enqueued(Enqueue(x, s, e)) = Enqueued(x) \cup {e}
           /\ Enqueue(x, s, e).seen = [x.seen EXCEPT ![s] = @ \cup {e}]
<1> DEFINE y == Enqueue(x, s, e)
<1>1. /\ y.seen = [x.seen EXCEPT ![s] = @ \cup {e}]
      /\ y.past = [x.past EXCEPT ![e] = x.seen[s]]
  BY DEF Enqueue
<1>2. y \in Runs
  BY DEF Enqueue, Runs
<1>3. Enqueued(y) = Enqueued(x) \cup {e}
  BY <1>1 DEF Enqueued, Runs
<1>4. \A f \in Enqueued(x) : f # e => y.past[f] = x.past[f]
  BY <1>1 DEF Enqueued, Runs
<1>5. y.past[e] = x.seen[s]
  BY <1>1 DEF Runs
<1> QED
  BY <1>1, <1>2, <1>3, <1>4, <1>5 DEF Ordered

\* The streams' record of the next state is what the step says.
LEMMA NowNext ==
    ASSUME NEW z \in Runs, Ordered(z), Becomes(z), num_layers' = num_layers,
           \A e \in Enqueued(z) : Needs(e)' \subseteq Needs(e)
    PROVE  /\ Now' = z /\ seen' = z.seen
           /\ Now' \in Runs'
           /\ Ordered(Now)'
<1>1. Now' = z /\ seen' = z.seen
  BY DEF Now, Becomes, Runs
<1>2. Now' \in Runs'
  BY <1>1 DEF Runs, Events, Layers
<1>3. Enqueued(Now)' = Enqueued(z)
  BY <1>1 DEF Enqueued, Now
<1>4. \A e \in Enqueued(z) : Needs(e)' \subseteq past'[e]
  BY DEF Ordered, Becomes
<1> QED
  BY <1>1, <1>2, <1>3, <1>4 DEF Ordered, Now

----------------------------------------------------------------------------
(* The steps.  *)

\* A step leaves the layers as they are.
LEMMA SameLayers ==
    ASSUME num_layers' = num_layers
    PROVE  /\ Layers' = Layers /\ OffloadGroups' = OffloadGroups
           /\ num_offload_group' = num_offload_group /\ Events' = Events
  BY DEF Layers, OffloadGroups, num_offload_group, Events

\* The needs of each kind of event.
LEMMA NeedsAre ==
    ASSUME NEW l \in Layers
    PROVE  /\ Needs(<<"forward", l>>) =
                  {<<"free", g>> : g \in {h \in Layers : h + 2 <= l /\ Saved(h)}}
           /\ Needs(<<"offload", l>>) = {<<"forward", l>>}
           /\ Needs(<<"free", l>>) = {<<"offload", l>>}
           /\ Needs(<<"reload", l>>) =
                  {<<"offload", l>>}
                      \cup {<<"backward", k>> : k \in {k \in Layers : k >= l + 2}}
           /\ Needs(<<"backward", l>>) = {}
  BY DEF Needs

\* What an event needs depends on the groups that hold tensors alone.
LEMMA NeedsNext ==
    ASSUME num_layers' = num_layers, NEW e \in Events,
           \A g \in Layers : e[1] = "forward" /\ g + 2 <= e[2] /\ Saved(g)' => Saved(g)
    PROVE  Needs(e)' \subseteq Needs(e)
<1>1. Layers' = Layers
  BY SameLayers
<1>2. PICK k \in Kinds, l \in Layers : e = <<k, l>>
  BY DEF Events
<1>3. CASE k = "forward"
  BY <1>1, <1>2, <1>3 DEF Needs
<1>4. CASE k # "forward"
  BY <1>1, <1>2, <1>4 DEF Needs, Kinds
<1> QED
  BY <1>3, <1>4

\* The first step of training starts with nothing anywhere.
LEMMA InitOffload == Init => OffloadInv
<1> SUFFICES ASSUME Init
             PROVE  OffloadInv
  OBVIOUS
<1>1. num_layers \in LayerCounts /\ layer = 0 /\ pc = "forward"
  BY DEF Init
<1>2. /\ num_layers \in Nat /\ num_layers >= 3
      /\ Layers = 0..(num_layers - 1)
      /\ OffloadGroups = 0..(num_layers - 2)
  BY <1>1, LayersAre
<1>3. \A g \in Layers : tensor_tag_to_state[g] = "none" /\ ~Saved(g)
  BY DEF Init, Saved
<1>4. Tags
  BY <1>3 DEF Tags, Init
<1>5. Books
  <2>1. Placed(layer, layer - 1)
    BY <1>3 DEF Placed
  <2>2. Buffers({layer - 1})
    BY <1>2, <1>3 DEF Buffers, Init
  <2>3. 0..(layer - 1) = {}
    BY <1>1
  <2> QED
    BY <1>1, <2>1, <2>2, <2>3 DEF Books, Init
<1>6. /\ seen = [s \in Streams |-> {}] /\ past = [e \in Events |-> {}]
  BY DEF Init, NothingSeen, NothingPast
<1>7. Now \in Runs /\ Enqueued(Now) = {}
  BY <1>6 DEF Now, Runs, Enqueued
<1>8. Ordered(Now)
  BY <1>7 DEF Ordered
<1>9. Streamed
  BY <1>1, <1>2, <1>3, <1>7 DEF Streamed
<1> QED
  BY <1>1, <1>2, <1>4, <1>5, <1>7, <1>8, <1>9 DEF OffloadInv

\* The forward of a layer finds its tag free, and the group two layers before
\* freed.
LEMMA ForwardKeeps ==
    ASSUME OffloadInv, NEW saves \in BOOLEAN, Forward(saves)
    PROVE  OffloadInv'
<1> DEFINE e == <<"forward", layer>>
           z == Enqueue(Now, "compute", e)
<1>0. /\ num_layers \in Nat /\ num_layers >= 3
      /\ Layers = 0..(num_layers - 1)
      /\ OffloadGroups = 0..(num_layers - 2)
      /\ num_offload_group = num_layers - 1
      /\ layer \in Layers /\ layer \in Nat
  BY LayersAre DEF OffloadInv
<1>1. /\ pc = "forward" /\ current_group = layer
      /\ offloaded_group_count = IF layer = 0 THEN 0 ELSE layer - 1
      /\ group_offload_mapping = 0..(layer - 1)
      /\ Placed(layer, layer - 1)
      /\ Buffers({layer - 1})
  BY DEF OffloadInv, Books, Forward
<1>2. /\ tensor_tag_to_state \in [Layers -> {"none", "device", "copy"}]
      /\ saved_tag = [l \in Layers |-> IF Saved(l) THEN l ELSE NoTag]
  BY DEF OffloadInv, Tags
<1>3. ~Saved(layer) /\ tensor_tag_to_state[layer] = "none"
  BY <1>0, <1>1 DEF Placed, Saved
<1>4. /\ pc' = "commit_forward"
      /\ num_layers' = num_layers /\ layer' = layer
      /\ current_group' = current_group
      /\ offloaded_group_count' = offloaded_group_count
      /\ group_offload_mapping' = group_offload_mapping
      /\ Becomes(z)
  BY <1>1, <1>3 DEF Forward
<1>5. /\ tensor_tag_to_state' =
            IF saves THEN [tensor_tag_to_state EXCEPT ![layer] = "device"]
            ELSE tensor_tag_to_state
      /\ saved_tag' = IF saves THEN [saved_tag EXCEPT ![layer] = layer] ELSE saved_tag
      /\ tensor_tag_to_buf' =
            IF saves /\ layer < num_offload_group
            THEN tensor_tag_to_buf \cup {layer} ELSE tensor_tag_to_buf
  BY <1>1, <1>3 DEF Forward
<1>6. Layers' = Layers /\ OffloadGroups' = OffloadGroups
  BY <1>4, SameLayers
<1>7. /\ \A g \in Layers : g # layer =>
            /\ tensor_tag_to_state'[g] = tensor_tag_to_state[g]
            /\ Saved(g)' <=> Saved(g)
      /\ tensor_tag_to_state'[layer] # "copy"
      /\ Saved(layer)' <=> saves
  <2>1. CASE saves
    <3>1. tensor_tag_to_state' = [tensor_tag_to_state EXCEPT ![layer] = "device"]
      BY <1>5, <2>1
    <3> QED
      BY <1>0, <1>2, <1>4, <2>1, <3>1 DEF Saved
  <2>2. CASE ~saves
    BY <1>3, <1>4, <1>5, <2>2 DEF Saved
  <2> QED
    BY <2>1, <2>2
<1>8. Tags'
  <2>1. tensor_tag_to_state' \in [Layers -> {"none", "device", "copy"}]
    BY <1>2, <1>5
  <2>2. saved_tag' = [l \in Layers |-> IF Saved(l)' THEN l ELSE NoTag]
    <3>1. CASE saves
      <4>1. saved_tag' = [saved_tag EXCEPT ![layer] = layer]
        BY <1>5, <3>1
      <4>2. \A g \in Layers : Saved(g)' <=> Saved(g) \/ g = layer
        BY <1>0, <1>3, <1>4, <1>7, <3>1 DEF Saved
      <4> QED
        BY <1>0, <1>2, <4>1, <4>2
    <3>2. CASE ~saves
      <4>1. \A g \in Layers : Saved(g)' <=> Saved(g)
        BY <1>3, <1>4, <1>7, <3>2 DEF Saved
      <4> QED
        BY <1>2, <1>5, <3>2, <4>1
    <3> QED
      BY <3>1, <3>2
  <2> QED
    BY <1>6, <2>1, <2>2 DEF Tags
<1>9. Books'
  <2>1. Placed(layer, layer)'
    BY <1>0, <1>1, <1>4, <1>6, <1>7 DEF Placed
  <2>2. Buffers({layer - 1, layer})'
    BY <1>0, <1>1, <1>4, <1>5, <1>6, <1>7, <1>3 DEF Buffers
  <2> QED
    BY <1>1, <1>4, <2>1, <2>2 DEF Books
<1>10. Needs(e) \subseteq seen["compute"]
  <2>1. \A g \in Layers : g + 2 <= layer /\ Saved(g) => <<"free", g>> \in seen["compute"]
    BY <1>1 DEF OffloadInv, Streamed
  <2>2. Needs(e) = {<<"free", g>> : g \in {h \in Layers : h + 2 <= layer /\ Saved(h)}}
    BY <1>0, NeedsAre
  <2> QED
    BY <2>1, <2>2
<1>11. /\ z \in Runs /\ Ordered(z)
       /\ Enqueued(z) = Enqueued(Now) \cup {e}
       /\ z.seen = [seen EXCEPT !["compute"] = @ \cup {e}]
  BY <1>0, <1>10, EnqueueRuns DEF OffloadInv, Events, Kinds, Streams, Now
<1>12. \A l \in Layers : <<"forward", l>> \in Enqueued(z) => l <= layer
  BY <1>0, <1>1, <1>11 DEF OffloadInv, Streamed
<1>13. \A f \in Enqueued(z) : Needs(f)' \subseteq Needs(f)
  <2> SUFFICES ASSUME NEW f \in Enqueued(z)
               PROVE  Needs(f)' \subseteq Needs(f)
    OBVIOUS
  <2>1. f \in Events
    BY <1>11 DEF Enqueued, Runs
  <2>2. \A g \in Layers : f[1] = "forward" /\ g + 2 <= f[2] => g # layer
    BY <1>0, <1>12, <2>1 DEF Events
  <2> QED
    BY <1>4, <1>7, <2>1, <2>2, NeedsNext
<1>14. seen' = z.seen /\ Now' \in Runs' /\ Ordered(Now)' /\ Now' = z
  BY <1>4, <1>11, <1>13, NowNext
<1>15. Streamed'
  <2>1. Enqueued(Now)' = Enqueued(Now) \cup {e}
    BY <1>11, <1>14 DEF Enqueued, Now
  <2>2. /\ seen'["d2h"] = seen["d2h"]
        /\ seen'["compute"] = seen["compute"] \cup {e}
    BY <1>11, <1>14 DEF OffloadInv, Runs, Now, Streams
  <2>3. /\ \A l \in Layers : <<"forward", l>> \in Enqueued(Now)' =>
               l < layer \/ l = layer
        /\ \A g \in Layers : g < layer /\ Saved(g)' => <<"offload", g>> \in seen'["d2h"]
        /\ \A g \in Layers : g + 2 <= layer /\ Saved(g)' =>
               <<"free", g>> \in seen'["compute"]
    BY <1>0, <1>1, <1>7, <1>12, <1>14, <2>1, <2>2 DEF OffloadInv, Streamed
  <2> QED
    BY <1>4, <1>6, <2>2, <2>3 DEF Streamed
<1> QED
  BY <1>0, <1>4, <1>6, <1>8, <1>9, <1>14, <1>15 DEF OffloadInv

\* A group's copy starts after its forward, where the copy stream has seen it.
LEMMA OffloadCopyRuns ==
    ASSUME NEW x \in Runs, Ordered(x), NEW g \in Layers,
           <<"forward", g>> \in x.seen["d2h"],
           NEW y, y = OffloadCopy(x, g)
    PROVE  /\ y \in Runs /\ Ordered(y)
           /\ Enqueued(y) \subseteq Enqueued(x) \cup {<<"offload", g>>}
           /\ \A s \in Streams : x.seen[s] \subseteq y.seen[s]
           /\ tensor_tag_to_state[g] = "device" => <<"offload", g>> \in y.seen["d2h"]
<1>1. CASE tensor_tag_to_state[g] = "device"
  <2>1. y = Enqueue(x, "d2h", <<"offload", g>>)
    BY <1>1 DEF OffloadCopy
  <2>2. <<"offload", g>> \in Events /\ "d2h" \in Streams
    BY DEF Events, Kinds, Streams
  <2>3. Needs(<<"offload", g>>) \subseteq x.seen["d2h"]
    BY NeedsAre
  <2>4. /\ y \in Runs /\ Ordered(y)
        /\ Enqueued(y) = Enqueued(x) \cup {<<"offload", g>>}
        /\ y.seen = [x.seen EXCEPT !["d2h"] = @ \cup {<<"offload", g>>}]
    BY <2>1, <2>2, <2>3, EnqueueRuns
  <2>5. x.seen \in [Streams -> SUBSET Events]
    BY DEF Runs
  <2> QED
    BY <2>2, <2>4, <2>5
<1>2. CASE tensor_tag_to_state[g] # "device"
  BY <1>2 DEF OffloadCopy
<1> QED
  BY <1>1, <1>2

\* A group's memory is freed after its copy, where that has been enqueued.
LEMMA ReleaseRuns ==
    ASSUME NEW x \in Runs, Ordered(x), NEW g \in Layers,
           g \in tensor_tag_to_buf => <<"offload", g>> \in x.seen["d2h"],
           NEW y, y = Release(x, g)
    PROVE  /\ y \in Runs /\ Ordered(y)
           /\ Enqueued(y) \subseteq Enqueued(x) \cup {<<"free", g>>}
           /\ \A s \in Streams : x.seen[s] \subseteq y.seen[s]
           /\ x.seen["compute"] \subseteq y.seen["d2h"]
           /\ x.seen["d2h"] \subseteq y.seen["compute"]
           /\ g \in tensor_tag_to_buf => <<"free", g>> \in y.seen["compute"]
<1> DEFINE v == Wait(x, "d2h", "compute")
           w == Wait(v, "compute", "d2h")
<1>0. "d2h" \in Streams /\ "compute" \in Streams
  BY DEF Streams
<1>1. /\ v \in Runs /\ Ordered(v) /\ Enqueued(v) = Enqueued(x)
      /\ v.seen = [x.seen EXCEPT !["d2h"] = @ \cup x.seen["compute"]]
  BY <1>0, WaitRuns
<1>2. /\ w \in Runs /\ Ordered(w) /\ Enqueued(w) = Enqueued(v)
      /\ w.seen = [v.seen EXCEPT !["compute"] = @ \cup v.seen["d2h"]]
  BY <1>0, <1>1, WaitRuns
<1>3. x.seen \in [Streams -> SUBSET Events] /\ v.seen \in [Streams -> SUBSET Events]
  BY <1>1 DEF Runs
<1>4. /\ \A s \in Streams : x.seen[s] \subseteq w.seen[s]
      /\ x.seen["compute"] \subseteq w.seen["d2h"]
      /\ x.seen["d2h"] \subseteq w.seen["compute"]
  BY <1>0, <1>1, <1>2, <1>3
<1>5. CASE g \in tensor_tag_to_buf
  <2>1. y = Enqueue(w, "compute", <<"free", g>>)
    BY <1>5 DEF Release
  <2>2. <<"free", g>> \in Events
    BY DEF Events, Kinds
  <2>3. Needs(<<"free", g>>) \subseteq w.seen["compute"]
    BY <1>4, <1>5, NeedsAre
  <2>4. /\ y \in Runs /\ Ordered(y)
        /\ Enqueued(y) = Enqueued(w) \cup {<<"free", g>>}
        /\ y.seen = [w.seen EXCEPT !["compute"] = @ \cup {<<"free", g>>}]
    BY <1>0, <1>2, <2>1, <2>2, <2>3, EnqueueRuns
  <2>5. w.seen \in [Streams -> SUBSET Events]
    BY <1>2 DEF Runs
  <2>6. \A s \in Streams : w.seen[s] \subseteq y.seen[s]
    BY <2>4, <2>5
  <2> QED
    BY <1>0, <1>1, <1>2, <1>4, <2>4, <2>5, <2>6
<1>6. CASE g \notin tensor_tag_to_buf
  BY <1>1, <1>2, <1>4, <1>6 DEF Release
<1> QED
  BY <1>5, <1>6

\* Offloading moves groups to the host and frees no tag.
LEMMA OffloadTags ==
    ASSUME NEW groups, Offload(groups), Tags, num_layers' = num_layers,
           saved_tag' = saved_tag
    PROVE  /\ Tags'
           /\ \A g \in Layers :
                  /\ Saved(g)' <=> Saved(g)
                  /\ tensor_tag_to_state'[g] =
                         IF g \in groups /\ tensor_tag_to_state[g] = "device"
                         THEN "copy" ELSE tensor_tag_to_state[g]
<1>1. Layers' = Layers
  BY SameLayers
<1>2. \A g \in Layers : tensor_tag_to_state'[g] =
          IF g \in groups /\ tensor_tag_to_state[g] = "device"
          THEN "copy" ELSE tensor_tag_to_state[g]
  BY DEF Offload
<1>3. \A g \in Layers : Saved(g)' <=> Saved(g)
  BY <1>2 DEF Saved
<1>4. tensor_tag_to_state' \in [Layers -> {"none", "device", "copy"}]
  BY DEF Offload, Tags
<1>5. saved_tag' = [l \in Layers |-> IF Saved(l)' THEN l ELSE NoTag]
  BY <1>3 DEF Tags
<1> QED
  BY <1>1, <1>2, <1>3, <1>4, <1>5 DEF Tags

\* Where a commit in forward stands.
LEMMA AtCommitForward ==
    ASSUME OffloadInv, pc = "commit_forward"
    PROVE  /\ num_layers \in Nat /\ num_layers >= 3
           /\ Layers = 0..(num_layers - 1)
           /\ OffloadGroups = 0..(num_layers - 2)
           /\ num_offload_group = num_layers - 1
           /\ layer \in Layers /\ layer \in Nat
           /\ current_group = layer
           /\ offloaded_group_count = IF layer = 0 THEN 0 ELSE layer - 1
           /\ offloaded_group_count \in OffloadGroups
           /\ layer_window_map(offloaded_group_count) = offloaded_group_count + 1
           /\ group_offload_mapping = 0..(layer - 1)
           /\ Placed(layer, layer)
           /\ Buffers({layer - 1, layer})
           /\ tensor_tag_to_state \in [Layers -> {"none", "device", "copy"}]
           /\ Now \in Runs /\ Ordered(Now) /\ Now.seen = seen
           /\ <<"forward", layer>> \in seen["compute"]
           /\ \A l \in Layers : <<"forward", l>> \in Enqueued(Now) => l <= layer
           /\ \A g \in Layers : g < layer /\ Saved(g) => <<"offload", g>> \in seen["d2h"]
           /\ \A g \in Layers : g + 2 <= layer /\ Saved(g) =>
                  <<"free", g>> \in seen["compute"]
<1>1. /\ num_layers \in Nat /\ num_layers >= 3
      /\ Layers = 0..(num_layers - 1)
      /\ OffloadGroups = 0..(num_layers - 2)
      /\ num_offload_group = num_layers - 1
      /\ layer \in Layers /\ layer \in Nat
  BY LayersAre DEF OffloadInv
<1>2. /\ current_group = layer
      /\ offloaded_group_count = IF layer = 0 THEN 0 ELSE layer - 1
      /\ group_offload_mapping = 0..(layer - 1)
      /\ Placed(layer, layer)
      /\ Buffers({layer - 1, layer})
  BY DEF OffloadInv, Books
<1>3. offloaded_group_count \in OffloadGroups
  BY <1>1, <1>2
<1>4. layer_window_map(offloaded_group_count) = offloaded_group_count + 1
  BY <1>3, WindowsAre DEF OffloadInv
<1>5. /\ <<"forward", layer>> \in seen["compute"]
      /\ \A l \in Layers : <<"forward", l>> \in Enqueued(Now) => l <= layer
      /\ \A g \in Layers : g < layer /\ Saved(g) => <<"offload", g>> \in seen["d2h"]
      /\ \A g \in Layers : g + 2 <= layer /\ Saved(g) =>
             <<"free", g>> \in seen["compute"]
  BY <1>1 DEF OffloadInv, Streamed
<1> QED
  BY <1>1, <1>2, <1>3, <1>4, <1>5 DEF OffloadInv, Tags, Now

\* The first commit starts the copy of group 0 and releases nothing.
LEMMA FirstCommitKeeps ==
    ASSUME OffloadInv, CommitForward, layer = 0
    PROVE  OffloadInv'
<1> DEFINE w == Wait(Now, "d2h", "compute")
           z == OffloadCopy(w, 0)
<1>0. pc = "commit_forward" /\ 0 \in Layers /\ 0 \in Nat
  BY DEF OffloadInv, CommitForward
<1>1. offloaded_group_count = 0 /\ current_group = 0 /\ num_layers >= 3 /\ num_layers \in Nat
  BY <1>0, AtCommitForward
<1>2. /\ pc' = "forward" /\ layer' = 1 /\ current_group' = 1
      /\ Offload({0}) /\ Becomes(z)
      /\ tensor_tag_to_buf' = tensor_tag_to_buf
      /\ offloaded_group_count' = 0
      /\ num_layers' = num_layers /\ saved_tag' = saved_tag
  <2>1. layer_window_map(0) # 0 /\ 0 \in OffloadGroups
    BY <1>0, <1>1, AtCommitForward
  <2> QED
    BY <1>0, <1>1, <2>1 DEF CommitForward, StartOffload
<1>3. /\ Layers' = Layers /\ OffloadGroups' = OffloadGroups
      /\ Layers = 0..(num_layers - 1) /\ OffloadGroups = 0..(num_layers - 2)
  BY <1>0, <1>2, SameLayers, AtCommitForward
<1>4. /\ Tags'
      /\ \A g \in Layers :
             /\ Saved(g)' <=> Saved(g)
             /\ tensor_tag_to_state'[g] =
                    IF g \in {0} /\ tensor_tag_to_state[g] = "device"
                    THEN "copy" ELSE tensor_tag_to_state[g]
  BY <1>2, OffloadTags DEF OffloadInv
<1>5. /\ Placed(0, 0) /\ Buffers({-1, 0}) /\ group_offload_mapping = {}
  <2>1. 0..(0 - 1) = {} /\ 0 - 1 = -1
    OBVIOUS
  <2> QED
    BY <1>0, <2>1, AtCommitForward
<1>6. Books'
  <2>1. Placed(1, 0)'
    BY <1>1, <1>3, <1>4, <1>5 DEF Placed
  <2>2. Buffers({0})'
    BY <1>1, <1>2, <1>3, <1>4, <1>5 DEF Buffers
  <2>3. group_offload_mapping' = 0..0
    BY <1>2, <1>5 DEF Offload
  <2> QED
    BY <1>2, <2>1, <2>2, <2>3 DEF Books
<1>7. "d2h" \in Streams /\ "compute" \in Streams
  BY DEF Streams
<1>8. /\ w \in Runs /\ Ordered(w) /\ Enqueued(w) = Enqueued(Now)
      /\ w.seen = [seen EXCEPT !["d2h"] = @ \cup seen["compute"]]
      /\ seen \in [Streams -> SUBSET Events]
  <2>1. Now \in Runs /\ Ordered(Now) /\ Now.seen = seen
    BY <1>0, AtCommitForward
  <2>2. seen \in [Streams -> SUBSET Events]
    BY <2>1 DEF Runs
  <2>3. /\ w \in Runs /\ Ordered(w) /\ Enqueued(w) = Enqueued(Now)
        /\ w.seen = [Now.seen EXCEPT !["d2h"] = @ \cup Now.seen["compute"]]
    BY <1>7, <2>1, WaitRuns
  <2> QED
    BY <2>1, <2>2, <2>3
<1>9. /\ z \in Runs /\ Ordered(z)
      /\ Enqueued(z) \subseteq Enqueued(Now) \cup {<<"offload", 0>>}
      /\ tensor_tag_to_state[0] = "device" => <<"offload", 0>> \in z.seen["d2h"]
  <2>1. <<"forward", 0>> \in w.seen["d2h"]
    BY <1>0, <1>7, <1>8, AtCommitForward
  <2> QED
    BY <1>0, <1>8, <2>1, OffloadCopyRuns
<1>10. \A f \in Enqueued(z) : Needs(f)' \subseteq Needs(f)
  <2>1. Enqueued(z) \subseteq Events
    BY <1>9 DEF Enqueued, Runs
  <2> QED
    BY <1>2, <1>4, <2>1, NeedsNext
<1>11. seen' = z.seen /\ Now' \in Runs' /\ Ordered(Now)' /\ Now' = z
  BY <1>2, <1>9, <1>10, NowNext
<1>12. Streamed'
  <2>1. Enqueued(Now)' = Enqueued(z)
    BY <1>11 DEF Enqueued, Now
  <2>2. \A l \in Layers : <<"forward", l>> \in Enqueued(Now)' => l < 1
    BY <1>0, <1>3, <1>9, <2>1, AtCommitForward
  <2>3. \A g \in Layers : g < 1 /\ Saved(g)' => <<"offload", g>> \in seen'["d2h"]
    <3>1. Saved(0) => tensor_tag_to_state[0] = "device"
      BY <1>0, <1>5, AtCommitForward DEF Placed, Saved
    <3>2. \A g \in Layers : g < 1 => g = 0
      BY <1>1, <1>3
    <3> QED
      BY <1>0, <1>4, <1>9, <1>11, <3>1, <3>2
  <2>4. \A g \in Layers : g + 2 <= 1 => FALSE
    BY <1>1, <1>3
  <2> QED
    BY <1>2, <1>3, <2>2, <2>3, <2>4 DEF Streamed
<1> QED
  BY <1>0, <1>1, <1>2, <1>3, <1>4, <1>6, <1>11, <1>12 DEF OffloadInv

\* A commit between the first and the last layer frees the group before and
\* starts the copy of its own.
LEMMA MiddleCommitKeeps ==
    ASSUME OffloadInv, CommitForward, layer >= 1, layer <= num_layers - 2
    PROVE  OffloadInv'
<1> DEFINE due == layer - 1
           w == Release(Now, due)
           z == OffloadCopy(w, layer)
<1>0. /\ pc = "commit_forward"
      /\ num_layers \in Nat /\ num_layers >= 3
      /\ Layers = 0..(num_layers - 1)
      /\ OffloadGroups = 0..(num_layers - 2)
      /\ num_offload_group = num_layers - 1
      /\ layer \in Layers /\ layer \in Nat /\ due \in Layers /\ due \in OffloadGroups
      /\ layer \in OffloadGroups
  BY AtCommitForward DEF CommitForward
<1>1. /\ offloaded_group_count = due /\ current_group = layer
      /\ layer_window_map(due) = layer
  BY <1>0, AtCommitForward
<1>2. /\ pc' = "forward" /\ layer' = layer + 1 /\ current_group' = layer + 1
      /\ Offload({layer}) /\ Becomes(z)
      /\ tensor_tag_to_buf' = tensor_tag_to_buf \ {due}
      /\ offloaded_group_count' = layer
      /\ num_layers' = num_layers /\ saved_tag' = saved_tag
  <2>1. NextGroup(due) = {layer} /\ AfterRelease(due) = layer
    BY <1>0 DEF NextGroup, AfterRelease
  <2>2. {} \cup {layer} = {layer} /\ {layer} # {} /\ (CHOOSE g \in {layer} : TRUE) = layer
    OBVIOUS
  <2>3. current_group # 0 /\ layer # num_layers - 1
    BY <1>0, <1>1
  <2> QED
    BY <1>0, <1>1, <2>1, <2>2, <2>3 DEF CommitForward
<1>3. Layers' = Layers /\ OffloadGroups' = OffloadGroups
  BY <1>2, SameLayers
<1>4. /\ Tags'
      /\ \A g \in Layers :
             /\ Saved(g)' <=> Saved(g)
             /\ tensor_tag_to_state'[g] =
                    IF g \in {layer} /\ tensor_tag_to_state[g] = "device"
                    THEN "copy" ELSE tensor_tag_to_state[g]
  BY <1>2, OffloadTags DEF OffloadInv
<1>5. /\ Placed(layer, layer) /\ Buffers({layer - 1, layer})
      /\ group_offload_mapping = 0..(layer - 1)
  BY <1>0, AtCommitForward
<1>6. Books'
  <2>1. Placed(layer, layer - 1)'
    <3>1. layer' = layer + 1 /\ layer' - 1 = layer
      BY <1>0, <1>2
    <3>2. \A g \in Layers : /\ g < layer + 1 => tensor_tag_to_state'[g] # "device"
                            /\ g > layer => ~Saved(g)'
      BY <1>0, <1>4, <1>5 DEF Placed
    <3> QED
      BY <1>0, <1>3, <3>1, <3>2 DEF Placed
  <2>2. Buffers({layer - 1})'
    <3>1. layer' - 1 = layer
      BY <1>0, <1>2
    <3>2. tensor_tag_to_buf' = {g \in OffloadGroups : g \in {layer} /\ Saved(g)}
      BY <1>0, <1>2, <1>5 DEF Buffers
    <3>3. \A g \in OffloadGroups : Saved(g)' <=> Saved(g)
      BY <1>0, <1>4
    <3> QED
      BY <1>3, <3>1, <3>2, <3>3 DEF Buffers
  <2>3. group_offload_mapping' = 0..(layer' - 1)
    BY <1>0, <1>2, <1>5 DEF Offload
  <2> QED
    BY <1>0, <1>2, <2>1, <2>2, <2>3 DEF Books
<1>7. "d2h" \in Streams /\ "compute" \in Streams
  BY DEF Streams
<1>8. Now \in Runs /\ Ordered(Now) /\ Now.seen = seen
  BY <1>0, AtCommitForward
<1>9. /\ due \in tensor_tag_to_buf => Saved(due)
      /\ Saved(due) => due \in tensor_tag_to_buf /\ <<"offload", due>> \in seen["d2h"]
  BY <1>0, <1>5, AtCommitForward DEF Buffers
<1>10. /\ w \in Runs /\ Ordered(w)
       /\ Enqueued(w) \subseteq Enqueued(Now) \cup {<<"free", due>>}
       /\ \A s \in Streams : seen[s] \subseteq w.seen[s]
       /\ seen["compute"] \subseteq w.seen["d2h"]
       /\ Saved(due) => <<"free", due>> \in w.seen["compute"]
  <2>1. /\ w \in Runs /\ Ordered(w)
        /\ Enqueued(w) \subseteq Enqueued(Now) \cup {<<"free", due>>}
        /\ \A s \in Streams : Now.seen[s] \subseteq w.seen[s]
        /\ Now.seen["compute"] \subseteq w.seen["d2h"]
        /\ due \in tensor_tag_to_buf => <<"free", due>> \in w.seen["compute"]
    <3>1. due \in tensor_tag_to_buf => <<"offload", due>> \in Now.seen["d2h"]
      BY <1>8, <1>9
    <3>2. \A x \in Runs :
              /\ Ordered(x)
              /\ due \in tensor_tag_to_buf => <<"offload", due>> \in x.seen["d2h"]
              => /\ Release(x, due) \in Runs /\ Ordered(Release(x, due))
                 /\ Enqueued(Release(x, due)) \subseteq Enqueued(x) \cup {<<"free", due>>}
                 /\ \A s \in Streams : x.seen[s] \subseteq Release(x, due).seen[s]
                 /\ x.seen["compute"] \subseteq Release(x, due).seen["d2h"]
                 /\ due \in tensor_tag_to_buf =>
                        <<"free", due>> \in Release(x, due).seen["compute"]
      BY <1>0, ReleaseRuns
    <3> QED
      BY <1>8, <3>1, <3>2, ZenonT(30)
  <2> QED
    BY <1>8, <1>9, <2>1
<1>11. /\ z \in Runs /\ Ordered(z)
       /\ Enqueued(z) \subseteq Enqueued(w) \cup {<<"offload", layer>>}
       /\ \A s \in Streams : w.seen[s] \subseteq z.seen[s]
       /\ tensor_tag_to_state[layer] = "device" => <<"offload", layer>> \in z.seen["d2h"]
  <2>1. <<"forward", layer>> \in w.seen["d2h"]
    BY <1>0, <1>10, AtCommitForward
  <2> QED
    BY <1>0, <1>10, <2>1, OffloadCopyRuns
<1>12. \A f \in Enqueued(z) : Needs(f)' \subseteq Needs(f)
  <2>1. Enqueued(z) \subseteq Events
    BY <1>11 DEF Enqueued, Runs
  <2> QED
    BY <1>2, <1>4, <2>1, NeedsNext
<1>13. seen' = z.seen /\ Now' \in Runs' /\ Ordered(Now)' /\ Now' = z
  BY <1>2, <1>11, <1>12, NowNext
<1>14. Streamed'
  <2>1. Enqueued(Now)' = Enqueued(z)
    BY <1>13 DEF Enqueued, Now
  <2>2. \A l \in Layers : <<"forward", l>> \in Enqueued(Now)' => l < layer + 1
    <3>1. \A l \in Layers : <<"forward", l>> \in Enqueued(z) =>
              <<"forward", l>> \in Enqueued(Now)
      BY <1>10, <1>11
    <3> QED
      BY <1>0, <2>1, <3>1, AtCommitForward
  <2>3. \A g \in Layers : g < layer + 1 /\ Saved(g)' => <<"offload", g>> \in seen'["d2h"]
    <3>1. Saved(layer) => tensor_tag_to_state[layer] = "device"
      BY <1>0, <1>5, AtCommitForward DEF Placed, Saved
    <3>2. \A g \in Layers : g < layer /\ Saved(g) => <<"offload", g>> \in seen'["d2h"]
      BY <1>0, <1>7, <1>10, <1>11, <1>13, AtCommitForward
    <3>3. \A g \in Layers : g < layer + 1 => g < layer \/ g = layer
      BY <1>0
    <3> QED
      BY <1>0, <1>4, <1>11, <1>13, <3>1, <3>2, <3>3
  <2>4. \A g \in Layers : g + 2 <= layer + 1 /\ Saved(g)' =>
            <<"free", g>> \in seen'["compute"]
    <3>1. \A g \in Layers : g + 2 <= layer /\ Saved(g) => <<"free", g>> \in seen'["compute"]
      BY <1>0, <1>7, <1>10, <1>11, <1>13, AtCommitForward
    <3>2. \A g \in Layers : g + 2 <= layer + 1 => g + 2 <= layer \/ g = due
      BY <1>0
    <3> QED
      BY <1>0, <1>4, <1>7, <1>10, <1>11, <1>13, <3>1, <3>2
  <2> QED
    BY <1>2, <1>3, <2>2, <2>3, <2>4 DEF Streamed
<1> QED
  <2>1. layer' \in Layers' /\ num_layers' \in LayerCounts
    BY <1>0, <1>2, <1>3 DEF OffloadInv
  <2> QED
    BY <1>2, <1>4, <1>6, <1>13, <1>14, <2>1 DEF OffloadInv

\* The commit of the last layer frees the group before, waits for its copy,
\* and starts none: its own group stays on the device.
LEMMA LastCommitKeeps ==
    ASSUME OffloadInv, CommitForward, layer = num_layers - 1
    PROVE  OffloadInv'
<1> DEFINE due == layer - 1
           z == Release(Now, due)
<1>0. /\ pc = "commit_forward"
      /\ num_layers \in Nat /\ num_layers >= 3
      /\ Layers = 0..(num_layers - 1)
      /\ OffloadGroups = 0..(num_layers - 2)
      /\ num_offload_group = num_layers - 1
      /\ layer \in Layers /\ layer \in Nat /\ layer >= 2
      /\ due \in Layers /\ due \in OffloadGroups
  BY AtCommitForward DEF CommitForward
<1>1. /\ offloaded_group_count = due /\ current_group = layer
      /\ layer_window_map(due) = layer
  BY <1>0, AtCommitForward
<1>2. /\ pc' = "commit_backward" /\ layer' = layer /\ current_group' = layer + 1
      /\ Offload({}) /\ Becomes(z)
      /\ tensor_tag_to_buf' = tensor_tag_to_buf \ {due}
      /\ offloaded_group_count' = layer
      /\ num_layers' = num_layers /\ saved_tag' = saved_tag
  <2>1. NextGroup(due) = {} /\ AfterRelease(due) = layer
    BY <1>0 DEF NextGroup, AfterRelease
  <2>2. {} \cup {} = {}
    OBVIOUS
  <2>3. current_group # 0
    BY <1>0, <1>1
  <2> QED
    BY <1>0, <1>1, <2>1, <2>2, <2>3 DEF CommitForward
<1>3. Layers' = Layers /\ OffloadGroups' = OffloadGroups
  BY <1>2, SameLayers
<1>4. /\ Tags'
      /\ \A g \in Layers :
             /\ Saved(g)' <=> Saved(g)
             /\ tensor_tag_to_state'[g] = tensor_tag_to_state[g]
  BY <1>2, OffloadTags DEF OffloadInv
<1>5. /\ Placed(layer, layer) /\ Buffers({layer - 1, layer})
      /\ group_offload_mapping = 0..(layer - 1)
  BY <1>0, AtCommitForward
<1>6. Books'
  <2>1. Placed(layer, layer)'
    BY <1>0, <1>2, <1>3, <1>4, <1>5 DEF Placed
  <2>2. tensor_tag_to_buf' = {}
    BY <1>0, <1>2, <1>5 DEF Buffers
  <2>3. group_offload_mapping' = 0..(layer' - 1)
    BY <1>0, <1>2, <1>5 DEF Offload
  <2> QED
    BY <1>0, <1>2, <2>1, <2>2, <2>3 DEF Books
<1>7. "d2h" \in Streams /\ "compute" \in Streams
  BY DEF Streams
<1>8. Now \in Runs /\ Ordered(Now) /\ Now.seen = seen
  BY <1>0, AtCommitForward
<1>9. due \in tensor_tag_to_buf => <<"offload", due>> \in seen["d2h"]
  BY <1>0, <1>5, AtCommitForward DEF Buffers
<1>10. /\ z \in Runs /\ Ordered(z)
       /\ seen["d2h"] \subseteq z.seen["compute"]
  <2>1. due \in tensor_tag_to_buf => <<"offload", due>> \in Now.seen["d2h"]
    BY <1>8, <1>9
  <2>2. /\ z \in Runs /\ Ordered(z)
        /\ Enqueued(z) \subseteq Enqueued(Now) \cup {<<"free", due>>}
        /\ \A s \in Streams : Now.seen[s] \subseteq z.seen[s]
        /\ Now.seen["compute"] \subseteq z.seen["d2h"]
        /\ Now.seen["d2h"] \subseteq z.seen["compute"]
    <3>1. due \in Layers
      BY <1>0
    <3> HIDE DEF due
    <3> QED
      BY <1>8, <2>1, <3>1, ReleaseRuns
  <2> QED
    BY <1>8, <2>2
<1>11. \A f \in Enqueued(z) : Needs(f)' \subseteq Needs(f)
  <2>1. Enqueued(z) \subseteq Events
    BY <1>10 DEF Enqueued, Runs
  <2> QED
    BY <1>2, <1>4, <2>1, NeedsNext
<1>12. seen' = z.seen /\ Now' \in Runs' /\ Ordered(Now)' /\ Now' = z
  BY <1>2, <1>10, <1>11, NowNext
<1>13. Streamed'
  <2>1. \A g \in Layers : g < layer /\ Saved(g)' => <<"offload", g>> \in seen'["compute"]
    BY <1>0, <1>4, <1>10, <1>12, AtCommitForward
  <2>2. \A l \in Layers : ~(l > layer)
    BY <1>0
  <2>3. layer \notin OffloadGroups
    BY <1>0
  <2> QED
    BY <1>2, <1>3, <2>1, <2>2, <2>3 DEF Streamed
<1> QED
  <2>1. layer' \in Layers' /\ num_layers' \in LayerCounts
    BY <1>0, <1>2, <1>3 DEF OffloadInv
  <2> QED
    BY <1>2, <1>4, <1>6, <1>12, <1>13, <2>1 DEF OffloadInv

\* Every commit in forward releases the group before and copies its own.
LEMMA CommitForwardKeeps ==
    ASSUME OffloadInv, CommitForward
    PROVE  OffloadInv'
<1>1. layer = 0 \/ (layer >= 1 /\ layer <= num_layers - 2) \/ layer = num_layers - 1
  BY AtCommitForward DEF CommitForward
<1> QED
  BY <1>1, FirstCommitKeeps, MiddleCommitKeeps, LastCommitKeeps

\* Where a commit in backward stands.
LEMMA AtCommitBackward ==
    ASSUME OffloadInv, pc = "commit_backward"
    PROVE  /\ num_layers \in Nat /\ num_layers >= 3
           /\ Layers = 0..(num_layers - 1)
           /\ OffloadGroups = 0..(num_layers - 2)
           /\ layer \in Layers /\ layer \in Nat
           /\ current_group = layer + 1
           /\ offloaded_group_count = IF layer = 0 THEN 1 ELSE layer
           /\ group_offload_mapping = 0..(layer - 1)
           /\ Placed(layer, layer)
           /\ tensor_tag_to_buf = {}
           /\ tensor_tag_to_state \in [Layers -> {"none", "device", "copy"}]
           /\ Now \in Runs /\ Ordered(Now) /\ Now.seen = seen
           /\ seen \in [Streams -> SUBSET Events]
           /\ \A g \in Layers : g < layer /\ Saved(g) => <<"offload", g>> \in seen["compute"]
           /\ \A l \in Layers : l > layer => <<"backward", l>> \in seen["compute"]
           /\ layer \in OffloadGroups /\ Saved(layer) => <<"reload", layer>> \in seen["h2d"]
<1>1. /\ num_layers \in Nat /\ num_layers >= 3
      /\ Layers = 0..(num_layers - 1)
      /\ OffloadGroups = 0..(num_layers - 2)
      /\ layer \in Layers /\ layer \in Nat
  BY LayersAre DEF OffloadInv
<1>2. /\ current_group = layer + 1
      /\ offloaded_group_count = IF layer = 0 THEN 1 ELSE layer
      /\ group_offload_mapping = 0..(layer - 1)
      /\ Placed(layer, layer)
      /\ tensor_tag_to_buf = {}
  BY DEF OffloadInv, Books
<1>3. /\ \A g \in Layers : g < layer /\ Saved(g) => <<"offload", g>> \in seen["compute"]
      /\ \A l \in Layers : l > layer => <<"backward", l>> \in seen["compute"]
      /\ layer \in OffloadGroups /\ Saved(layer) => <<"reload", layer>> \in seen["h2d"]
  BY DEF OffloadInv, Streamed
<1> QED
  BY <1>1, <1>2, <1>3 DEF OffloadInv, Tags, Now, Runs

\* The last commit of a step waits for the last copy back.
LEMMA LastReloadKeeps ==
    ASSUME OffloadInv, CommitBackward, layer = 0
    PROVE  OffloadInv'
<1> DEFINE z == Wait(Now, "compute", "h2d")
<1>0. /\ pc = "commit_backward"
      /\ num_layers \in Nat /\ num_layers >= 3
      /\ Layers = 0..(num_layers - 1)
      /\ OffloadGroups = 0..(num_layers - 2)
      /\ current_group = 1 /\ offloaded_group_count = 1
      /\ 0 \in OffloadGroups /\ 0 \in Layers
  BY AtCommitBackward DEF CommitBackward
<1>1. layer_window_map(0) = 1
  BY <1>0, WindowsAre DEF OffloadInv
<1>2. /\ pc' = "backward" /\ layer' = 0 /\ current_group' = 0
      /\ offloaded_group_count' = 0 /\ Becomes(z)
      /\ tensor_tag_to_state' = tensor_tag_to_state
      /\ group_offload_mapping' = group_offload_mapping
      /\ tensor_tag_to_buf' = tensor_tag_to_buf
      /\ num_layers' = num_layers /\ saved_tag' = saved_tag
  <2>1. current_group - 1 = 0 /\ offloaded_group_count - 1 = 0
    BY <1>0
  <2> QED
    BY <1>0, <1>1, <2>1 DEF CommitBackward, LastWait, CountAfter
<1>3. Layers' = Layers /\ OffloadGroups' = OffloadGroups
  BY <1>2, SameLayers
<1>4. \A g \in Layers : Saved(g)' <=> Saved(g)
  BY <1>2 DEF Saved
<1>5. Tags'
  BY <1>2, <1>3, <1>4 DEF Tags, OffloadInv
<1>6. Books'
  <2>1. Placed(0, 0) /\ group_offload_mapping = 0..(0 - 1) /\ tensor_tag_to_buf = {}
    BY <1>0, AtCommitBackward
  <2>2. Placed(layer - 1, layer)'
    BY <1>0, <1>2, <1>3, <1>4, <2>1 DEF Placed
  <2>3. 0..(0 - 1) = 0..(0 - 2)
    OBVIOUS
  <2> QED
    BY <1>2, <2>1, <2>2, <2>3 DEF Books
<1>7. /\ Now \in Runs /\ Ordered(Now) /\ Now.seen = seen
      /\ seen \in [Streams -> SUBSET Events]
  BY <1>0, AtCommitBackward
<1>8. "compute" \in Streams /\ "h2d" \in Streams
  BY DEF Streams
<1>9. /\ z \in Runs /\ Ordered(z)
      /\ Enqueued(z) = Enqueued(Now)
      /\ z.seen = [seen EXCEPT !["compute"] = @ \cup seen["h2d"]]
  <2>1. /\ z \in Runs /\ Ordered(z)
        /\ Enqueued(z) = Enqueued(Now)
        /\ z.seen = [Now.seen EXCEPT !["compute"] = @ \cup Now.seen["h2d"]]
    <3>1. \A x \in Runs : Ordered(x) =>
             /\ Wait(x, "compute", "h2d") \in Runs /\ Ordered(Wait(x, "compute", "h2d"))
             /\ Enqueued(Wait(x, "compute", "h2d")) = Enqueued(x)
             /\ Wait(x, "compute", "h2d").seen =
                    [x.seen EXCEPT !["compute"] = @ \cup x.seen["h2d"]]
      BY <1>8, WaitRuns
    <3> QED
      BY <1>7, <3>1, ZenonT(30)
  <2> QED
    BY <1>7, <2>1
<1>10. \A f \in Enqueued(z) : Needs(f)' \subseteq Needs(f)
  <2>1. Enqueued(z) \subseteq Events
    BY <1>9 DEF Enqueued, Runs
  <2> QED
    BY <1>2, <1>4, <2>1, NeedsNext
<1>11. seen' = z.seen /\ Now' \in Runs' /\ Ordered(Now)' /\ Now' = z
  BY <1>2, <1>9, <1>10, NowNext
<1>12. Streamed'
  <2>1. seen'["compute"] = seen["compute"] \cup seen["h2d"]
    BY <1>7, <1>8, <1>9, <1>11
  <2>2. \A l \in Layers : l > 0 => <<"backward", l>> \in seen'["compute"]
    BY <1>0, <2>1, AtCommitBackward
  <2>3. Saved(0)' => <<"reload", 0>> \in seen'["compute"]
    BY <1>0, <1>4, <2>1, AtCommitBackward
  <2>4. \A g \in Layers : ~(g < 0)
    BY <1>0
  <2> QED
    BY <1>2, <1>3, <2>2, <2>3, <2>4 DEF Streamed
<1> QED
  BY <1>0, <1>2, <1>3, <1>5, <1>6, <1>11, <1>12 DEF OffloadInv

\* Every other commit of backward starts the copy back of the group before.
LEMMA ReloadKeeps ==
    ASSUME OffloadInv, CommitBackward, layer >= 1
    PROVE  OffloadInv'
<1> DEFINE due == layer - 1
           v == Wait(Now, "h2d", "compute")
           w == ReloadWaits(Now)
           z == IF tensor_tag_to_state[due] = "copy"
                THEN Enqueue(w, "h2d", <<"reload", due>>) ELSE w
<1>0. /\ pc = "commit_backward"
      /\ num_layers \in Nat /\ num_layers >= 3
      /\ Layers = 0..(num_layers - 1)
      /\ OffloadGroups = 0..(num_layers - 2)
      /\ layer \in Layers /\ layer \in Nat
      /\ current_group = layer + 1 /\ offloaded_group_count = layer
      /\ due \in OffloadGroups /\ due \in Layers
      /\ group_offload_mapping = 0..(layer - 1)
      /\ Placed(layer, layer)
      /\ tensor_tag_to_buf = {}
      /\ tensor_tag_to_state \in [Layers -> {"none", "device", "copy"}]
  BY AtCommitBackward DEF CommitBackward
<1>1. layer_window_map(due) = layer
  BY <1>0, WindowsAre DEF OffloadInv
<1>2. /\ pc' = "backward" /\ layer' = layer /\ current_group' = layer
      /\ offloaded_group_count' = IF layer <= 1 THEN layer ELSE layer - 1
      /\ Becomes(z)
      /\ tensor_tag_to_state' = [tensor_tag_to_state EXCEPT ![due] =
                                    IF @ = "copy" THEN "device" ELSE @]
      /\ group_offload_mapping' = group_offload_mapping \ {due}
      /\ tensor_tag_to_buf' = tensor_tag_to_buf
      /\ num_layers' = num_layers /\ saved_tag' = saved_tag
  <2>1. current_group - 1 = layer /\ offloaded_group_count - 1 = due
    BY <1>0
  <2>2. due \in group_offload_mapping /\ layer # 0 /\ ~(layer < 0)
    BY <1>0
  <2>3. /\ CountAfter(layer, AfterReload(layer)) = IF layer <= 1 THEN layer ELSE layer - 1
        /\ LastWait(z, layer) = z
    BY <1>0 DEF CountAfter, AfterReload, LastWait
  <2> QED
    BY <1>0, <1>1, <2>1, <2>2, <2>3 DEF CommitBackward
<1>3. Layers' = Layers /\ OffloadGroups' = OffloadGroups
  BY <1>2, SameLayers
<1>4. /\ \A g \in Layers :
             /\ Saved(g)' <=> Saved(g)
             /\ g # due => tensor_tag_to_state'[g] = tensor_tag_to_state[g]
      /\ tensor_tag_to_state'[due] # "copy"
  BY <1>0, <1>2 DEF Saved
<1>5. Tags'
  <2>1. tensor_tag_to_state' \in [Layers -> {"none", "device", "copy"}]
    BY <1>0, <1>2
  <2> QED
    BY <1>2, <1>3, <1>4, <2>1 DEF Tags, OffloadInv
<1>6. Books'
  <2>1. Placed(layer - 1, layer)'
    BY <1>0, <1>2, <1>3, <1>4 DEF Placed
  <2>2. group_offload_mapping' = 0..(layer - 2)
    BY <1>0, <1>2
  <2> QED
    BY <1>0, <1>2, <2>1, <2>2 DEF Books
<1>7. /\ Now \in Runs /\ Ordered(Now) /\ Now.seen = seen
      /\ seen \in [Streams -> SUBSET Events]
  BY <1>0, AtCommitBackward
<1>8. "compute" \in Streams /\ "h2d" \in Streams
  BY DEF Streams
<1>9. /\ v \in Runs /\ Ordered(v) /\ Enqueued(v) = Enqueued(Now)
      /\ v.seen = [seen EXCEPT !["h2d"] = @ \cup seen["compute"]]
  <2>1. /\ v \in Runs /\ Ordered(v) /\ Enqueued(v) = Enqueued(Now)
        /\ v.seen = [Now.seen EXCEPT !["h2d"] = @ \cup Now.seen["compute"]]
    <3>1. \A x \in Runs : Ordered(x) =>
             /\ Wait(x, "h2d", "compute") \in Runs /\ Ordered(Wait(x, "h2d", "compute"))
             /\ Enqueued(Wait(x, "h2d", "compute")) = Enqueued(x)
             /\ Wait(x, "h2d", "compute").seen =
                    [x.seen EXCEPT !["h2d"] = @ \cup x.seen["compute"]]
      BY <1>8, WaitRuns
    <3> QED
      BY <1>7, <3>1, ZenonT(30)
  <2> QED
    BY <1>7, <2>1
<1>10. /\ w \in Runs /\ Ordered(w) /\ Enqueued(w) = Enqueued(Now)
       /\ w.seen = [v.seen EXCEPT !["compute"] = @ \cup v.seen["h2d"]]
  <2>1. w = Wait(v, "compute", "h2d")
    BY DEF ReloadWaits
  <2> QED
    BY <1>8, <1>9, <2>1, WaitRuns
<1>11. /\ w.seen["h2d"] = seen["h2d"] \cup seen["compute"]
       /\ w.seen["compute"] = seen["h2d"] \cup seen["compute"]
       /\ w.seen \in [Streams -> SUBSET Events]
  <2>1. v.seen \in [Streams -> SUBSET Events] /\ w.seen \in [Streams -> SUBSET Events]
    BY <1>9, <1>10 DEF Runs
  <2> QED
    BY <1>7, <1>8, <1>9, <1>10, <2>1
<1>12. /\ z \in Runs /\ Ordered(z)
       /\ z.seen["compute"] = w.seen["compute"]
       /\ tensor_tag_to_state[due] = "copy" => <<"reload", due>> \in z.seen["h2d"]
  <2>1. CASE tensor_tag_to_state[due] = "copy"
    <3>1. <<"offload", due>> \in w.seen["h2d"]
      BY <1>0, <1>11, <2>1, AtCommitBackward DEF Saved
    <3>2. \A k \in Layers : k >= due + 2 => <<"backward", k>> \in w.seen["h2d"]
      BY <1>0, <1>11, AtCommitBackward
    <3>3. Needs(<<"reload", due>>) \subseteq w.seen["h2d"]
      <4>1. due \in Layers
        BY <1>0
      <4> HIDE DEF due, w
      <4>2. Needs(<<"reload", due>>) = {<<"offload", due>>}
                \cup {<<"backward", k>> : k \in {k \in Layers : k >= due + 2}}
        BY <4>1, NeedsAre
      <4> QED
        BY <3>1, <3>2, <4>2
    <3>4. <<"reload", due>> \in Events
      BY <1>0 DEF Events, Kinds
    <3>5. z = Enqueue(w, "h2d", <<"reload", due>>)
      BY <2>1
    <3>6. /\ z \in Runs /\ Ordered(z)
          /\ z.seen = [w.seen EXCEPT !["h2d"] = @ \cup {<<"reload", due>>}]
      <4> DEFINE e == <<"reload", due>>
      <4> HIDE DEF e, w
      <4>1. /\ Enqueue(w, "h2d", e) \in Runs /\ Ordered(Enqueue(w, "h2d", e))
            /\ Enqueue(w, "h2d", e).seen = [w.seen EXCEPT !["h2d"] = @ \cup {e}]
        <5>1. e \in Events /\ Needs(e) \subseteq w.seen["h2d"]
          BY <3>3, <3>4 DEF e
        <5>2. w \in Runs /\ Ordered(w) /\ "h2d" \in Streams
          BY <1>8, <1>10
        <5> QED
          BY <5>1, <5>2, EnqueueRuns
      <4> QED
        BY <3>5, <4>1 DEF e
    <3> QED
      BY <1>8, <1>11, <3>6
  <2>2. CASE tensor_tag_to_state[due] # "copy"
    BY <1>10, <2>2
  <2> QED
    BY <2>1, <2>2
<1>13. \A f \in Enqueued(z) : Needs(f)' \subseteq Needs(f)
  <2>1. Enqueued(z) \subseteq Events
    BY <1>12 DEF Enqueued, Runs
  <2> QED
    BY <1>2, <1>4, <2>1, NeedsNext
<1>14. seen' = z.seen /\ Now' \in Runs' /\ Ordered(Now)' /\ Now' = z
  BY <1>2, <1>12, <1>13, NowNext
<1>15. Streamed'
  <2>1. seen["compute"] \subseteq seen'["compute"] /\ seen["h2d"] \subseteq seen'["compute"]
    BY <1>11, <1>12, <1>14
  <2>2. /\ \A g \in Layers : g < layer /\ Saved(g)' =>
               <<"offload", g>> \in seen'["compute"]
        /\ \A l \in Layers : l > layer => <<"backward", l>> \in seen'["compute"]
        /\ layer \in OffloadGroups /\ Saved(layer)' => <<"reload", layer>> \in seen'["compute"]
    BY <1>0, <1>2, <1>4, <2>1, AtCommitBackward
  <2>3. Saved(due) => <<"reload", due>> \in seen'["h2d"]
    <3>1. Saved(due) => tensor_tag_to_state[due] = "copy"
      BY <1>0 DEF Placed, Saved
    <3> QED
      BY <1>12, <1>14, <3>1
  <2>4. Saved(layer - 1)' => <<"reload", layer - 1>> \in seen'["h2d"]
    BY <1>0, <1>2, <1>4, <2>3
  <2> QED
    BY <1>2, <1>3, <2>2, <2>4 DEF Streamed
<1> QED
  BY <1>0, <1>2, <1>3, <1>5, <1>6, <1>14, <1>15 DEF OffloadInv

\* A layer's backward finds its tensors on the device and gives their tags up.
LEMMA BackwardKeeps ==
    ASSUME OffloadInv, Backward
    PROVE  OffloadInv'
<1> DEFINE e == <<"backward", layer>>
           z == Enqueue(Now, "compute", e)
<1>0. /\ pc = "backward"
      /\ num_layers \in Nat /\ num_layers >= 3
      /\ Layers = 0..(num_layers - 1)
      /\ OffloadGroups = 0..(num_layers - 2)
      /\ layer \in Layers /\ layer \in Nat
      /\ current_group = layer
      /\ offloaded_group_count = IF layer <= 1 THEN layer ELSE layer - 1
      /\ group_offload_mapping = 0..(layer - 2)
      /\ Placed(layer - 1, layer)
      /\ tensor_tag_to_buf = {}
  BY LayersAre DEF Backward, OffloadInv, Books
<1>1. /\ tensor_tag_to_state \in [Layers -> {"none", "device", "copy"}]
      /\ saved_tag = [l \in Layers |-> IF Saved(l) THEN l ELSE NoTag]
      /\ saved_tag[layer] = IF Saved(layer) THEN layer ELSE NoTag
      /\ layer # NoTag
  BY <1>0 DEF OffloadInv, Tags, NoTag
<1>2. Saved(layer) => tensor_tag_to_state[layer] = "device"
  BY <1>0, <1>1 DEF Placed, Saved
<1>3. /\ num_layers' = num_layers /\ current_group' = current_group
      /\ offloaded_group_count' = offloaded_group_count
      /\ group_offload_mapping' = group_offload_mapping
      /\ tensor_tag_to_buf' = {}
      /\ IF layer = 0
         THEN /\ pc' = "forward" /\ layer' = layer
              /\ seen' = NothingSeen /\ past' = NothingPast
         ELSE /\ pc' = "commit_backward" /\ layer' = layer - 1
              /\ Becomes(z)
  BY <1>0, <1>1, <1>2 DEF Backward
<1>4. /\ tensor_tag_to_state' =
             IF Saved(layer) THEN [tensor_tag_to_state EXCEPT ![layer] = "none"]
             ELSE tensor_tag_to_state
      /\ saved_tag' = IF Saved(layer) THEN [saved_tag EXCEPT ![layer] = NoTag]
                      ELSE saved_tag
  BY <1>1, <1>2 DEF Backward
<1>5. Layers' = Layers /\ OffloadGroups' = OffloadGroups
  BY <1>3, SameLayers
<1>6. /\ \A g \in Layers : g # layer =>
            /\ tensor_tag_to_state'[g] = tensor_tag_to_state[g]
            /\ Saved(g)' <=> Saved(g)
      /\ tensor_tag_to_state'[layer] = "none"
      /\ \A g \in Layers : g = layer => ~Saved(g)'
  BY <1>0, <1>1, <1>4 DEF Saved
<1>7. Tags'
  <2>1. tensor_tag_to_state' \in [Layers -> {"none", "device", "copy"}]
    BY <1>1, <1>4
  <2>2. saved_tag' = [l \in Layers |-> IF Saved(l)' THEN l ELSE NoTag]
    <3>1. CASE Saved(layer)
      <4>1. saved_tag' = [saved_tag EXCEPT ![layer] = NoTag]
        BY <1>4, <3>1
      <4> QED
        BY <1>0, <1>1, <1>6, <4>1
    <3>2. CASE ~Saved(layer)
      <4>1. \A g \in Layers : Saved(g)' <=> Saved(g)
        BY <1>6, <3>2
      <4> QED
        BY <1>1, <1>4, <3>2, <4>1
    <3> QED
      BY <3>1, <3>2
  <2> QED
    BY <1>5, <2>1, <2>2 DEF Tags
<1>8. CASE layer = 0
  <2>1. \A g \in Layers : ~Saved(g)'
    BY <1>0, <1>6, <1>8 DEF Placed
  <2>2. Books'
    <3>1. Placed(layer, layer - 1)'
      BY <1>5, <2>1 DEF Placed, Saved
    <3>2. Buffers({layer - 1})'
      BY <1>0, <1>3, <1>5, <2>1 DEF Buffers
    <3>3. 0..(0 - 2) = 0..(0 - 1)
      OBVIOUS
    <3> QED
      BY <1>0, <1>3, <1>8, <3>1, <3>2, <3>3 DEF Books
  <2>3. Now' \in Runs' /\ Enqueued(Now)' = {}
    BY <1>3, <1>8 DEF Now, Runs, Enqueued, NothingSeen, NothingPast, Events, Layers
  <2>4. Ordered(Now)'
    BY <2>3 DEF Ordered
  <2>5. Streamed'
    BY <1>3, <1>5, <1>8, <2>1, <2>3 DEF Streamed
  <2> QED
    BY <1>3, <1>5, <1>7, <1>8, <2>2, <2>3, <2>4, <2>5 DEF OffloadInv
<1>9. CASE layer # 0
  <2>0. /\ pc' = "commit_backward" /\ layer' = layer - 1 /\ Becomes(z)
        /\ layer' \in Layers /\ layer - 1 \in Layers
    BY <1>0, <1>3, <1>9
  <2>1. Books'
    <3>1. Placed(layer, layer)'
      BY <1>0, <1>5, <1>6, <2>0 DEF Placed
    <3> QED
      BY <1>0, <1>3, <1>9, <2>0, <3>1 DEF Books
  <2>2. /\ Now \in Runs /\ Ordered(Now) /\ Now.seen = seen
        /\ seen \in [Streams -> SUBSET Events]
    BY DEF OffloadInv, Now, Runs
  <2>3. e \in Events /\ "compute" \in Streams /\ Needs(e) \subseteq Now.seen["compute"]
    BY <1>0, NeedsAre DEF Events, Kinds, Streams
  <2>4. /\ z \in Runs /\ Ordered(z)
        /\ z.seen = [Now.seen EXCEPT !["compute"] = @ \cup {e}]
    <3> HIDE DEF e
    <3>1. Now \in Runs /\ Ordered(Now)
      BY <2>2
    <3> QED
      BY <2>3, <3>1, EnqueueRuns
  <2>5. \A f \in Enqueued(z) : Needs(f)' \subseteq Needs(f)
    <3>1. Enqueued(z) \subseteq Events
      BY <2>4 DEF Enqueued, Runs
    <3> QED
      BY <1>3, <1>6, <3>1, NeedsNext
  <2>6. seen' = z.seen /\ Now' \in Runs' /\ Ordered(Now)' /\ Now' = z
    BY <1>3, <2>0, <2>4, <2>5, NowNext
  <2>7. /\ seen'["compute"] = seen["compute"] \cup {e}
        /\ seen'["h2d"] = seen["h2d"]
    BY <2>2, <2>3, <2>4, <2>6 DEF Streams
  <2>8. Streamed'
    <3>1. /\ \A g \in Layers : g < layer /\ Saved(g) =>
                 <<"offload", g>> \in seen["compute"]
          /\ \A l \in Layers : l > layer => <<"backward", l>> \in seen["compute"]
          /\ layer > 0 /\ Saved(layer - 1) => <<"reload", layer - 1>> \in seen["h2d"]
      BY <1>0 DEF OffloadInv, Streamed
    <3>2. \A g \in Layers : g < layer - 1 /\ Saved(g)' =>
              <<"offload", g>> \in seen'["compute"]
      BY <1>0, <1>6, <2>7, <3>1
    <3>3. \A l \in Layers : l > layer - 1 => <<"backward", l>> \in seen'["compute"]
      <4>1. \A l \in Layers : l > layer - 1 => l = layer \/ l > layer
        BY <1>0
      <4> QED
        BY <2>7, <3>1, <4>1
    <3>4. tensor_tag_to_state'[layer - 1] # "none" => <<"reload", layer - 1>> \in seen'["h2d"]
      BY <1>0, <1>6, <1>9, <2>0, <2>7, <3>1 DEF Saved
    <3> QED
      BY <1>5, <2>0, <3>2, <3>3, <3>4 DEF Streamed, Saved
  <2> QED
    BY <1>3, <1>5, <1>7, <2>0, <2>1, <2>6, <2>8 DEF OffloadInv
<1> QED
  BY <1>8, <1>9

\* Every step of training keeps the invariant.
LEMMA OffloadNext == OffloadInv /\ [Next]_vars => OffloadInv'
<1> SUFFICES ASSUME OffloadInv, [Next]_vars
             PROVE  OffloadInv'
  OBVIOUS
<1>1. CASE \E saves \in BOOLEAN : Forward(saves)
  BY <1>1, ForwardKeeps
<1>2. CASE CommitForward
  BY <1>2, CommitForwardKeeps
<1>3. CASE CommitBackward
  <2>1. layer = 0 \/ layer >= 1
    BY LayersAre DEF OffloadInv
  <2> QED
    BY <1>3, <2>1, LastReloadKeeps, ReloadKeeps
<1>4. CASE Backward
  BY <1>4, BackwardKeeps
<1>5. CASE UNCHANGED vars
  <2>1. /\ num_layers' = num_layers /\ pc' = pc /\ layer' = layer
        /\ current_group' = current_group
        /\ offloaded_group_count' = offloaded_group_count
        /\ tensor_tag_to_state' = tensor_tag_to_state
        /\ tensor_tag_to_buf' = tensor_tag_to_buf
        /\ group_offload_mapping' = group_offload_mapping
        /\ saved_tag' = saved_tag /\ seen' = seen /\ past' = past
    BY <1>5 DEF vars, handler
  <2>2. Layers' = Layers /\ OffloadGroups' = OffloadGroups
    BY <2>1, SameLayers
  <2>3. Tags'
    BY <2>1, <2>2 DEF OffloadInv, Tags, Saved
  <2>4. Books'
    BY <2>1, <2>2 DEF OffloadInv, Books, Placed, Buffers, Saved
  <2>5. Now \in Runs /\ Ordered(Now) /\ Becomes(Now)
    BY <2>1 DEF OffloadInv, Now, Becomes
  <2>6. \A f \in Enqueued(Now) : Needs(f)' \subseteq Needs(f)
    <3>1. Enqueued(Now) \subseteq Events
      BY <2>5 DEF Enqueued, Runs
    <3>2. \A g \in Layers : Saved(g)' <=> Saved(g)
      BY <2>1 DEF Saved
    <3> QED
      BY <2>1, <3>1, <3>2, NeedsNext
  <2>7. Now' \in Runs' /\ Ordered(Now)' /\ Now' = Now
    BY <2>1, <2>5, <2>6, NowNext
  <2>8. Streamed'
    <3>1. Enqueued(Now)' = Enqueued(Now)
      BY <2>7 DEF Enqueued, Now
    <3> QED
      BY <2>1, <2>2, <3>1 DEF OffloadInv, Streamed, Saved
  <2> QED
    BY <2>1, <2>2, <2>3, <2>4, <2>7, <2>8 DEF OffloadInv
<1> QED
  BY <1>1, <1>2, <1>3, <1>4, <1>5 DEF Next

\* Training keeps the invariant.
LEMMA OffloadAlways == Spec => []OffloadInv
  BY InitOffload, OffloadNext, PTL DEF Spec

----------------------------------------------------------------------------
(* The theorems.  *)

\* However many layers there are and whatever they save, no step meets an
\* assertion of tensor_push or tensor_pop, or a missing key.
THEOREM OffloadNeverFails == Spec => []NeverFails
<1>1. OffloadInv => NeverFails
  BY DEF OffloadInv, NeverFails
<1> QED
  BY <1>1, OffloadAlways, PTL

\* The handler's fields keep their types, and its counters name groups there
\* are.
THEOREM OffloadTypeCorrect == Spec => []TypeOK
<1>1. OffloadInv => TypeOK
  <2> SUFFICES ASSUME OffloadInv
               PROVE  TypeOK
    OBVIOUS
  <2>1. /\ num_layers \in Nat /\ num_layers >= 3
        /\ Layers = 0..(num_layers - 1)
        /\ OffloadGroups = 0..(num_layers - 2)
        /\ num_offload_group = num_layers - 1
        /\ layer \in Layers
    BY LayersAre DEF OffloadInv
  <2>2. /\ current_group \in 0..num_layers
        /\ offloaded_group_count \in 0..num_offload_group
        /\ tensor_tag_to_buf \subseteq OffloadGroups
        /\ group_offload_mapping \subseteq OffloadGroups
    BY <2>1 DEF OffloadInv, Books, Buffers
  <2>3. saved_tag \in [Layers -> Layers \cup {NoTag}]
    BY DEF OffloadInv, Tags
  <2>4. seen \in [Streams -> SUBSET Events] /\ past \in [Events -> SUBSET Events]
    BY DEF OffloadInv, Now, Runs
  <2> QED
    BY <2>1, <2>2, <2>3, <2>4 DEF OffloadInv, Tags, TypeOK
<1> QED
  BY <1>1, OffloadAlways, PTL

\* Every copy runs after what it copies was computed and before it is used,
\* and memory is freed after the copy out of it, on any schedule of streams.
THEOREM OffloadCopiesOrdered == Spec => []CopiesOrdered
<1>1. OffloadInv => CopiesOrdered
  <2> SUFFICES ASSUME OffloadInv
               PROVE  CopiesOrdered
    OBVIOUS
  <2>1. \A s \in Streams : seen[s] \subseteq Enqueued(Now)
    BY DEF Enqueued, Now
  <2>2. \A s \in Streams : \A e \in seen[s] : Needs(e) \subseteq past[e]
    BY <2>1 DEF OffloadInv, Ordered, Now
  <2>3. "d2h" \in Streams /\ "compute" \in Streams /\ "h2d" \in Streams
    BY DEF Streams
  <2>4. ASSUME NEW g \in Layers
        PROVE  /\ <<"offload", g>> \in seen["d2h"] =>
                      <<"forward", g>> \in past[<<"offload", g>>]
               /\ <<"free", g>> \in seen["compute"] =>
                      <<"offload", g>> \in past[<<"free", g>>]
               /\ <<"reload", g>> \in seen["h2d"] =>
                      <<"offload", g>> \in past[<<"reload", g>>]
    BY <2>2, <2>3, NeedsAre
  <2>5. pc = "backward" /\ saved_tag[layer] \in OffloadGroups =>
            <<"reload", saved_tag[layer]>> \in seen["compute"]
    <3>1. saved_tag[layer] = IF Saved(layer) THEN layer ELSE NoTag
      BY DEF OffloadInv, Tags
    <3>2. NoTag \notin OffloadGroups
      BY LayersAre DEF OffloadInv, NoTag
    <3> QED
      BY <3>1, <3>2 DEF OffloadInv, Streamed
  <2> QED
    BY <2>4, <2>5 DEF CopiesOrdered
<1> QED
  BY <1>1, OffloadAlways, PTL

\* A group whose tensors are on the device, or whose buffer is held, is the
\* layer's own or the one before.
LEMMA ResidentAre ==
    ASSUME OffloadInv
    PROVE  Resident \subseteq {layer - 1, layer}
<1>1. /\ Layers = 0..(num_layers - 1) /\ num_layers \in Nat
      /\ OffloadGroups = 0..(num_layers - 2)
      /\ layer \in Layers
  BY LayersAre DEF OffloadInv
<1>2. tensor_tag_to_buf \subseteq {layer - 1, layer}
  BY DEF OffloadInv, Books, Buffers
<1>3. ASSUME NEW g \in Layers, tensor_tag_to_state[g] = "device"
      PROVE  g \in {layer - 1, layer}
  <2>1. Placed(layer, layer - 1) \/ Placed(layer, layer) \/ Placed(layer - 1, layer)
    BY DEF OffloadInv, Books
  <2>2. ~(g < layer - 1) /\ ~(g > layer)
    BY <1>1, <1>3, <2>1 DEF Placed, Saved
  <2> QED
    BY <1>1, <2>2
<1> QED
  BY <1>2, <1>3 DEF Resident

\* "There are at most two activation groups in GPU memory", as the host's
\* references count them and as the streams reuse the memory.
THEOREM OffloadAtMostTwo == Spec => []AtMostTwoGroups
<1>1. OffloadInv => AtMostTwoGroups
  <2> SUFFICES ASSUME OffloadInv
               PROVE  AtMostTwoGroups
    OBVIOUS
  <2>1. Cardinality(Resident) <= 2
    <3> DEFINE two == {layer - 1, layer}
    <3>1. Resident \subseteq two
      BY ResidentAre
    <3>2. layer \in Nat /\ layer - 1 # layer
      BY LayersAre DEF OffloadInv
    <3>3. IsFiniteSet({layer - 1}) /\ Cardinality({layer - 1}) = 1
      BY FS_Singleton
    <3>4. IsFiniteSet({layer - 1} \cup {layer}) /\ Cardinality({layer - 1} \cup {layer}) = 2
      BY <3>2, <3>3, FS_AddElement
    <3>5. two = {layer - 1} \cup {layer}
      OBVIOUS
    <3>6. IsFiniteSet(two) /\ Cardinality(two) = 2
      BY <3>4, <3>5
    <3> HIDE DEF two
    <3>7. IsFiniteSet(Resident) /\ Cardinality(Resident) <= Cardinality(two)
      BY <3>1, <3>6, FS_Subset
    <3> QED
      BY <3>6, <3>7
  <2>2. \A s \in Streams : \A e \in seen[s] : Needs(e) \subseteq past[e]
    <3>1. \A s \in Streams : seen[s] \subseteq Enqueued(Now)
      BY DEF Enqueued, Now
    <3> QED
      BY <3>1 DEF OffloadInv, Ordered, Now
  <2>3. "compute" \in Streams /\ "h2d" \in Streams
    BY DEF Streams
  <2>4. ASSUME NEW g \in Layers, NEW l \in Layers, l >= g + 2,
               <<"forward", l>> \in seen["compute"], saved_tag[g] # NoTag
        PROVE  <<"free", saved_tag[g]>> \in past[<<"forward", l>>]
    <3>1. Saved(g) /\ saved_tag[g] = g
      BY <2>4 DEF OffloadInv, Tags
    <3>2. g + 2 <= l
      BY <2>4, LayersAre DEF OffloadInv
    <3>3. <<"free", g>> \in Needs(<<"forward", l>>)
      BY <3>1, <3>2, NeedsAre
    <3> QED
      BY <2>2, <2>3, <2>4, <3>1, <3>3
  <2>5. ASSUME NEW g \in Layers, NEW l \in Layers, l >= g + 2,
               <<"reload", g>> \in seen["h2d"]
        PROVE  <<"backward", l>> \in past[<<"reload", g>>]
    <3>1. <<"backward", l>> \in Needs(<<"reload", g>>)
      BY <2>5, NeedsAre
    <3> QED
      BY <2>2, <2>3, <2>5, <3>1
  <2> QED
    BY <2>1, <2>4, <2>5 DEF AtMostTwoGroups
<1> QED
  BY <1>1, OffloadAlways, PTL
=============================================================================
