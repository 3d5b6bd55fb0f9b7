--------------------------- MODULE MicroBatching ---------------------------
(***************************************************************************)
(* One call of the FSDP engine's forward_backward_batch on every data-     *)
(* parallel rank (transformer_impl.py), with prepare_micro_batches and     *)
(* postprocess_batch_func (engine/utils.py), the partitioning by token     *)
(* count (seqlen_balancing.py) and the worker's _postprocess_output        *)
(* (engine_workers.py).                                                    *)
(*                                                                         *)
(* The ranks are processes with a batch each.  They meet in collectives: a *)
(* collective is one action of all ranks, enabled when every rank has come *)
(* to it, so a rank that comes to another one, or that has raised, leaves  *)
(* the others waiting.  A forward pass of a micro-batch is a collective of *)
(* its own, since FSDP gathers the layers' parameters from all ranks.      *)
(*                                                                         *)
(* A sample is its length and whether it is tagged, i.e. carries the       *)
(* optional metadata (macro category, part count ...) that is returned     *)
(* beside the log probabilities.  Losses and gradients are left out.       *)
(***************************************************************************)
EXTENDS KarmarkarKarp, SequencesExt

CONSTANTS Ranks,     \* the data-parallel group
          Batches,   \* what a dataloader may yield on one rank
          Limits,    \* max_token_len_per_gpu, with dynamic batches
          Sizes      \* micro_batch_size_per_gpu, without

ASSUME RanksAssumption == IsFiniteSet(Ranks) /\ Ranks # {}
ASSUME BatchesAssumption ==
    \A b \in Batches :
        /\ b \in Seq([len : Nat \ {0}, tagged : BOOLEAN])
        /\ Len(b) > 0
ASSUME LimitsAssumption == Limits \subseteq Nat \ {0}
ASSUME SizesAssumption == Sizes \subseteq Nat \ {0}

VARIABLES
    batch,    \* the samples each rank was given
    mode,     \* use_dynamic_bsz, training or validation, and the limit
    pc,       \* the collective a rank has come to, or what it does next
    count,    \* num_micro_batches
    heap,     \* the partitioner's states_pq
    micro,    \* the micro-batches, each the list of its samples' indices
    ran,      \* how many of them have been through forward_step
    output    \* output_lst: per key, the samples whose rows it holds, in their order

vars == <<batch, mode, pc, count, heap, micro, ran, output>>

PCs == {"tokens", "split", "agree", "partition", "run", "optimizer",
        "loss", "returned", "raised", "killed"}

Samples(r) == 1..Len(batch[r])

NoOutput == [log_probs |-> <<>>, tags |-> <<>>]

Init ==
    /\ mode \in [dynamic : BOOLEAN, training : BOOLEAN, limit : Limits \cup Sizes]
    /\ mode.limit \in IF mode.dynamic THEN Limits ELSE Sizes
    /\ \E n \in {Len(b) : b \in Batches} :
           batch \in [Ranks -> {b \in Batches : Len(b) = n}]
    /\ pc = [r \in Ranks |-> "tokens"]
    /\ count = [r \in Ranks |-> 0]
    /\ heap = [r \in Ranks |-> {}]
    /\ micro = [r \in Ranks |-> <<>>]
    /\ ran = [r \in Ranks |-> 0]
    /\ output = [r \in Ranks |-> NoOutput]

\* Every rank is at the collective c.
Together(c) == \A r \in Ranks : pc[r] = c

MoveOn(r, to) == pc' = [pc EXCEPT ![r] = to]

CeilDiv(a, b) == (a + b - 1) \div b

TotalLen(b) ==
    LET upTo[n \in 0..Len(b)] == IF n = 0 THEN 0 ELSE upTo[n - 1] + b[n].len
    IN  upTo[Len(b)]

----------------------------------------------------------------------------
\* all_reduce(batch_num_tokens).
ReduceTokens ==
    /\ Together("tokens")
    /\ pc' = [r \in Ranks |-> "split"]
    /\ UNCHANGED <<batch, mode, count, heap, micro, ran, output>>

TooLong(r) == \E i \in Samples(r) : batch[r][i].len > mode.limit

\* Mutant: one micro-batch too many, and no cap at the number of samples.
OwnCountUncapped(r) == CeilDiv(TotalLen(batch[r]), mode.limit) + 1

OwnCount(r) ==
    LET most == CeilDiv(TotalLen(batch[r]), mode.limit)
    IN  IF most < Len(batch[r]) THEN most ELSE Len(batch[r])

\* The dynamic branch up to the all_reduce of the count.
Count(r) ==
    /\ pc[r] = "split"
    /\ mode.dynamic
    /\ IF TooLong(r)
       THEN /\ MoveOn(r, "raised")
            /\ UNCHANGED count
       ELSE /\ MoveOn(r, "agree")
            /\ count' = [count EXCEPT ![r] = OwnCount(r)]
    /\ UNCHANGED <<batch, mode, heap, micro, ran, output>>

Chunks(r) ==
    LET n == Len(batch[r]) \div mode.limit IN IF n > 1 THEN n ELSE 1

Divisible(r) == Len(batch[r]) % Chunks(r) = 0

\* The other branch: chunk_tensordict, in equal and contiguous chunks.
Chunk(r) ==
    LET size == Len(batch[r]) \div Chunks(r)
    IN  /\ pc[r] = "split"
        /\ ~mode.dynamic
        /\ IF Divisible(r)
           THEN /\ MoveOn(r, "run")
                /\ micro' = [micro EXCEPT ![r] =
                       [c \in 1..Chunks(r) |-> [i \in 1..size |-> (c - 1) * size + i]]]
           ELSE /\ MoveOn(r, "raised")
                /\ UNCHANGED micro
        /\ UNCHANGED <<batch, mode, count, heap, ran, output>>

AgreedCount ==
    CHOOSE n \in {count[r] : r \in Ranks} : \A r \in Ranks : count[r] <= n

\* Mutant: the samples are numbered from zero.
SinglesFromZero(r, k) ==
    {Single(i - 1, Workload(batch[r][i].len), k) : i \in Samples(r)}

Singles(r, k) == {Single(i, Workload(batch[r][i].len), k) : i \in Samples(r)}

\* Mutant: every rank keeps its own count.
AgreeAlone ==
    /\ Together("agree")
    /\ pc' = [r \in Ranks |-> "partition"]
    /\ heap' = [r \in Ranks |-> Singles(r, count[r])]
    /\ UNCHANGED <<batch, mode, count, micro, ran, output>>

\* all_reduce(num_micro_batches, MAX), and the assertions that follow it.
Agree ==
    /\ Together("agree")
    /\ count' = [r \in Ranks |-> AgreedCount]
    /\ pc' = [r \in Ranks |->
                 IF AgreedCount <= Len(batch[r]) THEN "partition" ELSE "raised"]
    /\ heap' = [r \in Ranks |-> Singles(r, AgreedCount)]
    /\ UNCHANGED <<batch, mode, micro, ran, output>>

Merge(r) ==
    /\ pc[r] = "partition"
    /\ Cardinality(heap[r]) > 1
    /\ \E s \in NextOf(heap[r]) : \E t \in NextOf(heap[r] \ {s}) :
       \E m \in Merged(s, t) :
           heap' = [heap EXCEPT ![r] = (@ \ {s, t}) \cup {m}]
    /\ UNCHANGED <<batch, mode, pc, count, micro, ran, output>>

\* A partition's samples by their number.
Sorted(g) ==
    LET samples == ToSet(g.items)
    IN  CHOOSE q \in [1..Cardinality(samples) -> samples] :
           \A i, j \in DOMAIN q : i < j => q[i] < q[j]

\* The partitions by descending workload, equal ones by their first sample,
\* partition[0] of the sorted ones.
ByWorkload(s) ==
    Orders(s, LAMBDA g, h : \/ g.sum > h.sum
                            \/ g.sum = h.sum /\ Min(ToSet(g.items)) > Min(ToSet(h.items)))

\* [::2][::-1] + [1::2]: the light micro-batches come first and last.
LightOutside(q) ==
    LET half == (Len(q) + 1) \div 2
    IN  [i \in 1..Len(q) |-> IF i <= half THEN q[2 * (half - i) + 1]
                                          ELSE q[2 * (i - half)]]

\* The end of get_seqlen_balanced_partitions and rearrange_micro_batches.
Schedule(r) ==
    /\ pc[r] = "partition"
    /\ \E s \in heap[r] :
        /\ heap[r] = {s}
        /\ IF \E i \in DOMAIN s : s[i].items = <<>>
           THEN /\ MoveOn(r, "raised")
                /\ UNCHANGED micro
           ELSE /\ MoveOn(r, "run")
                /\ \E w \in ByWorkload(s) :
                       micro' = [micro EXCEPT ![r] =
                           [i \in DOMAIN w |-> Sorted(LightOutside(w)[i])]]
    /\ UNCHANGED <<batch, mode, count, heap, ran, output>>

AllTagged(r, m) == \A i \in DOMAIN m : batch[r][m[i]].tagged

\* The rows of a micro-batch.  It returns the tags when all its samples have
\* them (_stack_if_all).
Rows(r, m) == [log_probs |-> m, tags |-> IF AllTagged(r, m) THEN m ELSE <<>>]

Appended(o, rows) == [log_probs |-> o.log_probs \o rows.log_probs,
                      tags |-> o.tags \o rows.tags]

\* The next micro-batch: forward_step and, in training, backward.
RunMicroBatch ==
    /\ Together("run")
    /\ \A r \in Ranks : ran[r] < Len(micro[r])
    /\ ran' = [r \in Ranks |-> ran[r] + 1]
    /\ output' = [r \in Ranks |->
                     Appended(output[r], Rows(r, micro[r][ran[r] + 1]))]
    /\ UNCHANGED <<batch, mode, pc, count, heap, micro>>

\* postprocess_batch_func: restore_dynamic_batch is reached for keys without
\* rows alone, and a micro-batch is never empty, so what was appended stays as
\* it is.
Collect(r) ==
    /\ pc[r] = "run"
    /\ ran[r] = Len(micro[r])
    /\ MoveOn(r, IF mode.training THEN "optimizer" ELSE "loss")
    /\ UNCHANGED <<batch, mode, count, heap, micro, ran, output>>

\* optimizer_step: the gradient norms are reduced over all ranks.
OptimizerStep ==
    /\ Together("optimizer")
    /\ output' = [r \in Ranks |-> NoOutput]
    /\ pc' = [r \in Ranks |-> "loss"]
    /\ UNCHANGED <<batch, mode, count, heap, micro, ran>>

\* Mutant: keys of different sizes are let through.
SameRowsUnchecked(o) == TRUE

\* Two keys of one TensorDict must have as many rows.
SameRows(o) == o.tags = <<>> \/ Len(o.tags) = Len(o.log_probs)

\* _postprocess_output: the loss and the metrics are reduced and gathered,
\* then get_tensordict builds what the caller gets.
ReduceLoss ==
    /\ Together("loss")
    /\ pc' = [r \in Ranks |->
                 IF SameRows(output[r]) THEN "returned" ELSE "raised"]
    /\ UNCHANGED <<batch, mode, count, heap, micro, ran, output>>

\* torchrun ends the other processes when one has failed.
Kill(r) ==
    /\ pc[r] \notin {"returned", "raised", "killed"}
    /\ \E q \in Ranks : pc[q] = "raised"
    /\ MoveOn(r, "killed")
    /\ UNCHANGED <<batch, mode, count, heap, micro, ran, output>>

Over == \A r \in Ranks : pc[r] \in {"returned", "raised", "killed"}

Ended == Over /\ UNCHANGED vars

Step(r) ==
    \/ Count(r)
    \/ Chunk(r)
    \/ Merge(r)
    \/ Schedule(r)
    \/ Collect(r)
    \/ Kill(r)

Meet ==
    \/ ReduceTokens
    \/ Agree
    \/ RunMicroBatch
    \/ OptimizerStep
    \/ ReduceLoss

Next ==
    \/ \E r \in Ranks : Step(r)
    \/ Meet
    \/ Ended

Spec == Init /\ [][Next]_vars

FairSpec == Spec /\ WF_vars(Meet) /\ \A r \in Ranks : WF_vars(Step(r))
----------------------------------------------------------------------------
(* Properties.                                                              *)

\* Every variable stays in its type.
TypeOK ==
    /\ pc \in [Ranks -> PCs]
    /\ mode \in [dynamic : BOOLEAN, training : BOOLEAN, limit : Limits \cup Sizes]
    /\ batch \in [Ranks -> Batches]
    /\ count \in [Ranks -> Nat]
    /\ ran \in [Ranks -> Nat]
    /\ DOMAIN heap = Ranks /\ DOMAIN micro = Ranks /\ DOMAIN output = Ranks
    /\ \A r \in Ranks :
        /\ micro[r] \in Seq(Seq(Samples(r)))
        /\ output[r] \in [log_probs : Seq(Samples(r)), tags : Seq(Samples(r))]
        /\ \A s \in heap[r] :
            s \in [1..count[r] -> [sum : Nat, items : Seq(Samples(r))]]

\* A rank raises for a reason the batch itself gives - a sample longer than
\* the token limit, a batch the micro-batch size does not divide, metadata
\* on some samples alone - and never because of another rank's count or of
\* a group the partitioner left empty (seqlen_balancing.py:246 and 398).
RaisesForCause ==
    \A r \in Ranks : pc[r] = "raised" =>
        \/ mode.dynamic /\ TooLong(r)
        \/ ~mode.dynamic /\ ~Divisible(r)
        \/ /\ ~mode.training
           /\ \E i, j \in Samples(r) : batch[r][i].tagged /\ ~batch[r][j].tagged

\* No two groups of a state of the partitioner, so no two micro-batches of a
\* rank in the end, differ in workload by more than one sample's.
BalanceBound ==
    \A r \in Ranks : \A s \in heap[r] : \A j, l \in DOMAIN s :
        \E i \in Samples(r) :
            s[j].sum - s[l].sum <= Workload(batch[r][i].len)

\* What a validation step hands to the trainer has one row for each sample of
\* the batch, row i that of sample i without dynamic batches, and the rows of
\* one position are of one sample in every key: sft_trainer.py pairs the keys
\* by position.
RowsAligned ==
    \A r \in Ranks : pc[r] = "returned" /\ ~mode.training =>
        /\ Len(output[r].log_probs) = Len(batch[r])
        /\ ToSet(output[r].log_probs) = Samples(r)
        /\ mode.dynamic \/ \A i \in Samples(r) : output[r].log_probs[i] = i
        /\ output[r].tags \in {<<>>, output[r].log_probs}

\* Row i is of sample i with dynamic batches too, as postprocess_batch_func's comment has it
\* (utils.py:97, "reorder entropy and outputs").
DynamicRowsInOrder ==
    \A r \in Ranks : mode.dynamic /\ pc[r] = "returned" =>
        \A i \in DOMAIN output[r].log_probs : output[r].log_probs[i] = i

\* No rank is left waiting in a collective the others never come to: every
\* call ends, on all ranks or with the job.
CallEnds == <>Over
=============================================================================
