--------------------------- MODULE JointDecoding ---------------------------
(***************************************************************************)
(* From the tokens a model generates to the queries of its mask decoder    *)
(* and the part names its masks are saved under, on the two paths the      *)
(* inference tools have: generation in process by transformers             *)
(* (test_mask_pred.py) and generation by the vLLM worker                   *)
(* (run_hybrid_inference.py, hybrid.py, contracts.py).                     *)
(*                                                                         *)
(* Both paths are given the same model, so as long as both generate they   *)
(* generate the same token.  Transformers stops at the SEG limit itself;   *)
(* vLLM knows nothing of it and is cut afterwards.  A token is one of five *)
(* kinds, and a sequence is the part behind the prompt, which has neither  *)
(* SEG nor BG.  The length checks of generate() come before generation and *)
(* are left out.                                                           *)
(***************************************************************************)
EXTENDS Integers, SequencesExt

CONSTANTS MaxNew,   \* max_new_tokens
          Limits    \* the values of max_generated_parts

ASSUME MaxNewAssumption == MaxNew \in Nat \ {0}
ASSUME LimitsAssumption == Limits \subseteq Int

\* Text of a part's description, a line break, the query tokens <|SEG|> and
\* <|BG|>, and <|im_end|> or <|endoftext|>.
Tokens == {"text", "nl", "seg", "bg", "eos"}

StopIds == {"bg", "eos"}

Backends == {"hf", "vllm"}

NoReason == "none"

VARIABLES
    args,    \* the command line: max_generated_parts and auto_add_bg
    pc,      \* how far each backend's run has got
    gen,     \* generated_ids
    fixed,   \* generated_ids_for_mask
    query    \* positions of the hidden states given to the mask decoder

vars == <<args, pc, gen, fixed, query>>

PCs == {"generate", "candidate", "guard", "decode", "done", "failed"}

TypeOK ==
    /\ args \in [max_generated_parts : Limits, auto_add_bg : BOOLEAN]
    /\ pc \in [Backends -> PCs]
    /\ gen \in [Backends -> Seq(Tokens)]
    /\ fixed \in [Backends -> Seq(Tokens)]
    /\ query \in [Backends -> Seq(1..(MaxNew + 1))]

Init ==
    /\ args \in [max_generated_parts : Limits, auto_add_bg : BOOLEAN]
    /\ pc = [b \in Backends |-> "generate"]
    /\ gen = [b \in Backends |-> <<>>]
    /\ fixed = [b \in Backends |-> <<>>]
    /\ query = [b \in Backends |-> <<>>]

Positions(s, t) == {i \in 1..Len(s) : s[i] = t}

\* How many of the positions S come up to i.
Rank(S, i) == Cardinality({j \in S : j <= i})

\* The positions S in their order.
InOrder(S) == [k \in 1..Cardinality(S) |-> CHOOSE i \in S : Rank(S, i) = k]

-----------------------------------------------------------------------------
(* Generation.                                                              *)

AtEnd(s) == Last(s) \in StopIds \/ Len(s) = MaxNew

\* Mutant: one SEG too many is let through.
StopOnBgOrMaxSegLate(s) ==
    \/ Last(s) = "bg"
    \/ /\ args.max_generated_parts > 0
       /\ Cardinality(Positions(s, "seg")) > args.max_generated_parts

StopOnBgOrMaxSeg(s) ==
    \/ Last(s) = "bg"
    \/ /\ args.max_generated_parts > 0
       /\ Cardinality(Positions(s, "seg")) >= args.max_generated_parts

\* Where a backend goes on after its newest token.
AfterToken(b, s) ==
    CASE b = "hf" /\ (AtEnd(s) \/ StopOnBgOrMaxSeg(s)) -> "guard"
      [] b = "vllm" /\ AtEnd(s) -> "candidate"
      [] OTHER -> "generate"

\* The model's next token, for every backend that still asks for one.
Emit(t) ==
    LET asking == {b \in Backends : pc[b] = "generate"} IN
    /\ asking # {}
    /\ gen' = [b \in Backends |->
                  IF b \in asking THEN Append(gen[b], t) ELSE gen[b]]
    /\ pc' = [b \in Backends |->
                 IF b \in asking THEN AfterToken(b, Append(gen[b], t))
                 ELSE pc[b]]
    /\ UNCHANGED <<args, fixed, query>>

-----------------------------------------------------------------------------
(* What vLLM hands back, and what the bridge makes of it.                   *)

\* A stop token that is given as the reason may be left out of the ids; the
\* model's own end token may come without a reason, and is then in the ids.
Candidates(s) ==
    IF Last(s) \notin StopIds THEN {[ids |-> s, reason |-> NoReason]}
    ELSE [ids : {s, Front(s)}, reason : {Last(s)}]
            \cup {c \in [ids : {s}, reason : {NoReason}] : Last(s) = "eos"}

\* Mutant: the omitted stop token is not restored.
PreserveNothing(ids, reason) == ids

PreserveStopToken(ids, reason) ==
    IF reason \in StopIds /\ (ids = <<>> \/ Last(ids) # reason)
    THEN Append(ids, reason)
    ELSE ids

\* Cut behind the SEG that reaches the limit.
TruncateOnMaxSeg(ids) ==
    LET limit == args.max_generated_parts
        reached == {i \in Positions(ids, "seg") :
                       Rank(Positions(ids, "seg"), i) >= limit}
    IN IF limit <= 0 \/ reached = {} THEN ids
       ELSE SubSeq(ids, 1, Min(reached))

\* The end of PointVLLMEngine.generate.
Return ==
    /\ pc["vllm"] = "candidate"
    /\ pc' = [pc EXCEPT !["vllm"] = "guard"]
    /\ \E c \in Candidates(gen["vllm"]) :
          gen' = [gen EXCEPT !["vllm"] =
                     TruncateOnMaxSeg(PreserveStopToken(c.ids, c.reason))]
    /\ UNCHANGED <<args, fixed, query>>

-----------------------------------------------------------------------------
(* The joint mask decoder.                                                  *)

\* Mutant: a line break is taken for an end token.
EnsureBgAtLine(s) ==
    IF ~args.auto_add_bg \/ Positions(s, "seg") = {} \/ Positions(s, "bg") # {}
    THEN s
    ELSE LET ends == Positions(s, "eos") \cup Positions(s, "nl")
         IN InsertAt(s, Min(ends \cup {Len(s) + 1}), "bg")

\* ensure_bg_token_for_joint_mask, and ensure_joint_bg of the contracts: a
\* missing BG query goes before the first end token.
EnsureBg(s) ==
    IF ~args.auto_add_bg \/ Positions(s, "seg") = {} \/ Positions(s, "bg") # {}
    THEN s
    ELSE InsertAt(s, Min(Positions(s, "eos") \cup {Len(s) + 1}), "bg")

Guard(b) ==
    /\ pc[b] = "guard"
    /\ pc' = [pc EXCEPT ![b] = "decode"]
    /\ fixed' = [fixed EXCEPT ![b] = EnsureBg(gen[b])]
    /\ UNCHANGED <<args, gen, query>>

\* hidden[seg_mask], then the last of hidden[bg_mask].
Queries(s) == Append(InOrder(Positions(s, "seg")), Max(Positions(s, "bg")))

\* Without SEG there is nothing to decode; without BG decoding raises.
Decode(b) ==
    LET s == fixed[b] IN
    /\ pc[b] = "decode"
    /\ \/ /\ Positions(s, "seg") = {}
          /\ pc' = [pc EXCEPT ![b] = "done"]
          /\ UNCHANGED query
       \/ /\ Positions(s, "seg") # {} /\ Positions(s, "bg") = {}
          /\ pc' = [pc EXCEPT ![b] = "failed"]
          /\ UNCHANGED query
       \/ /\ Positions(s, "seg") # {} /\ Positions(s, "bg") # {}
          /\ pc' = [pc EXCEPT ![b] = "done"]
          /\ query' = [query EXCEPT ![b] = Queries(s)]
    /\ UNCHANGED <<args, gen, fixed>>

-----------------------------------------------------------------------------
(* parse_response_parts: the parts of an answer are its lines of text.      *)

\* The line position i is on.
Line(s, i) == Cardinality({j \in 1..i : s[j] = "nl"})

\* Mutant: the line of the BG query is a part.
PartLinesWithBg(s) ==
    {Line(s, i) : i \in Positions(s, "text") \cup Positions(s, "bg")}

PartLines(s) == {Line(s, i) : i \in Positions(s, "text")}

\* The rank of a line among the parts, as the masks are numbered.
PartIndex(s, l) == Rank(PartLines(s), l)

-----------------------------------------------------------------------------
Answered == \A b \in Backends : pc[b] \in {"done", "failed"}

Over == Answered /\ UNCHANGED vars

Next == \/ \E t \in Tokens : Emit(t)
        \/ Return
        \/ \E b \in Backends : Guard(b) \/ Decode(b)
        \/ Over

Spec == Init /\ [][Next]_vars

-----------------------------------------------------------------------------
(* Properties.                                                              *)

\* Whichever backend generates, the answer is the same, token by token, and so
\* are the queries and whether decoding fails: cutting vLLM's longer output
\* afterwards amounts to transformers' stopping at the SEG limit, and a stop
\* token vLLM leaves out is put back.
SameAnswer ==
    Answered => /\ fixed["hf"] = fixed["vllm"]
                /\ query["hf"] = query["vllm"]
                /\ pc["hf"] = pc["vllm"]

\* With auto_add_bg the decoder never lacks its background query, and there is
\* one, behind all the parts it must be distinguished from.
BackgroundLast ==
    args.auto_add_bg => \A b \in Backends :
        /\ pc[b] # "failed"
        /\ pc[b] = "done" /\ Positions(fixed[b], "seg") # {} =>
              LET q == query[b] IN
              /\ Positions(fixed[b], "bg") = {Last(q)}
              /\ \A i \in 1..(Len(q) - 1) : q[i] < Last(q)

\* No answer has more parts than max_generated_parts, if that is a limit.
PartBound ==
    args.max_generated_parts > 0 => \A b \in Backends :
        pc[b] \in {"guard", "decode", "done", "failed"} =>
            Cardinality(Positions(gen[b], "seg")) <= args.max_generated_parts

\* The model keeps to the form of its training targets: lines that end in SEG,
\* then a line with BG; it may end early behind a SEG or a line.
Follows(s) ==
    \A i \in 1..Len(s) :
        s[i] \in IF i = 1 THEN {"text"}
                 ELSE CASE s[i-1] = "text" -> {"text", "seg"}
                        [] s[i-1] = "seg" -> {"nl", "eos"}
                        [] s[i-1] = "nl" -> {"text", "bg", "eos"}
                        [] OTHER -> {}

\* The i-th name stands on the line of the i-th SEG query, and there are no
\* more names than SEG queries.
Aligned(s, q) ==
    /\ Cardinality(PartLines(s)) = Cardinality(Positions(s, "seg"))
    /\ \A i \in 1..(Len(q) - 1) :
          Line(s, q[i]) \in PartLines(s) /\ PartIndex(s, Line(s, q[i])) = i

\* Semantic labels are aligned with the generated SEG tokens, whenever there
\* are masks to be labelled.
LabelsAligned ==
    \A b \in Backends :
        pc[b] = "done" /\ query[b] # <<>> /\ Follows(gen[b])
        => Aligned(fixed[b], query[b])

\* The same of every answer that max_new_tokens has not cut within a line,
\* those that end early or at the SEG limit included.
WholeLinesAligned ==
    \A b \in Backends :
        /\ pc[b] = "done" /\ query[b] # <<>>
        /\ Follows(gen[b]) /\ Last(gen[b]) # "text"
        => Aligned(fixed[b], query[b])
=============================================================================
