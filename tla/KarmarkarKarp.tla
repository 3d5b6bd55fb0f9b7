--------------------------- MODULE KarmarkarKarp ---------------------------
(***************************************************************************)
(* The largest differencing method of seqlen_balancing.py: samples, each   *)
(* with a workload, are put into k groups of balanced sums.  A state is a  *)
(* sequence of k groups, heaviest first.  There is one state per sample at *)
(* first; the two states that differ most within themselves are merged,    *)
(* the heaviest group of one with the lightest of the other, until one     *)
(* state is left.                                                          *)
(*                                                                         *)
(* A group keeps its sum beside the list of its samples, as class Set      *)
(* does.  No sample is in two groups, so two lists are told apart by their *)
(* first elements.                                                         *)
(***************************************************************************)
EXTENDS Integers, FiniteSets, Sequences, Functions

\* calculate_workload for a hidden size of 4096.
Workload(seqlen) == 24576 * seqlen + seqlen * seqlen

EmptyGroup == [sum |-> 0, items |-> <<>>]

Joined(g, h) == [sum |-> g.sum + h.sum, items |-> g.items \o h.items]

\* Set.__lt__.
Lighter(g, h) ==
    \/ g.sum < h.sum
    \/ g.sum = h.sum /\ Len(g.items) < Len(h.items)
    \/ /\ g.sum = h.sum
       /\ Len(g.items) = Len(h.items)
       /\ g.items # <<>>
       /\ g.items[1] < h.items[1]

Single(i, w, k) ==
    [j \in 1..k |-> IF j = 1 THEN [sum |-> w, items |-> <<i>>] ELSE EmptyGroup]

\* sorted(): the orders of g in which no element follows one that it goes
\* before.
Orders(g, GoesBefore(_, _)) ==
    {s \in {[i \in DOMAIN g |-> g[p[i]]] : p \in Injection(DOMAIN g, DOMAIN g)} :
        \A i, j \in DOMAIN g : i < j => ~GoesBefore(s[j], s[i])}

\* sorted(sets, reverse=True).
HeaviestFirst(g) == Orders(g, LAMBDA a, b : Lighter(b, a))

\* Mutant: heavy meets heavy.
MergedInLine(s, t) ==
    HeaviestFirst([i \in DOMAIN s |-> Joined(s[i], t[i])])

Merged(s, t) ==
    HeaviestFirst([i \in DOMAIN s |-> Joined(s[i], t[Len(s) + 1 - i])])

Spread(s) == s[1].sum - s[Len(s)].sum

\* State.__lt__: s leaves the heap before t.
Before(s, t) ==
    \/ Spread(s) > Spread(t)
    \/ Spread(s) = Spread(t) /\ Lighter(t[1], s[1])

NextOf(heap) == {s \in heap : \A t \in heap : ~Before(t, s)}
=============================================================================
