-------------------------- MODULE MCMicroBatching --------------------------
(* The instances of MicroBatching that TLC checks.                          *)
EXTENDS MicroBatching

Sample(n, t) == [len |-> n, tagged |-> t]

\* All batches of three samples of three kinds, and batches of five, more
\* than the micro-batch size divides, in ascending order of length.
MCBatches ==
    [1..3 -> {Sample(1, TRUE), Sample(4, TRUE), Sample(2, FALSE)}]
      \cup {b \in [1..5 -> {Sample(1, TRUE), Sample(3, TRUE)}] :
               \A i, j \in 1..5 : i < j => b[i].len <= b[j].len}

MCLimits == {3, 4, 6}

MCSizes == {1, 2}
=============================================================================
