-------------------------- MODULE CheckpointStore --------------------------
(***************************************************************************)
(* What checkpointing promises a training job, with no ranks, no files and *)
(* no barriers: one durable step, replaced by the job's current step in a  *)
(* single instant, and every launch goes on from it.  Whatever a crash     *)
(* interrupts, the next launch sees the old checkpoint or the new one.     *)
(* SftCheckpoint implements this specification.                            *)
(***************************************************************************)
EXTENDS Integers

CONSTANT LastStep    \* the highest step a job can reach

VARIABLES durable,   \* the step the next launch resumes from, 0: none
          current    \* the step of the running job, Down when none runs

Down == -1

vars == <<durable, current>>

Init == durable = 0 /\ current = Down

Launch == /\ current = Down
          /\ current' = durable
          /\ UNCHANGED durable

Advance == /\ current \in 0..(LastStep - 1)
           /\ current' = current + 1
           /\ UNCHANGED durable

Commit == /\ current > durable
          /\ durable' = current
          /\ UNCHANGED current

\* The job crashes or is through.
Stop == /\ current # Down
        /\ current' = Down
        /\ UNCHANGED durable

Next == Launch \/ Advance \/ Commit \/ Stop

Spec == Init /\ [][Next]_vars
=============================================================================
