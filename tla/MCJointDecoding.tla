-------------------------- MODULE MCJointDecoding --------------------------
(* The instances of JointDecoding that TLC checks.                          *)
EXTENDS JointDecoding

\* No limit, written in two ways, and limits an answer can reach.
MCLimits == {-1, 0, 1, 2}
=============================================================================
