-------------------------- MODULE MCHeadCompaction --------------------------
(* Instances of HeadCompaction for TLC. *)
EXTENDS HeadCompaction, TLC

\* Appenders differ in nothing but their name.
AppenderSymmetry == Permutations(Appenders)

\* A head whose first sample is older than 1970.
BeforeEpoch == -3
=============================================================================
