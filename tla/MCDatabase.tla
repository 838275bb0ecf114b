----------------------------- MODULE MCDatabase -----------------------------
(***************************************************************************)
(* The persistent blocks of the database on a small instance.              *)
(***************************************************************************)
EXTENDS Blocks

MCRanges == <<1, 3>>

\* No crash between writing a block of out-of-order samples and marking it; the
\* deletion of blocks fails only where no new block is removed for it, and a reload
\* after cleaning tombstones does not fail.
MCCrash == job.pc # "mark" /\ Crash
MCDeleteFails == job.stage \in {"head", "late", "periodic", "start"} /\ DeleteFails
MCReloadFails == job.stage # "clean" /\ ReloadFails
BlocksPart == Requests \/ JobStep \/ CompactFails \/ MCReloadFails \/ MCDeleteFails \/ MCCrash
MCSpec == BlocksInit /\ [][BlocksPart]_bVars
=============================================================================
