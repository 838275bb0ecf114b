-------------------------- MODULE MCWriteAheadLog ---------------------------
(***************************************************************************)
(* An assumption for checking WriteAheadLog.  Without it the log can get a *)
(* gap: see run wal_replace.                                               *)
(***************************************************************************)
EXTENDS WriteAheadLog

\* truncateWAL chooses the index of the last checkpoint again only while no
\* segment has been removed.  The code does not enforce this: a crash or an
\* error in WL.Truncate may leave just some of the segments behind.
ReplacesWhole == firstSeg < TwoThirds /\ TwoThirds = checkpoint.idx => firstSeg = 0

WholeNext == (ReplacesWhole /\ StartTruncateWAL) \/ OtherStep
WholeSpec == Init /\ [][WholeNext]_vars

=============================================================================
