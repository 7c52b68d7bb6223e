--------------------------- MODULE MCTimelineIndex ---------------------------
(* TimelineIndex on a file of four events in three batches: the second and *)
(* the third event have the same time and lie in different batches.        *)
EXTENDS TimelineIndex, TLC

MCEndOf(b) == IF b = 0 THEN 0 ELSE b + 1
MCStamp(e) == IF e <= 2 THEN e ELSE e - 1

\* The end of the first window is the time at which two batches meet.
MCWindows == {[from |-> 1, to |-> 2], [from |-> 2, to |-> 3]}

ProcSymmetry == Permutations(Procs)

=============================================================================
