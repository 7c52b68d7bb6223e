----------------------------- MODULE MCReplayRun -----------------------------
(* ReplayRun on a small instance: candles of two instants.                 *)
EXTENDS ReplayRun

MCCandleOf(t) == t \div 2

=============================================================================
