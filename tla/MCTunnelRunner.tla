--------------------------- MODULE MCTunnelRunner ---------------------------
(***************************************************************************)
(* TunnelRunner for TLC: small caps for the two counters, so that the      *)
(* Failing pause and the longest backoff are reached within a few failures *)
(* (the code has 6 and 10), and two failed checks in a row for a kill.     *)
(***************************************************************************)
EXTENDS TunnelRunner

MCFailThreshold == 2
MCMaxShift == 2
MCMaxRecent == 2
=============================================================================
