----------------------------- MODULE MCLogStream -----------------------------
(***************************************************************************)
(* LogStream for TLC: two producers and two handlers.                      *)
(***************************************************************************)
EXTENDS LogStream

CONSTANTS p1, p2, s1, s2

MCProducers == {p1, p2}
MCSubscribers == {s1, s2}
=============================================================================
