----------------------------- MODULE BoundedLog -----------------------------
(***************************************************************************)
(* What the ring buffer promises its readers: the most recent entries,     *)
(* oldest first, never more than Capacity, nothing lost in between.        *)
(* Entries are numbered in the order they are appended.                    *)
(***************************************************************************)
EXTENDS Naturals, Sequences

CONSTANT Capacity   \* a positive number

VARIABLE log        \* the entries held, oldest first

Init == log = <<>>

Newest == IF log = <<>> THEN 0 ELSE log[Len(log)]

\* The next entry is added; in a full log the oldest one makes room for it.
Add ==
    log' = Append(IF Len(log) < Capacity THEN log ELSE Tail(log), Newest + 1)

Spec == Init /\ [][Add]_log
=============================================================================
