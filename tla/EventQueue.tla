----------------------------- MODULE EventQueue -----------------------------
(***************************************************************************)
(* What package spool promises its callers, without files, locks or        *)
(* positions: one bounded FIFO queue of event lines.  Hooks put lines at   *)
(* its end, a full queue makes room by giving up its oldest lines, the     *)
(* flusher takes out the lines it has an answer for, wherever they are,    *)
(* and a process that dies while the file is being rewritten can cost a    *)
(* suffix of the queue, never a line in the middle and never the order.    *)
(***************************************************************************)
EXTENDS Integers, Sequences

CONSTANTS
    Cap,     \* the most lines the queue holds
    MaxLine  \* bound: at most this many lines are ever put

VARIABLES
    queue,   \* the lines, oldest first; a line is its number in order of arrival
    next     \* the number the next line gets

vars == <<queue, next>>

Newest(s, k) == IF Len(s) <= k THEN s ELSE SubSeq(s, Len(s) - k + 1, Len(s))

Init == queue = <<>> /\ next = 1

Put ==
    /\ next <= MaxLine
    /\ queue' = Append(Newest(queue, Cap - 1), next)
    /\ next' = next + 1

(* The increasing selections of k positions out of 1..n.                   *)
Picks(n) ==
    UNION {{h \in [1..k -> 1..n] : \A i, j \in 1..k : i < j => h[i] < h[j]} :
           k \in 0..n}

(* Take out some lines; those left keep their order.                       *)
Take ==
    /\ \E h \in Picks(Len(queue)) : queue' = [j \in DOMAIN h |-> queue[h[j]]]
    /\ UNCHANGED next

(* A death during a rewrite costs the lines not yet written back.          *)
LoseTail ==
    /\ \E k \in 0..Len(queue) : queue' = SubSeq(queue, 1, k)
    /\ UNCHANGED next

Next == Put \/ Take \/ LoseTail

Spec == Init /\ [][Next]_vars
=============================================================================
