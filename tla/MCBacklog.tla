----------------------------- MODULE MCBacklog -----------------------------
(* Backlog: one readable session and the unreadable one, the main chain    *)
(* and one helper, four lines, lines stale after one tick of three.        *)
EXTENDS Backlog
=============================================================================
