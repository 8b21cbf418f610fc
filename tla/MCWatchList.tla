---------------------------- MODULE MCWatchList ----------------------------
(* WatchList with one project: a hook, a flush run and one projects        *)
(* command beside each other, and a relay list that changes twice (off and *)
(* on again, or New and the project).                                      *)
EXTENDS WatchList
=============================================================================
