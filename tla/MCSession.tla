----------------------------- MODULE MCSession -----------------------------
(* Session with two hooks at a time, a cap of one subagent chain and three *)
(* subagents: one in its chain, two sharing Overflow.                      *)
EXTENDS Session, TLC

SessionSymmetry == Permutations(Hook) \cup Permutations(Helper)
=============================================================================
