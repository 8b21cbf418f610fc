------------------------------ MODULE MCSpool ------------------------------
(* Spool on small instances: two hooks and five or six lines, one of them  *)
(* malformed; the cap is three lines, two where the loss is shown.         *)
EXTENDS Spool, TLC

MCMalformed == {3}
NoneMalformed == {}
HookSymmetry == Permutations(Hook)
=============================================================================
