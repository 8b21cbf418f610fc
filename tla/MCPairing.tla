------------------------------ MODULE MCPairing ------------------------------
(* Two identities and one unpair: a first pairing, a re-pairing, or an     *)
(* unpairing and a new pairing.                                            *)
EXTENDS Reports, TLC

CONSTANTS f1, f2

(* Degraded but in step, and a clock that is off; no answer has no date.   *)
MCHeadAnswers == {[status |-> 503, date |-> 0],
                  [status |-> 204, date |-> -3]}

Flusher1 == {f1}
Flusher2 == {f1, f2}
FlusherSymmetry == Permutations(Flusher2)
=============================================================================
