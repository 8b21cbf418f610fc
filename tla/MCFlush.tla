------------------------------ MODULE MCFlush ------------------------------
(* Flush with half-second ticks: a budget of a second and a half, waits    *)
(* and pauses a few seconds long, two lines.                               *)
EXTENDS Flush

MCKinds == {[helper |-> Main, type |-> "activity"],
            [helper |-> "a1", type |-> "done"],
            [helper |-> "a1", type |-> "subagent_start"]}
MarkedOnly == {[helper |-> "a1", type |-> "done"]}
MCBackoff == <<1, 2>>
MCShortBackoff == <<1>>
=============================================================================
