----------------------------- MODULE MCPairPoll -----------------------------
(* A code that lives six ticks and a clock up to two ticks off, either    *)
(* way; a 429 may ask for less than is left or for more.                   *)
EXTENDS PairPoll
MCRetryAfter == {2, 12}
MCSkew == {-2, 0, 2}
=============================================================================
