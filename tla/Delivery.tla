------------------------------ MODULE Delivery ------------------------------
(***************************************************************************)
(* What the flusher promises for the lines hooks accept, without runs,     *)
(* requests, timers or state.json: a queue that is delivered at least      *)
(* once, oldest lines first.  What is still to be delivered is known to    *)
(* the process alone until it is written back, so a death between the two  *)
(* costs no line; all it does is that lines already settled are sent       *)
(* again, and nothing else makes that happen.                              *)
(***************************************************************************)
EXTENDS Naturals

VARIABLES
    accepted, \* how many lines hooks have handed over; a line is its number
    kept,     \* the lines on disk
    pending,  \* the lines that are to be sent as far as the bridge knows
    settled,  \* the lines that were acknowledged, or given up for a reason
    got       \* the lines the relay has had, whether or not it could say so

vars == <<accepted, kept, pending, settled, got>>

Init == accepted = 0 /\ kept = {} /\ pending = {} /\ settled = {} /\ got = {}

Accept ==
    /\ accepted' = accepted + 1
    /\ kept' = kept \cup {accepted'} /\ pending' = pending \cup {accepted'}
    /\ UNCHANGED <<settled, got>>

(* A request carries the oldest of the lines that are to be sent.          *)
Oldest(n) == {m \in pending : m <= n}

Settle(S) == settled' = settled \cup S /\ pending' = pending \ S

Send ==
    /\ \E n \in pending :
          /\ got' = got \cup Oldest(n)
          /\ Settle(Oldest(n)) \/ UNCHANGED <<settled, pending>>
    /\ UNCHANGED <<accepted, kept>>

(* Lines the relay names as invalid, or that are not worth sending.        *)
GiveUp ==
    /\ \E S \in SUBSET pending : Settle(S)
    /\ UNCHANGED <<accepted, kept, got>>

WriteBack == kept' = pending /\ UNCHANGED <<accepted, pending, settled, got>>

Die == pending' = kept /\ UNCHANGED <<accepted, kept, settled, got>>

Next == Accept \/ Send \/ GiveUp \/ WriteBack \/ Die

Spec == Init /\ [][Next]_vars
=============================================================================
