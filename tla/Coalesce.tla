------------------------------ MODULE Coalesce ------------------------------
(***************************************************************************)
(* What a flush run does to a batch before it sends any: stripSubagents of *)
(* cmd/agentpulse/flush_subagent.go takes the subagent field off, and      *)
(* internal/coalesce drops the lines of a backlog that are not worth       *)
(* sending any more.  A line is a record with the envelope fields they     *)
(* read: session (NoSession when it has none to be read), helper (Main     *)
(* without the subagent field, else the id in it), type and ts.  A type    *)
(* "subagent_start" stands for subagent_stop too.                          *)
(***************************************************************************)
EXTENDS Selection

CONSTANTS
    StaleAfter, \* the relay's lost-contact window (10 minutes in the code)
    Main,       \* the helper of a line of the main chain
    NoSession   \* the session of a line whose session cannot be read

ASSUME CoalesceAssumption == StaleAfter \in Nat

Marked(l) == l.helper # Main

(* stripSubagents: a subagent_start or _stop line means nothing without    *)
(* the field and is dropped.                                               *)
StripSubagents(s) ==
    LET plain == At(s, {i \in 1..Len(s) :
                          ~(Marked(s[i]) /\ s[i].type = "subagent_start")})
    IN  [i \in 1..Len(plain) |-> [plain[i] EXCEPT !.helper = Main]]

Readable(l) == l.session # NoSession
Chain(l)    == <<l.session, l.helper>>

(* The last position of each chain, the map the loop builds.               *)
LastOf(s) ==
    [c \in {Chain(s[i]) : i \in {j \in 1..Len(s) : Readable(s[j])}} |->
        CHOOSE i \in 1..Len(s) :
            /\ Readable(s[i]) /\ Chain(s[i]) = c
            /\ \A j \in (i + 1)..Len(s) : ~(Readable(s[j]) /\ Chain(s[j]) = c)]

Stale(l, now) ==
    Readable(l) /\ l.type = "activity" /\ now - l.ts > StaleAfter

Bug_DropStaleActivity(s, now) == At(s, {i \in 1..Len(s) : ~Stale(s[i], now)})
DropStaleActivity(s, now) ==
    At(s, {i \in 1..Len(s) : Stale(s[i], now) => LastOf(s)[Chain(s[i])] = i})
=============================================================================
