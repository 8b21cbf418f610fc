------------------------------- MODULE Backlog -------------------------------
(***************************************************************************)
(* What a backlog goes through while the relay has asked the bridge to     *)
(* wait: every flush run drains the spool, takes the subagent field off    *)
(* while a pause of it lasts, drops what has become stale and commits the  *)
(* rest (cmd/agentpulse/flush.go), hooks keep adding lines and the clock   *)
(* runs.  No run asks the relay anything before the wait is over, so that  *)
(* no pause begins in it: one that the last answer began ends at           *)
(* pausedUntil.  Module Flush has the runs that send; the names here are   *)
(* none of its names, so that the proofs can extend both.                  *)
(***************************************************************************)
EXTENDS Coalesce

CONSTANTS
    Session,    \* readable sessions
    Helper,     \* subagent ids
    MaxBacklog, \* bound: lines spooled
    MaxClock    \* bound: the clock stops here

ASSUME BacklogAssumption == MaxClock \in Nat

Kind == [helper : {Main}, type : {"activity", "done"}]
        \cup [helper : Helper, type : {"activity", "done", "subagent_start"}]

VARIABLES
    backlog,     \* the spool file
    clock,
    pausedUntil, \* state.json subagents_off_until; 0: no pause
    added,       \* lines spooled so far
    all          \* history: every line ever spooled, less the field where a
                 \* run has come across it in the pause

backlogVars == <<backlog, clock, pausedUntil, added, all>>

BacklogInit ==
    /\ backlog = <<>> /\ clock = 0 /\ added = 0 /\ all = <<>>
    /\ pausedUntil \in 0..MaxClock

(* A hook spools one classified event, stamped with the current time.  It  *)
(* read subagentsOn some time before, so that a line can have the field    *)
(* in the pause too.                                                       *)
HookAddsLine ==
    /\ added < MaxBacklog
    /\ \E s \in Session \cup {NoSession}, k \in Kind :
          LET l == [id |-> added + 1, session |-> s, helper |-> k.helper,
                    type |-> k.type, ts |-> clock]
          IN  backlog' = Append(backlog, l) /\ all' = Append(all, l)
    /\ added' = added + 1
    /\ UNCHANGED <<clock, pausedUntil>>

(* What a run makes of a batch: without the field during the pause, then   *)
(* without stale activity.                                                 *)
AsSent(s) == IF clock < pausedUntil THEN StripSubagents(s) ELSE s
Bug_Coalesced(s) == AsSent(DropStaleActivity(s, clock))
Coalesced(s) == DropStaleActivity(AsSent(s), clock)

(* A flush run during the wait: strip, coalesce, commit.                   *)
RateLimitedRun ==
    /\ backlog # <<>>
    /\ backlog' = Coalesced(backlog)
    /\ all' = AsSent(all)
    /\ UNCHANGED <<clock, pausedUntil, added>>

ClockTicks ==
    /\ clock < MaxClock
    /\ clock' = clock + 1
    /\ UNCHANGED <<backlog, pausedUntil, added, all>>

BacklogNext == HookAddsLine \/ RateLimitedRun \/ ClockTicks

BacklogSpec == BacklogInit /\ [][BacklogNext]_backlogVars

-----------------------------------------------------------------------------
Kept == {backlog[i] : i \in 1..Len(backlog)}
Ever == {all[i] : i \in 1..Len(all)}

(* Whatever has been dropped by how many runs, the newest line of each     *)
(* chain is still there: it carries the chain's cumulative counters, and   *)
(* so the relay ends with the same counters as without coalescing.  The    *)
(* chains are those the relay will see: once a run has taken the field     *)
(* off, a helper's lines are lines of their session's main chain.          *)
NewestOfChainKept ==
    \A l \in Ever : Readable(l) =>
        \E k \in Kept : Readable(k) /\ Chain(k) = Chain(l) /\ k.id >= l.id

(* Dropping in several runs, of which some took the field off and others   *)
(* did not, is dropping once: the backlog, coalesced now, is what is left  *)
(* of everything ever spooled, coalesced now.                              *)
RunsCompose == Coalesced(backlog) = Coalesced(all)
=============================================================================
