------------------------------- MODULE Flush -------------------------------
(***************************************************************************)
(* cmd/agentpulse/flush.go, flush_subagent.go and internal/relay: one      *)
(* flush run after another, each draining the spool, posting it chunk by   *)
(* chunk inside a time budget, and handling every class of answer; what a  *)
(* run leaves in state.json for the next.                                  *)
(*                                                                         *)
(* Time is in ticks, Second of them to a second: timers count ticks, but   *)
(* the times in state.json are RFC 3339 and lose the fraction of a second. *)
(* The spool is below its Cap (module Spool has the rest), one flusher     *)
(* runs at a time, and the identity does not change (module Pairing).      *)
(***************************************************************************)
EXTENDS Coalesce, FiniteSets

CONSTANTS
    Second,        \* ticks in a second
    Budget,        \* flushBudget
    Backoff,       \* backoffSchedule
    Grace,         \* pairingGracePeriod; the bridge was paired at time 0
    MinWait, FallbackWait, MaxWait,  \* bounds of a 429's wait
    MaxRateLimitRetries,             \* maxRateLimitRetries
    SubagentPeriod,                  \* subagentFallbackPeriod
    ChunkMax,      \* lines in one request (abstracts 50 events and 16 KB)
    RetryAfters,   \* usable Retry-After values the relay may send
    NoRetryAfter,  \* a Retry-After that is missing or not delta-seconds
    Kinds,         \* the kinds of line hooks spool: records of helper, type
    MaxLine,       \* bound: lines ever spooled
    MaxTime        \* bound: no run starts that could pass this time

ASSUME FlushAssumption ==
    /\ Second \in Nat \ {0} /\ ChunkMax \in Nat \ {0} /\ RetryAfters \subseteq Nat
    /\ {Budget, MinWait, FallbackWait, MaxWait, SubagentPeriod} \subseteq Nat
    /\ FallbackWait <= MaxWait
    /\ Backoff \in Seq(Nat)

VARIABLES
    now,     \* the clock
    spool,   \* the spool file
    spooled, \* lines ever spooled
    st,      \* state.json
    cred,    \* whether a credential is stored
    run,     \* the flush run
    (* history *)
    answered, \* lines the relay took, or named as invalid, or that were dropped
    taken,    \* lines the relay took
    strikes,  \* 401s outside the grace period since the last 2xx
    quiet,    \* the time until which the last 429, if saved, asks for silence
    paused,   \* the time until which the last rejection, if saved, forbids marks
    lostReset \* a crash lost a reset of the 401 counter

vars == <<now, spool, spooled, st, cred, run, answered, taken, strikes, quiet,
          paused, lostReset>>

(* The words of state.LastFlush.Outcome; the six that say why a run failed *)
(* are one here.                                                           *)
Outcome == {"ok", "unpaired", "failed"}

Idle == [pc |-> "idle", cur |-> <<>>, raw |-> 0, off |-> 0, mem |-> st,
         attempt |-> 0, rl |-> 0, deadline |-> 0, wake |-> 0, why |-> "none",
         outcome |-> "ok"]

Ids(s) == {s[i].id : i \in 1..Len(s)}

(* time.Format(time.RFC3339): the fraction of a second is cut off.         *)
RFC3339(t) == t - (t % Second)

-----------------------------------------------------------------------------
(* A pause of the subagent field, which the relay has refused.             *)
SubagentsPaused(s, t) == s.subOff # 0 /\ t < s.subOff

(* rateLimited: a recorded wait that is still running, unless the clock    *)
(* has been set back so far that this bridge cannot have written it.       *)
Bug_RateLimited(s, t) == s.rlUntil # 0 /\ s.rlUntil - t > Second
RateLimited(s, t) ==
    s.rlUntil # 0 /\ s.rlUntil - t > 0 /\ s.rlUntil - t <= MaxWait

Least(a, b)    == IF a < b THEN a ELSE b
Greatest(a, b) == IF a > b THEN a ELSE b

RateLimitWait(ra) ==
    IF ra = NoRetryAfter THEN FallbackWait
    ELSE Least(Greatest(ra, MinWait), MaxWait)

-----------------------------------------------------------------------------
Init ==
    /\ now = 0 /\ spool = <<>> /\ spooled = 0 /\ cred = TRUE
    /\ st = [c401 |-> 0, reason |-> FALSE, rlUntil |-> 0, subOff |-> 0,
             last |-> "none"]
    /\ run = Idle
    /\ answered = {} /\ taken = {} /\ strikes = 0 /\ quiet = 0 /\ paused = 0
    /\ lostReset = FALSE

flushHist == <<answered, taken, strikes, quiet, paused, lostReset>>

(* A hook appends a line.  It read subagentsOn from state.json earlier, so *)
(* a marked line can still arrive after a pause began.                     *)
HookAppends ==
    /\ spooled < MaxLine
    /\ \E k \in Kinds :
          spool' = Append(spool, [id |-> spooled + 1, session |-> "s",
                                  helper |-> k.helper, type |-> k.type,
                                  ts |-> now])
    /\ spooled' = spooled + 1
    /\ UNCHANGED <<now, st, cred, run, flushHist>>

(* Time passes between runs, while a request is out (until the context's   *)
(* deadline) and while the run sleeps.                                     *)
Tick ==
    /\ now < MaxTime
    /\ run.pc \in {"idle", "posting", "sleeping"}
    /\ run.pc = "posting" => now < run.deadline
    /\ run.pc = "sleeping" => now < run.wake
    /\ now' = now + 1
    /\ UNCHANGED <<spool, spooled, st, cred, run, flushHist>>

(* A run without a credential only records that.                           *)
RunUnpaired ==
    /\ run.pc = "idle" /\ ~cred
    /\ st' = [st EXCEPT !.last = "unpaired"]
    /\ UNCHANGED <<now, spool, spooled, cred, run, flushHist>>

(* What a run sets out to send: less the subagent field during a pause,    *)
(* less stale activity.                                                    *)
Bug_ToSend(s) == DropStaleActivity(s, now)
ToSend(s) ==
    DropStaleActivity(IF SubagentsPaused(st, now) THEN StripSubagents(s) ELSE s,
                      now)

(* A run up to its first request: drain, strip, coalesce; while a recorded *)
(* wait runs it goes straight to commit.  An empty batch ends it.          *)
RunStarts ==
    /\ run.pc = "idle" /\ cred /\ spool # <<>>
    /\ now + Budget <= MaxTime
    /\ LET batch == ToSend(spool)
           r == [Idle EXCEPT !.cur = batch, !.raw = Len(spool),
                             !.deadline = now + Budget]
       IN  /\ run' = IF RateLimited(st, now)
                     THEN [r EXCEPT !.pc = "committing", !.outcome = "failed"]
                     ELSE [r EXCEPT !.pc = "loop", !.mem.rlUntil = 0]
           /\ answered' = answered \cup (Ids(spool) \ Ids(batch))
    /\ UNCHANGED <<now, spool, spooled, st, cred, taken, strikes, quiet, paused,
                   lostReset>>

-----------------------------------------------------------------------------
(* The loop.                                                               *)

LoopEnds ==
    /\ run.pc = "loop"
    /\ run.cur = <<>> \/ now >= run.deadline
    /\ run' = [run EXCEPT !.pc = "committing",
                          !.outcome = IF run.cur = <<>> THEN @ ELSE "failed"]
    /\ UNCHANGED <<now, spool, spooled, st, cred, flushHist>>

PostEvents ==
    /\ run.pc = "loop" /\ run.cur # <<>> /\ now < run.deadline
    /\ run' = [run EXCEPT !.pc = "posting", !.off = 0]
    /\ UNCHANGED <<now, spool, spooled, st, cred, answered, taken, strikes, quiet,
                   paused, lostReset>>

(* The chunk that is out, as positions in cur.                             *)
Bug_Chunk == 1..Least(ChunkMax, Len(run.cur))
Chunk == (run.off + 1)..Least(run.off + ChunkMax, Len(run.cur))
ChunkIds == {run.cur[i].id : i \in Chunk}

(* removeResolved: what is neither in the delivered prefix nor dropped.    *)
Bug_Rest(dropped) ==
    At(run.cur, {i \in 1..Len(run.cur) : i > run.off /\ i - 1 \notin dropped})
Bug_RestKeepsDropped(dropped) ==
    At(run.cur, {i \in 1..Len(run.cur) : i > run.off})
Rest(dropped) ==
    At(run.cur, {i \in 1..Len(run.cur) : i > run.off /\ i \notin dropped})

(* The part of every answer's handling that depends on Sent alone.         *)
Bug_AfterSent == run.mem
AfterSent == IF run.off > 0 THEN [run.mem EXCEPT !.c401 = 0] ELSE run.mem

(* A run after a failed PostEvents.                                        *)
After(pc, mem, rest) ==
    [run EXCEPT !.pc = pc, !.mem = mem, !.cur = rest, !.off = 0,
                !.outcome = "failed"]

(* sleepWithinBudget: r sleeps d, or ends the loop when d does not fit.    *)
SleepOrEnd(r, d, why) ==
    IF r.deadline - now < d
    THEN [r EXCEPT !.pc = "committing"]
    ELSE [r EXCEPT !.pc = "sleeping", !.wake = now + d, !.why = why]

(* waitForRetry: the next step of the backoff schedule.                    *)
RetryOrEnd(r) ==
    IF r.attempt >= Len(Backoff)
    THEN [r EXCEPT !.pc = "committing"]
    ELSE SleepOrEnd([r EXCEPT !.attempt = @ + 1], Backoff[r.attempt + 1], "retry")

Answerable == run.pc = "posting" /\ now < run.deadline

Delivered == run.off + Cardinality(Chunk)

(* A 2xx: the chunk is delivered; after the last chunk the run is done.    *)
AnswerOK ==
    /\ Answerable
    /\ taken' = taken \cup ChunkIds
    /\ answered' = answered \cup ChunkIds
    /\ strikes' = 0
    /\ run' = IF Delivered < Len(run.cur) THEN [run EXCEPT !.off = Delivered]
              ELSE [run EXCEPT !.pc = "committing", !.off = Delivered, !.cur = <<>>,
                               !.mem.c401 = 0, !.outcome = "ok"]
    /\ UNCHANGED <<now, spool, spooled, st, cred, quiet, paused, lostReset>>

(* A 400 that names a line of the chunk: the line is dropped and the rest  *)
(* retried at once.                                                        *)
Answer400 ==
    /\ Answerable
    /\ \E i \in Chunk :
          /\ run' = After("loop", AfterSent, Rest({i}))
          /\ answered' = answered \cup {run.cur[i].id}
    /\ UNCHANGED <<now, spool, spooled, st, cred, taken, strikes, quiet, paused,
                   lostReset>>

(* A 400 that names a marked line for its unexpected field subagent: the   *)
(* field is stripped from all the rest, marking stops for a period.        *)
Answer400Subagent ==
    /\ Answerable
    /\ \E i \in Chunk : Marked(run.cur[i])
    /\ LET rest == StripSubagents(Rest({}))
           mem  == [AfterSent EXCEPT !.subOff = RFC3339(now + SubagentPeriod)]
       IN  /\ run' = After("loop", mem, rest)
           /\ answered' = answered \cup (Ids(Rest({})) \ Ids(rest))
           /\ paused' = mem.subOff
    /\ UNCHANGED <<now, spool, spooled, st, cred, taken, strikes, quiet,
                   lostReset>>

(* A 400 that names no line it was sent: nothing to drop, the run ends.    *)
Answer400Unnamed ==
    /\ Answerable
    /\ run' = After("committing", AfterSent, Rest({}))
    /\ UNCHANGED <<now, spool, spooled, st, cred, flushHist>>

InGrace == now < Grace

(* A 401 within the grace period after pairing is retried.                 *)
Answer401InGrace ==
    /\ Answerable /\ InGrace
    /\ run' = RetryOrEnd(After("posting", AfterSent, Rest({})))
    /\ UNCHANGED <<now, spool, spooled, st, cred, flushHist>>

(* The counter is only compared with 3: it, and its history, stop there.   *)
Count(c) == Least(c + 1, 3)

Struck(c) == c >= 3

(* Any other 401 counts; the third deletes the credential, if it can.      *)
Answer401 ==
    /\ Answerable /\ ~InGrace
    /\ strikes' = Count(strikes)
    /\ LET c == Count(AfterSent.c401) IN
          /\ run' = After("committing",
                          [AfterSent EXCEPT !.c401 = c,
                                            !.reason = @ \/ Struck(c)],
                          Rest({}))
          /\ \/ cred' = ~Struck(c)
             \/ UNCHANGED cred
    /\ UNCHANGED <<now, spool, spooled, st, answered, taken, quiet, paused,
                   lostReset>>

(* A 429: the wait is recorded, and slept out here if it fits the budget.  *)
Answer429 ==
    /\ Answerable
    /\ \E ra \in RetryAfters \cup {NoRetryAfter} :
          LET wait == RateLimitWait(ra)
              r == [After("posting", [AfterSent EXCEPT !.rlUntil = RFC3339(now + wait)],
                          Rest({})) EXCEPT !.rl = @ + 1]
          IN  /\ run' = IF r.rl > MaxRateLimitRetries \/ ra = NoRetryAfter
                        THEN [r EXCEPT !.pc = "committing"]
                        ELSE SleepOrEnd(r, wait, "rate")
              /\ quiet' = now + (IF ra = NoRetryAfter THEN 0 ELSE Least(ra, MaxWait))
    /\ UNCHANGED <<now, spool, spooled, st, cred, answered, taken, strikes, paused,
                   lostReset>>

(* A 5xx: backoff.                                                         *)
Answer5xx ==
    /\ Answerable
    /\ run' = RetryOrEnd(After("posting", AfterSent, Rest({})))
    /\ UNCHANGED <<now, spool, spooled, st, cred, flushHist>>

(* No answer: a network error at any time, or the context's deadline.  The *)
(* relay may have taken the chunk all the same.                            *)
NoAnswer ==
    /\ run.pc = "posting"
    /\ run' = RetryOrEnd(After("posting", AfterSent, Rest({})))
    /\ \/ taken' = taken \cup ChunkIds
       \/ UNCHANGED taken
    /\ UNCHANGED <<now, spool, spooled, st, cred, answered, strikes, quiet, paused,
                   lostReset>>

(* The timer fires; a waited-out 429 is forgotten.                         *)
Wakes ==
    /\ run.pc = "sleeping" /\ now = run.wake
    /\ run' = [run EXCEPT !.pc = "loop",
                          !.mem.rlUntil = IF run.why = "rate" THEN 0 ELSE @]
    /\ UNCHANGED <<now, spool, spooled, st, cred, flushHist>>

(* Timer and deadline fall together and the select takes the deadline.     *)
SleepCut ==
    /\ run.pc = "sleeping" /\ now = run.wake /\ now = run.deadline
    /\ run' = [run EXCEPT !.pc = "committing"]
    /\ UNCHANGED <<now, spool, spooled, st, cred, flushHist>>

-----------------------------------------------------------------------------
(* commit: what is kept, then what hooks appended since Drain.             *)
Added == SubSeq(spool, run.raw + 1, Len(spool))
Bug_Recommitted(keep) == Added \o keep
Recommitted(keep) == keep \o Added

(* commit(cur), then state.Save.                                           *)
Commit ==
    /\ run.pc = "committing"
    /\ spool' = Recommitted(run.cur)
    /\ run' = [Idle EXCEPT !.pc = "saving", !.mem = run.mem, !.outcome = run.outcome]
    /\ UNCHANGED <<now, spooled, st, cred, answered, taken, strikes, quiet, paused,
                   lostReset>>

SaveState ==
    /\ run.pc = "saving"
    /\ st' = [run.mem EXCEPT !.last = run.outcome]
    /\ run' = [Idle EXCEPT !.mem = st']
    /\ UNCHANGED <<now, spool, spooled, cred, flushHist>>

(* The flusher is killed: its memory is gone, and with it a wait, a pause  *)
(* or a reset that was not saved.                                          *)
Crash ==
    /\ run.pc # "idle"
    /\ run' = Idle
    /\ quiet' = IF run.mem.rlUntil = st.rlUntil THEN quiet ELSE 0
    /\ paused' = IF run.mem.subOff = st.subOff THEN paused ELSE 0
    /\ lostReset' = (lostReset \/ run.off > 0 \/ run.mem.c401 < st.c401)
    /\ UNCHANGED <<now, spool, spooled, st, cred, answered, taken, strikes>>

Step == \/ LoopEnds \/ PostEvents \/ Wakes \/ SleepCut \/ Commit \/ SaveState
        \/ AnswerOK \/ Answer400 \/ Answer400Subagent \/ Answer400Unnamed
        \/ Answer401InGrace \/ Answer401 \/ Answer429 \/ Answer5xx \/ NoAnswer

Next == HookAppends \/ Tick \/ RunUnpaired \/ RunStarts \/ Step \/ Crash

Spec == Init /\ [][Next]_vars

(* The process is scheduled, a request ends by its context's deadline, and *)
(* the clock runs.  No answer is promised, and no hook.                    *)
FairSpec == Spec /\ WF_vars(Step) /\ WF_vars(Tick)

-----------------------------------------------------------------------------
LineOK(l) ==
    /\ l.id \in 1..MaxLine /\ l.ts \in 0..now
    /\ l.type \in {"activity", "done", "subagent_start"}

(* Types; no recorded wait or pause lies further ahead than the code's     *)
(* bounds on them.                                                         *)
StateOK(s) ==
    /\ s.c401 \in 0..3 /\ s.reason \in BOOLEAN
    /\ s.rlUntil \in 0..(now + MaxWait) /\ s.subOff \in 0..(now + SubagentPeriod)

TypeOK ==
    /\ now \in 0..MaxTime /\ spooled \in 0..MaxLine /\ cred \in BOOLEAN
    /\ \A i \in 1..Len(spool) : LineOK(spool[i])
    /\ \A i \in 1..Len(run.cur) : LineOK(run.cur[i])
    /\ StateOK(st) /\ StateOK(run.mem) /\ st.last \in Outcome \cup {"none"}
    /\ run.pc \in {"idle", "loop", "posting", "sleeping", "committing", "saving"}
    /\ run.outcome \in Outcome

(* NFR-08 across runs, retries, partial deliveries and crashes: a line is  *)
(* in the spool until the relay has taken it, has named it as invalid, or  *)
(* the run has dropped it as stale or as meaningless without its field.    *)
Accounted == \A n \in 1..spooled : n \in answered \/ n \in Ids(spool)

(* Retries and partial deliveries never let a line overtake an older one.  *)
NoOvertaking == \A n \in taken : \A m \in 1..n : m \in taken \cup answered

(* ERR-04: the credential goes only after three 401s outside the grace     *)
(* period with no 2xx between them, however many runs that takes, as long  *)
(* as no crash kept a reset from being saved.                              *)
CredentialNeedsThreeStrikes == ~cred /\ ~lostReset => strikes = 3

StartsPosting == run.pc = "loop" /\ run'.pc = "posting"

(* ERR-05: while a 429's Retry-After runs no run contacts the relay, up to *)
(* the fraction of a second RFC 3339 loses.                                *)
QuietKept == [][StartsPosting => now + Second > quiet]_vars

(* ADR-005 section 8: for a period after the relay rejected the subagent   *)
(* field, no line that carries it is sent, not even one a hook spooled     *)
(* before it saw the pause.                                                *)
NoMarkWhilePaused ==
    [][StartsPosting /\ now < paused =>
          \A i \in 1..Len(run.cur) : ~Marked(run.cur[i])]_vars

(* Whatever the relay answers, a run ends.                                 *)
RunEnds == run.pc # "idle" ~> run.pc = "idle"

(* The lines that are to be sent as the running process knows them: those  *)
(* in hand that no 2xx has covered, and those hooks added since Drain.     *)
Pending ==
    IF run.pc \in {"idle", "saving"} THEN Ids(spool)
    ELSE {run.cur[i].id : i \in (run.off + 1)..Len(run.cur)} \cup Ids(Added)

Promise == INSTANCE Delivery WITH accepted <- spooled, kept <- Ids(spool),
               pending <- Pending, settled <- answered, got <- taken

(* All of flush.go's loop, PostEvents and commit keep the promise of       *)
(* module Delivery: whatever the relay answers and wherever a run dies, a  *)
(* line is on disk until it is settled, every request carries the oldest   *)
(* lines that are left, and only a death makes a settled line go again.    *)
DeliveryKept == Promise!Spec
=============================================================================
