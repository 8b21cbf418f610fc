---------------------------- MODULE FlushProofs ----------------------------
(***************************************************************************)
(* No run loses a line or sends it before an older one; and what a run     *)
(* leaves in state.json for the next: the count of 401s never runs ahead   *)
(* of the relay's answers, a 429's wait is kept, and nothing marked is     *)
(* sent in a pause.  All for every budget, schedule, chunk size, wait and  *)
(* resolution of the clock that FlushAssumption admits, and any number of  *)
(* lines and runs.                                                         *)
(*                                                                         *)
(* In five parts: IInv is the types, the 401s and the waits; AInv adds     *)
(* where each line is; OInv adds the order of the lines and the pause;     *)
(* DInv adds what a commit writes back, for the steps of module Delivery;  *)
(* the last part, BInv, is about module Backlog and rests on the same      *)
(* lemmas.                                                                 *)
(***************************************************************************)
EXTENDS Flush, Backlog, SelectionProofs

Pc == {"idle", "loop", "posting", "sleeping", "committing", "saving"}
States == [c401 : 0..3, reason : BOOLEAN, rlUntil : Nat, subOff : Nat,
           last : Outcome \cup {"none"}]

(* The record of a run, whatever lines it holds.                           *)
Shape(r) ==
    r \in [pc : Pc, cur : {r.cur}, raw : Nat, off : Nat, mem : States, attempt : Nat,
           rl : Nat, deadline : Nat, wake : Nat, why : {r.why}, outcome : Outcome]

Typed ==
    /\ now \in Nat /\ quiet \in Nat /\ strikes \in 0..3
    /\ cred \in BOOLEAN /\ lostReset \in BOOLEAN
    /\ st \in States /\ Shape(run)

(* No recorded wait is longer than the code's bound on it.                 *)
WaitsBounded == st.rlUntil <= now + MaxWait /\ run.mem.rlUntil <= now + MaxWait

(* The counter as the answer to the request that is out will find it: a    *)
(* chunk that was taken before it has reset it.                            *)
Counter == IF run.off > 0 THEN 0 ELSE run.mem.c401

CountTrue ==
    ~lostReset => /\ run.pc = "idle" => st.c401 <= strikes
                  /\ run.pc # "idle" => Counter <= strikes

(* A run that has deleted the credential asks nothing more.                *)
DeletedLast == ~cred => run.pc \in {"idle", "committing", "saving"}

(* Silence is over, or whoever may ask next knows until when it lasts.     *)
QuietKnown ==
    \/ quiet < now + Second
    \/ run.pc = "idle" /\ quiet < st.rlUntil + Second
    \/ run.pc \in {"committing", "saving"} /\ quiet < run.mem.rlUntil + Second
    \/ /\ run.pc = "sleeping" /\ run.why = "rate"
       /\ quiet <= run.wake /\ quiet < run.mem.rlUntil + Second

IInv ==
    /\ Typed /\ WaitsBounded /\ CountTrue /\ DeletedLast /\ QuietKnown
    /\ IsSeq(spool) /\ IsSeq(run.cur)
    /\ run.pc = "posting" => run.off < Len(run.cur)
    /\ run.pc \in {"loop", "sleeping", "saving"} => run.off = 0
    /\ run.pc = "committing" => run.off = 0 \/ run.mem.c401 = 0
    /\ CredentialNeedsThreeStrikes

-----------------------------------------------------------------------------
(* Sequences of lines stay sequences.                                      *)

LEMMA DropIsSeq == ASSUME NEW s, NEW t, IsSeq(s) PROVE IsSeq(DropStaleActivity(s, t))
BY AtLines DEF DropStaleActivity

LEMMA StripIsSeq == ASSUME NEW s, IsSeq(s) PROVE IsSeq(StripSubagents(s))
<1> DEFINE plain == At(s, {i \in 1..Len(s) : ~(Marked(s[i]) /\ s[i].type = "subagent_start")})
           out == [i \in 1..Len(plain) |-> [plain[i] EXCEPT !.helper = Main]]
           S == {[plain[i] EXCEPT !.helper = Main] : i \in 1..Len(plain)}
<1>1. IsSeq(plain)
  BY AtLines
<1>2. StripSubagents(s) = out
  BY DEF StripSubagents
<1> HIDE DEF plain
<1>3. Len(plain) \in Nat
  BY <1>1 DEF IsSeq
<1>4. out \in Seq(S)
  BY <1>3
<1> QED BY <1>2, <1>4 DEF IsSeq

LEMMA TailIsSeq == ASSUME NEW s, NEW n \in Nat, IsSeq(s) PROVE IsSeq(SubSeq(s, n + 1, Len(s)))
<1>1. PICK S : s \in Seq(S)
  BY DEF IsSeq
<1>2. SubSeq(s, n + 1, Len(s)) \in Seq(S)
  BY <1>1
<1> QED BY <1>2 DEF IsSeq

(* A time in state.json is behind the time that was meant by less than a   *)
(* second.                                                                 *)
LEMMA FractionLost ==
    ASSUME NEW t \in Nat
    PROVE  RFC3339(t) \in Nat /\ RFC3339(t) <= t /\ t < RFC3339(t) + Second
<1>1. t % Second \in 0..(Second - 1) /\ t % Second <= t
  BY FlushAssumption
<1> QED BY <1>1, FlushAssumption DEF RFC3339

-----------------------------------------------------------------------------
(* What a run sends, or keeps, is a sequence.                              *)
LEMMA RestIsSeq == ASSUME IInv, NEW d PROVE IsSeq(Rest(d))
BY AtLines DEF IInv, Rest

LEMMA InitIInv == Init => IInv
<1> SUFFICES ASSUME Init PROVE IInv
  OBVIOUS
<1>1. st \in States /\ now = 0 /\ quiet = 0 /\ strikes = 0 /\ cred = TRUE
      /\ lostReset = FALSE /\ st.c401 = 0 /\ st.rlUntil = 0
  BY DEF Init, States
<1>2. Shape(run) /\ run.pc = "idle" /\ run.cur = <<>> /\ run.mem = st
  BY <1>1 DEF Init, Idle, Shape, Pc, Outcome
<1>3. IsSeq(<<>>)
  <2>1. <<>> \in Seq({})
    OBVIOUS
  <2> QED BY <2>1 DEF IsSeq
<1>4. IsSeq(spool) /\ IsSeq(run.cur)
  BY <1>2, <1>3 DEF Init
<1>5. Typed
  <2>1. cred \in BOOLEAN /\ lostReset \in BOOLEAN
    BY <1>1
  <2> QED BY <1>1, <1>2, <2>1 DEF Typed
<1>6. WaitsBounded /\ QuietKnown
  BY <1>1, <1>2, FlushAssumption DEF WaitsBounded, QuietKnown
<1>7. CountTrue /\ DeletedLast /\ CredentialNeedsThreeStrikes
  BY <1>1, <1>2 DEF CountTrue, DeletedLast, CredentialNeedsThreeStrikes
<1> QED BY <1>2, <1>4, <1>5, <1>6, <1>7 DEF IInv

(* Steps that leave the run, its state and the relay's answers alone.      *)
LEMMA OutsideStep ==
    ASSUME IInv, HookAppends \/ Tick \/ RunUnpaired
    PROVE  IInv'
<1>1. UNCHANGED <<cred, run, answered, taken, strikes, quiet, paused, lostReset>>
  BY DEF HookAppends, Tick, RunUnpaired, flushHist
<1>2. now' \in Nat /\ now <= now'
  BY DEF HookAppends, Tick, RunUnpaired, IInv, Typed
<1>3. st' \in States /\ st'.rlUntil = st.rlUntil /\ st'.c401 = st.c401
  BY DEF HookAppends, Tick, RunUnpaired, IInv, Typed, States, Outcome
<1>4. IsSeq(spool')
  BY AppendIsSeq DEF HookAppends, Tick, RunUnpaired, IInv
<1>5. Typed'
  BY <1>1, <1>2, <1>3 DEF IInv, Typed, Shape
<1>6. st.rlUntil \in Nat /\ run.mem.rlUntil \in Nat
  BY DEF IInv, Typed, Shape, States
<1>7. WaitsBounded' /\ QuietKnown'
  BY <1>1, <1>2, <1>3, <1>6, FlushAssumption DEF IInv, Typed, WaitsBounded, QuietKnown
<1> QED BY <1>1, <1>3, <1>4, <1>5, <1>7
        DEF IInv, CountTrue, Counter, DeletedLast, CredentialNeedsThreeStrikes

-----------------------------------------------------------------------------
(* A request that was not answered with a 2xx.                             *)

LEMMA AfterShape ==
    ASSUME IInv, NEW pc \in Pc, NEW mem \in States, NEW rest
    PROVE  LET r == After(pc, mem, rest)
           IN  /\ Shape(r) /\ r.pc = pc /\ r.mem = mem /\ r.cur = rest /\ r.off = 0
               /\ r.raw = run.raw
BY DEF IInv, Typed, Shape, After, Outcome

(* It is followed by a wait or by the end of the loop.                     *)
LEMMA SleepShape ==
    ASSUME NEW r, Shape(r), now \in Nat, NEW d \in Nat, NEW why
    PROVE  LET s == SleepOrEnd(r, d, why)
           IN  /\ Shape(s) /\ s.mem = r.mem /\ s.cur = r.cur /\ s.off = r.off
               /\ s.raw = r.raw
               /\ \/ s.pc = "committing"
                  \/ s.pc = "sleeping" /\ s.why = why /\ s.wake = now + d
<1>1. CASE r.deadline - now < d
  BY <1>1 DEF Shape, SleepOrEnd, Pc
<1>2. CASE ~(r.deadline - now < d)
  <2> DEFINE s == [r EXCEPT !.pc = "sleeping", !.wake = now + d, !.why = why]
  <2>1. SleepOrEnd(r, d, why) = s
    BY <1>2 DEF SleepOrEnd
  <2>2. now + d \in Nat
    OBVIOUS
  <2>3. /\ Shape(s) /\ s.mem = r.mem /\ s.cur = r.cur /\ s.off = r.off /\ s.raw = r.raw
        /\ s.pc = "sleeping" /\ s.why = why /\ s.wake = now + d
    BY <2>2 DEF Shape, Pc
  <2> QED BY <2>1, <2>3
<1> QED BY <1>1, <1>2

LEMMA RetryShape ==
    ASSUME NEW r, Shape(r), now \in Nat
    PROVE  LET s == RetryOrEnd(r)
           IN  /\ Shape(s) /\ s.mem = r.mem /\ s.cur = r.cur /\ s.off = r.off
               /\ s.raw = r.raw
               /\ s.pc \in {"committing", "sleeping"}
<1>1. CASE r.attempt >= Len(Backoff)
  BY <1>1 DEF RetryOrEnd, Shape, Pc
<1>2. CASE ~(r.attempt >= Len(Backoff))
  <2> DEFINE q == [r EXCEPT !.attempt = @ + 1]
  <2>1. r.attempt \in Nat /\ Len(Backoff) \in Nat
    BY FlushAssumption DEF Shape
  <2>2. Backoff[r.attempt + 1] \in Nat
    BY <1>2, <2>1, FlushAssumption
  <2>3. Shape(q) /\ q.mem = r.mem /\ q.cur = r.cur /\ q.off = r.off /\ q.raw = r.raw
    BY DEF Shape
  <2>4. RetryOrEnd(r) = SleepOrEnd(q, Backoff[r.attempt + 1], "retry")
    BY <1>2 DEF RetryOrEnd
  <2> HIDE DEF q
  <2> QED BY <2>2, <2>3, <2>4, SleepShape
<1> QED BY <1>1, <1>2

(* Of state.json it changes at most the counter, to what it was after the  *)
(* chunks that had been taken.                                             *)
LEMMA AfterSentFacts ==
    ASSUME IInv
    PROVE  /\ AfterSent \in States /\ AfterSent.c401 = Counter
           /\ AfterSent.rlUntil = run.mem.rlUntil /\ Counter \in 0..3
BY DEF IInv, Typed, Shape, States, AfterSent, Counter

LEMMA FailedAnswer ==
    ASSUME IInv, run.pc = "posting",
           UNCHANGED <<now, spool, st, cred, strikes, quiet, lostReset>>,
           Shape(run'), IsSeq(run'.cur), run'.off = 0,
           run'.pc \in {"loop", "committing", "sleeping"},
           run'.mem.c401 = Counter, run'.mem.rlUntil = run.mem.rlUntil
    PROVE  IInv'
<1>1. Typed'
  BY DEF IInv, Typed, Shape
<1>2. WaitsBounded' /\ QuietKnown'
  BY DEF IInv, WaitsBounded, QuietKnown
<1>3. CountTrue' /\ DeletedLast'
  BY DEF IInv, CountTrue, Counter, DeletedLast
<1> QED BY <1>1, <1>2, <1>3 DEF IInv, CredentialNeedsThreeStrikes

LEMMA FailedAnswerStep ==
    ASSUME IInv,
           \/ Answer400 \/ Answer400Subagent \/ Answer400Unnamed
           \/ Answer401InGrace \/ Answer5xx \/ NoAnswer
    PROVE  IInv'
<1>1. /\ run.pc = "posting" /\ now \in Nat
      /\ UNCHANGED <<now, spool, st, cred, strikes, quiet, lostReset>>
  BY DEF Answer400, Answer400Subagent, Answer400Unnamed, Answer401InGrace, Answer5xx,
         NoAnswer, Answerable, flushHist, IInv, Typed
<1>2. /\ AfterSent \in States /\ AfterSent.c401 = Counter
      /\ AfterSent.rlUntil = run.mem.rlUntil
  BY AfterSentFacts
<1>3. ASSUME NEW pc \in {"loop", "committing"}, NEW mem \in States, NEW rest,
             mem.c401 = Counter, mem.rlUntil = run.mem.rlUntil, IsSeq(rest),
             run' = After(pc, mem, rest)
      PROVE  IInv'
  <2>1. Shape(run') /\ run'.pc = pc /\ run'.mem = mem /\ run'.cur = rest /\ run'.off = 0
    BY <1>3, AfterShape DEF Pc
  <2> QED BY <1>1, <1>3, <2>1, FailedAnswer
<1>4. CASE Answer400
  <2>1. PICK i \in Chunk : run' = After("loop", AfterSent, Rest({i}))
    BY <1>4 DEF Answer400
  <2> QED BY <1>2, <1>3, <2>1, RestIsSeq
<1>5. CASE Answer400Subagent
  <2> DEFINE rest == StripSubagents(Rest({}))
             mem == [AfterSent EXCEPT !.subOff = RFC3339(now + SubagentPeriod)]
  <2>1. run' = After("loop", mem, rest)
    BY <1>5 DEF Answer400Subagent
  <2>2. RFC3339(now + SubagentPeriod) \in Nat
    <3>1. now + SubagentPeriod \in Nat
      BY <1>1, FlushAssumption
    <3> QED BY <3>1, FractionLost
  <2>3. mem \in States /\ mem.c401 = Counter /\ mem.rlUntil = run.mem.rlUntil
    BY <1>2, <2>2 DEF States
  <2>4. IsSeq(rest)
    BY RestIsSeq, StripIsSeq
  <2> HIDE DEF rest, mem
  <2> QED BY <1>3, <2>1, <2>3, <2>4
<1>6. CASE Answer400Unnamed
  BY <1>2, <1>3, <1>6, RestIsSeq DEF Answer400Unnamed
<1>7. CASE Answer401InGrace \/ Answer5xx \/ NoAnswer
  <2> DEFINE r == After("posting", AfterSent, Rest({}))
  <2>1. Shape(r) /\ r.mem = AfterSent /\ r.cur = Rest({}) /\ r.off = 0
    BY <1>2, AfterShape DEF Pc
  <2>2. run' = RetryOrEnd(r)
    BY <1>7 DEF Answer401InGrace, Answer5xx, NoAnswer
  <2> HIDE DEF r
  <2>3. /\ Shape(run') /\ run'.mem = AfterSent /\ run'.cur = Rest({}) /\ run'.off = 0
        /\ run'.pc \in {"committing", "sleeping"}
    BY <1>1, <2>1, <2>2, RetryShape
  <2> QED BY <1>1, <1>2, <2>3, RestIsSeq, FailedAnswer
<1> QED BY <1>4, <1>5, <1>6, <1>7

(* A 401 outside the grace period: the counter and the relay's strikes go  *)
(* up together.                                                            *)
LEMMA Answer401Step == IInv /\ Answer401 => IInv'
<1> SUFFICES ASSUME IInv, Answer401 PROVE IInv'
  OBVIOUS
<1> DEFINE c == Count(AfterSent.c401)
           mem == [AfterSent EXCEPT !.c401 = c, !.reason = @ \/ Struck(c)]
<1>1. /\ run.pc = "posting" /\ strikes' = Count(strikes)
      /\ run' = After("committing", mem, Rest({}))
      /\ cred' = ~Struck(c) \/ cred' = cred
      /\ UNCHANGED <<now, spool, st, quiet, lostReset>>
  BY DEF Answer401, Answerable
<1>2. cred = TRUE
  BY <1>1 DEF IInv, DeletedLast, Typed
<1>3. /\ AfterSent \in States /\ AfterSent.c401 = Counter /\ Counter \in 0..3
      /\ AfterSent.rlUntil = run.mem.rlUntil /\ strikes \in 0..3
  BY AfterSentFacts DEF IInv, Typed
<1>4. c \in 0..3 /\ strikes' \in 0..3
  BY <1>1, <1>3 DEF Count, Least
<1>5. Counter <= strikes => c <= strikes'
  BY <1>1, <1>3 DEF Count, Least
<1>6. AfterSent.reason \in BOOLEAN /\ Struck(c) \in BOOLEAN
  BY <1>3 DEF States, Struck
<1>7. mem \in States /\ mem.c401 = c /\ mem.rlUntil = run.mem.rlUntil
  BY <1>3, <1>4, <1>6 DEF States
<1>8. ~cred' => c = 3
  <2>1. ~cred' => Struck(c)
    BY <1>1, <1>2
  <2>2. Struck(c) => c = 3
    BY <1>4 DEF Struck
  <2> QED BY <2>1, <2>2
<1> HIDE DEF c, mem
<1>9. /\ Shape(run') /\ run'.pc = "committing" /\ run'.mem = mem /\ run'.cur = Rest({})
      /\ run'.off = 0
  BY <1>1, <1>7, AfterShape DEF Pc
<1>10. Typed'
  BY <1>1, <1>2, <1>4, <1>9 DEF IInv, Typed, Shape, Struck
<1>11. WaitsBounded' /\ QuietKnown'
  BY <1>1, <1>7, <1>9 DEF IInv, WaitsBounded, QuietKnown
<1>12. ~lostReset => c <= strikes'
  BY <1>1, <1>5 DEF IInv, CountTrue
<1>13. CountTrue' /\ DeletedLast'
  BY <1>1, <1>7, <1>9, <1>12 DEF CountTrue, Counter, DeletedLast
<1>14. CredentialNeedsThreeStrikes'
  BY <1>1, <1>4, <1>8, <1>12 DEF CredentialNeedsThreeStrikes
<1>15. IsSeq(spool') /\ IsSeq(run'.cur)
  BY <1>1, <1>9, RestIsSeq DEF IInv
<1> QED BY <1>9, <1>10, <1>11, <1>13, <1>14, <1>15 DEF IInv

(* A 429's handling, but for the clock.                                    *)
LEMMA Answer429Shape ==
    ASSUME IInv, Answer429
    PROVE  /\ run'.cur = Rest({}) /\ run'.raw = run.raw /\ run'.off = 0
           /\ answered' = answered /\ paused' = paused
           /\ run'.pc \in {"committing", "sleeping"}
           /\ run'.mem.subOff = run.mem.subOff
<1>1. PICK ra \in RetryAfters \cup {NoRetryAfter} :
        LET wait == RateLimitWait(ra)
            r == [After("posting", [AfterSent EXCEPT !.rlUntil = RFC3339(now + wait)],
                        Rest({})) EXCEPT !.rl = @ + 1]
        IN  run' = IF r.rl > MaxRateLimitRetries \/ ra = NoRetryAfter
                   THEN [r EXCEPT !.pc = "committing"]
                   ELSE SleepOrEnd(r, wait, "rate")
  BY Zenon DEF Answer429
<1> DEFINE mem == [AfterSent EXCEPT !.rlUntil = RFC3339(now + RateLimitWait(ra))]
           r == [After("posting", mem, Rest({})) EXCEPT !.rl = @ + 1]
<1>2. /\ r.cur = Rest({}) /\ r.raw = run.raw /\ r.mem = mem /\ r.off = 0
      /\ Shape(run) => DOMAIN r = DOMAIN run
  BY DEF After, IInv, Typed, Shape
<1>6. mem.subOff = run.mem.subOff
  BY AfterSentFacts DEF AfterSent, IInv, Typed, Shape, States
<1>3. \/ run' = [r EXCEPT !.pc = "committing"]
      \/ run' = SleepOrEnd(r, RateLimitWait(ra), "rate")
  BY <1>1 DEF mem
<1>4. answered' = answered /\ paused' = paused
  BY DEF Answer429
<1>5. {"pc", "cur", "raw", "mem", "off"} \subseteq DOMAIN r
  BY <1>2 DEF IInv, Typed, Shape
<1> HIDE DEF r, mem
<1> QED BY <1>2, <1>3, <1>4, <1>5, <1>6 DEF SleepOrEnd

(* A 429: nobody asks again before the wait that is recorded, but for the  *)
(* fraction of a second.                                                   *)
LEMMA Answer429Step == IInv /\ Answer429 => IInv'
<1> SUFFICES ASSUME IInv, Answer429 PROVE IInv'
  OBVIOUS
<1>1. PICK ra \in RetryAfters \cup {NoRetryAfter} :
        LET wait == RateLimitWait(ra)
            r == [After("posting", [AfterSent EXCEPT !.rlUntil = RFC3339(now + wait)],
                        Rest({})) EXCEPT !.rl = @ + 1]
        IN  /\ run' = IF r.rl > MaxRateLimitRetries \/ ra = NoRetryAfter
                      THEN [r EXCEPT !.pc = "committing"]
                      ELSE SleepOrEnd(r, wait, "rate")
            /\ quiet' = now + (IF ra = NoRetryAfter THEN 0 ELSE Least(ra, MaxWait))
  BY DEF Answer429
<1> DEFINE wait == RateLimitWait(ra)
           asked == IF ra = NoRetryAfter THEN 0 ELSE Least(ra, MaxWait)
           mem == [AfterSent EXCEPT !.rlUntil = RFC3339(now + wait)]
           a == After("posting", mem, Rest({}))
           r == [a EXCEPT !.rl = @ + 1]
<1>2. /\ run.pc = "posting" /\ now \in Nat
      /\ UNCHANGED <<now, spool, st, cred, strikes, lostReset>>
  BY DEF Answer429, Answerable, IInv, Typed
<1>3. wait \in Nat /\ asked \in Nat /\ asked <= wait /\ wait <= MaxWait /\ MaxWait \in Nat
  <2>1. MinWait \in Nat /\ FallbackWait \in Nat /\ MaxWait \in Nat /\ FallbackWait <= MaxWait
    BY FlushAssumption
  <2>2. CASE ra = NoRetryAfter
    BY <2>1, <2>2 DEF RateLimitWait
  <2>3. CASE ra # NoRetryAfter
    <3>1. ra \in Nat
      BY <2>3, FlushAssumption
    <3> QED BY <2>1, <2>3, <3>1 DEF RateLimitWait, Least, Greatest
  <2> QED BY <2>2, <2>3
<1>4. /\ RFC3339(now + wait) \in Nat /\ RFC3339(now + wait) <= now + wait
      /\ now + wait < RFC3339(now + wait) + Second
  <2>1. now + wait \in Nat
    BY <1>2, <1>3
  <2> QED BY <2>1, FractionLost
<1>5. mem \in States /\ mem.c401 = Counter /\ mem.rlUntil = RFC3339(now + wait)
  BY <1>4, AfterSentFacts DEF States
<1> HIDE DEF mem
<1>6. Shape(a) /\ a.mem = mem /\ a.cur = Rest({}) /\ a.off = 0
  BY <1>5, AfterShape DEF Pc
<1> HIDE DEF a
<1>7. Shape(r) /\ r.mem = mem /\ r.cur = Rest({}) /\ r.off = 0
  BY <1>6 DEF Shape
<1>8. /\ quiet' = now + asked
      /\ \/ run' = [r EXCEPT !.pc = "committing"]
         \/ run' = SleepOrEnd(r, wait, "rate")
  BY <1>1 DEF mem, a
<1> HIDE DEF r, wait, asked
<1>9. /\ Shape(run') /\ run'.mem = mem /\ run'.cur = Rest({}) /\ run'.off = 0
      /\ \/ run'.pc = "committing"
         \/ run'.pc = "sleeping" /\ run'.why = "rate" /\ run'.wake = now + wait
  <2>1. CASE run' = [r EXCEPT !.pc = "committing"]
    BY <1>7, <2>1 DEF Shape, Pc
  <2>2. CASE run' = SleepOrEnd(r, wait, "rate")
    BY <1>2, <1>3, <1>7, <2>2, SleepShape
  <2> QED BY <1>8, <2>1, <2>2
<1>10. quiet' \in Nat
  BY <1>2, <1>3, <1>8
<1>11. Typed'
  BY <1>2, <1>9, <1>10 DEF IInv, Typed, Shape
<1>12. WaitsBounded'
  BY <1>2, <1>3, <1>4, <1>5, <1>9 DEF IInv, WaitsBounded
<1>13. QuietKnown'
  BY <1>2, <1>3, <1>4, <1>5, <1>8, <1>9, FlushAssumption DEF QuietKnown
<1>14. CountTrue' /\ DeletedLast' /\ CredentialNeedsThreeStrikes'
  BY <1>2, <1>5, <1>9
     DEF IInv, CountTrue, Counter, DeletedLast, CredentialNeedsThreeStrikes
<1>15. IsSeq(spool') /\ IsSeq(run'.cur) /\ run'.pc # "posting"
  BY <1>2, <1>9, RestIsSeq DEF IInv
<1> QED BY <1>9, <1>11, <1>12, <1>13, <1>14, <1>15 DEF IInv

(* A 2xx.  The chunk is not empty, so that a later failure finds that this *)
(* run has reset the counter.                                              *)
LEMMA AnswerOKStep == IInv /\ AnswerOK => IInv'
<1> SUFFICES ASSUME IInv, AnswerOK PROVE IInv'
  OBVIOUS
<1>1. /\ run.pc = "posting" /\ strikes' = 0 /\ Shape(run) /\ run.off < Len(run.cur)
      /\ UNCHANGED <<now, spool, st, cred, quiet, lostReset>>
  BY DEF AnswerOK, Answerable, IInv, Typed
<1>2. run.off \in Nat /\ Len(run.cur) \in Nat /\ ChunkMax \in Nat \ {0}
  BY <1>1, FlushAssumption DEF Shape, IInv, IsSeq
<1>3. Delivered \in Nat /\ Delivered > 0
  <2> DEFINE last == Least(run.off + ChunkMax, Len(run.cur))
  <2>1. last \in Nat /\ run.off + 1 <= last
    BY <1>1, <1>2 DEF Least
  <2> HIDE DEF last
  <2>2. Cardinality((run.off + 1)..last) = last - (run.off + 1) + 1
    BY <1>2, <2>1, FS_Interval
  <2> QED BY <1>2, <2>1, <2>2 DEF Delivered, Chunk, last
<1>4. /\ Shape(run') /\ IsSeq(run'.cur) /\ run'.mem.rlUntil = run.mem.rlUntil
      /\ run'.pc \in {"posting", "committing"}
      /\ run'.off = Delivered /\ run'.off > 0
      /\ run'.pc = "posting" => run'.off < Len(run'.cur)
      /\ run'.pc = "committing" => run'.mem.c401 = 0
  <2>1. CASE Delivered < Len(run.cur)
    <3>1. run' = [run EXCEPT !.off = Delivered]
      BY <2>1 DEF AnswerOK
    <3> QED BY <1>1, <1>3, <2>1, <3>1 DEF Shape, IInv
  <2>2. CASE ~(Delivered < Len(run.cur))
    <3>1. run' = [run EXCEPT !.pc = "committing", !.off = Delivered, !.cur = <<>>,
                             !.mem.c401 = 0, !.outcome = "ok"]
      BY <2>2 DEF AnswerOK
    <3>2. IsSeq(<<>>)
      <4>1. <<>> \in Seq({})
        OBVIOUS
      <4> QED BY <4>1 DEF IsSeq
    <3>3. /\ run'.cur = <<>> /\ run'.pc = "committing" /\ run'.off = Delivered
          /\ run'.mem.rlUntil = run.mem.rlUntil /\ run'.mem.c401 = 0
      BY <1>1, <3>1 DEF Shape, States
    <3>4. Shape(run')
      <4>1. [run.mem EXCEPT !.c401 = 0] \in States
        BY <1>1 DEF Shape, States
      <4> QED BY <1>1, <1>3, <3>1, <4>1 DEF Shape, Pc, Outcome
    <3> QED BY <1>3, <3>2, <3>3, <3>4
  <2> QED BY <2>1, <2>2
<1>5. Typed'
  BY <1>1, <1>4 DEF IInv, Typed, Shape
<1>6. WaitsBounded' /\ QuietKnown'
  BY <1>1, <1>4 DEF IInv, WaitsBounded, QuietKnown
<1>7. CountTrue' /\ DeletedLast'
  BY <1>1, <1>4 DEF IInv, CountTrue, Counter, DeletedLast
<1>8. CredentialNeedsThreeStrikes'
  BY <1>1 DEF IInv, DeletedLast, CredentialNeedsThreeStrikes
<1> QED BY <1>1, <1>4, <1>5, <1>6, <1>7, <1>8 DEF IInv

-----------------------------------------------------------------------------
(* The rest of a run.                                                      *)

LEMMA IdleShape ==
    ASSUME IInv
    PROVE  /\ Shape(Idle) /\ Idle.pc = "idle" /\ Idle.off = 0 /\ Idle.cur = <<>>
           /\ IsSeq(Idle.cur) /\ Idle.mem = st
<1>1. <<>> \in Seq({})
  OBVIOUS
<1> QED BY <1>1 DEF IInv, Typed, Shape, Idle, Pc, Outcome, IsSeq

(* A run starts with the counter of the last one, and asks for nothing     *)
(* while a recorded wait runs.                                             *)
LEMMA RunStartsStep == IInv /\ RunStarts => IInv'
<1> SUFFICES ASSUME IInv, RunStarts PROVE IInv'
  OBVIOUS
<1> DEFINE r == [Idle EXCEPT !.cur = ToSend(spool), !.raw = Len(spool),
                             !.deadline = now + Budget]
<1>1. /\ run.pc = "idle" /\ cred = TRUE /\ now \in Nat /\ st \in States
      /\ UNCHANGED <<now, spool, st, cred, strikes, quiet, lostReset>>
      /\ run' = IF RateLimited(st, now)
                THEN [r EXCEPT !.pc = "committing", !.outcome = "failed"]
                ELSE [r EXCEPT !.pc = "loop", !.mem.rlUntil = 0]
  BY DEF RunStarts, IInv, Typed
<1>2. IsSeq(ToSend(spool)) /\ Len(spool) \in Nat
  <2>1. IsSeq(spool)
    BY DEF IInv
  <2> QED BY <2>1, StripIsSeq, DropIsSeq DEF ToSend, IsSeq
<1>3. now + Budget \in Nat
  BY <1>1, FlushAssumption
<1>4. Shape(r) /\ r.off = 0 /\ r.cur = ToSend(spool) /\ r.mem = st
  BY <1>2, <1>3, IdleShape DEF Shape
<1> HIDE DEF r
<1>5. CASE RateLimited(st, now)
  <2>1. run' = [r EXCEPT !.pc = "committing", !.outcome = "failed"]
    BY <1>1, <1>5
  <2>2. /\ Shape(run') /\ run'.pc = "committing" /\ run'.off = 0 /\ run'.mem = st
        /\ run'.cur = ToSend(spool)
    BY <1>4, <2>1 DEF Shape, Pc, Outcome
  <2>3. Typed'
    BY <1>1, <2>2 DEF IInv, Typed, Shape
  <2>4. WaitsBounded' /\ QuietKnown'
    BY <1>1, <2>2 DEF IInv, WaitsBounded, QuietKnown
  <2>5. CountTrue' /\ DeletedLast' /\ CredentialNeedsThreeStrikes'
    BY <1>1, <2>2 DEF IInv, CountTrue, Counter, DeletedLast, CredentialNeedsThreeStrikes
  <2> QED BY <1>1, <1>2, <2>2, <2>3, <2>4, <2>5 DEF IInv
<1>6. CASE ~RateLimited(st, now)
  <2>1. run' = [r EXCEPT !.pc = "loop", !.mem.rlUntil = 0]
    BY <1>1, <1>6
  <2>2. [st EXCEPT !.rlUntil = 0] \in States
    BY <1>1 DEF States
  <2>3. /\ Shape(run') /\ run'.pc = "loop" /\ run'.off = 0 /\ run'.cur = ToSend(spool)
        /\ run'.mem = [st EXCEPT !.rlUntil = 0]
    BY <1>4, <2>1, <2>2 DEF Shape, Pc
  <2>4. run'.mem.c401 = st.c401 /\ run'.mem.rlUntil = 0 /\ st.rlUntil \in Nat
    BY <1>1, <2>3 DEF States
  <2>5. quiet < now + Second
    BY <1>1, <1>6, <2>4, FlushAssumption
       DEF RateLimited, IInv, Typed, WaitsBounded, QuietKnown
  <2>6. Typed'
    BY <1>1, <2>3 DEF IInv, Typed, Shape
  <2>7. WaitsBounded' /\ QuietKnown'
    BY <1>1, <2>4, <2>5, FlushAssumption DEF IInv, WaitsBounded, QuietKnown
  <2>8. CountTrue' /\ DeletedLast' /\ CredentialNeedsThreeStrikes'
    BY <1>1, <2>3, <2>4
       DEF IInv, CountTrue, Counter, DeletedLast, CredentialNeedsThreeStrikes
  <2> QED BY <1>1, <1>2, <2>3, <2>6, <2>7, <2>8 DEF IInv
<1> QED BY <1>5, <1>6

(* Steps of the loop between two requests.                                 *)
LEMMA LoopStep ==
    ASSUME IInv, LoopEnds \/ PostEvents \/ Wakes \/ SleepCut
    PROVE  IInv'
<1>1. /\ UNCHANGED <<now, spool, st, cred, strikes, quiet, lostReset>> /\ Shape(run)
      /\ run.pc \in {"loop", "sleeping"} /\ run.off = 0
  BY DEF LoopEnds, PostEvents, Wakes, SleepCut, flushHist, IInv, Typed
<1>2. /\ Shape(run') /\ run'.cur = run.cur /\ run'.off = 0
      /\ run'.mem.c401 = run.mem.c401 /\ run'.mem.rlUntil \in {0, run.mem.rlUntil}
      /\ run'.pc \in {"loop", "posting", "committing"}
  <2>1. CASE LoopEnds
    BY <1>1, <2>1 DEF LoopEnds, Shape, Pc, Outcome
  <2>2. CASE PostEvents
    BY <1>1, <2>2 DEF PostEvents, Shape, Pc
  <2>3. CASE SleepCut
    BY <1>1, <2>3 DEF SleepCut, Shape, Pc
  <2>4. CASE Wakes
    <3> DEFINE u == IF run.why = "rate" THEN 0 ELSE run.mem.rlUntil
    <3>1. run' = [run EXCEPT !.pc = "loop", !.mem.rlUntil = u]
      BY <2>4 DEF Wakes
    <3>2. u \in Nat /\ u \in {0, run.mem.rlUntil}
      BY <1>1 DEF Shape, States
    <3> HIDE DEF u
    <3>3. [run.mem EXCEPT !.rlUntil = u] \in States
      BY <1>1, <3>2 DEF Shape, States
    <3>4. run' = [run EXCEPT !.pc = "loop", !.mem = [run.mem EXCEPT !.rlUntil = u]]
      BY <1>1, <3>1 DEF Shape
    <3>5. Shape(run') /\ run'.mem = [run.mem EXCEPT !.rlUntil = u]
      BY <1>1, <3>3, <3>4 DEF Shape, Pc
    <3> QED BY <1>1, <3>2, <3>4, <3>5 DEF Shape, States
  <2> QED BY <2>1, <2>2, <2>3, <2>4
<1>3. Typed'
  BY <1>1, <1>2 DEF IInv, Typed, Shape
<1>4. WaitsBounded'
  BY <1>1, <1>2, FlushAssumption DEF IInv, Typed, WaitsBounded
<1>5. QuietKnown'
  <2>1. CASE quiet < now + Second
    BY <1>1, <2>1 DEF QuietKnown
  <2>2. CASE Wakes /\ ~(quiet < now + Second)
    BY <1>1, <2>2, FlushAssumption DEF IInv, Typed, QuietKnown, Wakes
  <2>3. CASE SleepCut
    <3>1. run'.pc = "committing" /\ run'.mem = run.mem
      BY <1>1, <2>3 DEF SleepCut, Shape
    <3> QED BY <1>1, <2>3, <3>1 DEF IInv, QuietKnown, SleepCut
  <2>4. CASE LoopEnds \/ PostEvents
    BY <1>1, <2>4 DEF IInv, QuietKnown, LoopEnds, PostEvents
  <2> QED BY <2>1, <2>2, <2>3, <2>4
<1>6. CountTrue' /\ DeletedLast' /\ CredentialNeedsThreeStrikes'
  BY <1>1, <1>2 DEF IInv, CountTrue, Counter, DeletedLast, CredentialNeedsThreeStrikes
<1>7. run'.pc = "posting" => run'.off < Len(run'.cur)
  <2> SUFFICES ASSUME run'.pc = "posting" PROVE 0 < Len(run.cur)
    BY <1>2
  <2>1. run.cur # <<>>
    BY <1>1 DEF LoopEnds, PostEvents, Wakes, SleepCut, Shape
  <2>2. PICK S : run.cur \in Seq(S)
    BY DEF IInv, IsSeq
  <2> QED BY <2>1, <2>2
<1> QED BY <1>1, <1>2, <1>3, <1>4, <1>5, <1>6, <1>7 DEF IInv

(* commit and state.Save: the counter and the wait survive the run.        *)
LEMMA CommitStep == IInv /\ Commit => IInv'
<1> SUFFICES ASSUME IInv, Commit PROVE IInv'
  OBVIOUS
<1>1. /\ run.pc = "committing" /\ spool' = Recommitted(run.cur)
      /\ run' = [Idle EXCEPT !.pc = "saving", !.mem = run.mem, !.outcome = run.outcome]
      /\ UNCHANGED <<now, st, cred, strikes, quiet, lostReset>> /\ Shape(run)
  <2>1. now' = now /\ st' = st /\ cred' = cred
    BY DEF Commit
  <2> QED BY <2>1 DEF Commit, IInv, Typed
<1>2. /\ Shape(run') /\ run'.pc = "saving" /\ run'.off = 0 /\ run'.cur = <<>>
      /\ run'.mem = run.mem /\ IsSeq(run'.cur)
  BY <1>1, IdleShape DEF Shape, Pc
<1>3. IsSeq(spool')
  <2>1. run.raw \in Nat /\ IsSeq(spool) /\ IsSeq(run.cur)
    BY <1>1 DEF IInv, Shape
  <2> QED BY <1>1, <2>1, ConcatIsSeq, TailIsSeq DEF Recommitted, Added
<1>4. Typed'
  BY <1>1, <1>2 DEF IInv, Typed, Shape
<1>5. WaitsBounded' /\ QuietKnown'
  BY <1>1, <1>2 DEF IInv, WaitsBounded, QuietKnown
<1>6. run.mem.c401 \in Nat /\ (run.mem.c401 = 0 \/ Counter = run.mem.c401)
  BY <1>1 DEF IInv, Shape, States, Counter
<1>7. CountTrue' /\ DeletedLast' /\ CredentialNeedsThreeStrikes'
  BY <1>1, <1>2, <1>6
     DEF IInv, Typed, CountTrue, Counter, DeletedLast, CredentialNeedsThreeStrikes
<1> QED BY <1>2, <1>3, <1>4, <1>5, <1>7 DEF IInv

LEMMA SaveStateStep == IInv /\ SaveState => IInv'
<1> SUFFICES ASSUME IInv, SaveState PROVE IInv'
  OBVIOUS
<1>1. /\ run.pc = "saving" /\ st' = [run.mem EXCEPT !.last = run.outcome] /\ Shape(run)
      /\ run.off = 0 /\ run' = [Idle EXCEPT !.mem = st'] /\ cred \in BOOLEAN
      /\ UNCHANGED <<now, spool, cred, strikes, quiet, lostReset>>
  BY DEF SaveState, flushHist, IInv, Typed
<1>2. st' \in States /\ st'.c401 = run.mem.c401 /\ st'.rlUntil = run.mem.rlUntil
  BY <1>1 DEF Shape, States
<1>3. /\ Shape(run') /\ run'.pc = "idle" /\ run'.off = 0 /\ run'.cur = <<>>
      /\ run'.mem = st' /\ IsSeq(run'.cur)
  BY <1>1, <1>2, IdleShape DEF Shape
<1>4. Typed'
  BY <1>1, <1>2, <1>3 DEF IInv, Typed, Shape
<1>5. WaitsBounded' /\ QuietKnown'
  BY <1>1, <1>2, <1>3 DEF IInv, WaitsBounded, QuietKnown
<1>6. CountTrue' /\ DeletedLast' /\ CredentialNeedsThreeStrikes'
  BY <1>1, <1>2, <1>3
     DEF IInv, CountTrue, Counter, DeletedLast, CredentialNeedsThreeStrikes
<1> QED BY <1>1, <1>3, <1>4, <1>5, <1>6 DEF IInv

(* A run that dies loses what it has not saved.                            *)
LEMMA CrashStep == IInv /\ Crash => IInv'
<1> SUFFICES ASSUME IInv, Crash PROVE IInv'
  OBVIOUS
<1>1. /\ run.pc # "idle" /\ run' = Idle /\ Shape(run) /\ st \in States
      /\ UNCHANGED <<now, spool, st, cred, strikes>>
      /\ quiet' = (IF run.mem.rlUntil = st.rlUntil THEN quiet ELSE 0)
  BY DEF Crash, IInv, Typed
<1>2. /\ Shape(run') /\ run'.pc = "idle" /\ run'.off = 0 /\ run'.mem = st /\ IsSeq(run'.cur)
  BY <1>1, IdleShape
<1>3. /\ lostReset' \in BOOLEAN
      /\ ~lostReset' => ~lostReset /\ ~(run.off > 0) /\ ~(run.mem.c401 < st.c401)
  BY DEF Crash, IInv, Typed
<1>4. Typed'
  BY <1>1, <1>2, <1>3 DEF IInv, Typed
<1>5. WaitsBounded'
  BY <1>1, <1>2 DEF IInv, WaitsBounded
<1>6. QuietKnown'
  BY <1>1, <1>2, FlushAssumption DEF IInv, Typed, QuietKnown
<1>7. ~lostReset' => st.c401 <= strikes
  <2> SUFFICES ASSUME ~lostReset' PROVE st.c401 <= strikes
    OBVIOUS
  <2>1. Counter = run.mem.c401 /\ Counter <= strikes
    BY <1>1, <1>3 DEF IInv, CountTrue, Counter
  <2> QED BY <1>1, <1>3, <2>1 DEF IInv, Typed, Shape, States
<1>8. CountTrue' /\ DeletedLast' /\ CredentialNeedsThreeStrikes'
  BY <1>1, <1>2, <1>3, <1>7 DEF IInv, CountTrue, DeletedLast, CredentialNeedsThreeStrikes
<1> QED BY <1>1, <1>2, <1>4, <1>5, <1>6, <1>8 DEF IInv

-----------------------------------------------------------------------------
(* Every line, accounted for.                                              *)

Working == run.pc \in {"loop", "posting", "sleeping", "committing"}

(* Of the lines drained each is answered for or is still in hand, and of   *)
(* those in hand the delivered prefix is answered for.                     *)
Drained ==
    /\ spooled \in Nat
    /\ Working => /\ run.raw \in 0..Len(spool)
                  /\ \A i \in 1..run.raw : spool[i].id \in answered \cup Ids(run.cur)
    /\ run.pc = "posting" => \A i \in 1..run.off : run.cur[i].id \in answered

AInv == IInv /\ Drained /\ Accounted

(* What removeResolved removes is answered for.                            *)
LEMMA RestKeeps ==
    ASSUME AInv, run.pc = "posting", NEW d
    PROVE  \A i \in 1..Len(run.cur) :
              run.cur[i].id \in answered \cup Ids(Rest(d)) \/ i \in d
<1> SUFFICES ASSUME NEW i \in 1..Len(run.cur), i \notin d, i > run.off
             PROVE  run.cur[i].id \in Ids(Rest(d))
  <2>1. \A i \in 1..Len(run.cur) : i \in 1..run.off \/ i > run.off
    BY DEF AInv, IInv, Typed, Shape, IsSeq
  <2> QED BY <2>1 DEF AInv, Drained
<1> DEFINE I == {k \in 1..Len(run.cur) : k > run.off /\ k \notin d}
<1>1. IsSeq(run.cur) /\ i \in I \cap 1..Len(run.cur)
  BY DEF AInv, IInv
<1>2. Rest(d) = At(run.cur, I)
  BY DEF Rest
<1> HIDE DEF I
<1>3. PICK j \in 1..Len(Rest(d)) : Rest(d)[j] = run.cur[i]
  BY <1>1, <1>2, AtLines DEF Picks
<1> QED BY <1>3 DEF Ids

(* A failed request: what it leaves in hand covers what it took out.       *)
LEMMA FailedAccounts ==
    ASSUME AInv, run.pc = "posting", UNCHANGED <<spool, spooled>>, IInv',
           run'.raw = run.raw, run'.pc # "posting", answered \subseteq answered',
           \A i \in 1..Len(run.cur) : run.cur[i].id \in answered' \cup Ids(run'.cur)
    PROVE  AInv'
<1>1. run.raw \in 0..Len(spool)
      /\ \A i \in 1..run.raw : spool[i].id \in answered \cup Ids(run.cur)
  BY DEF AInv, Drained, Working
<1>2. Ids(run.cur) \subseteq answered' \cup Ids(run'.cur)
  BY DEF Ids
<1>3. Ids(spool') = Ids(spool)
  OBVIOUS
<1>4. Drained'
  BY <1>1, <1>2 DEF AInv, Drained, Working
<1>5. Accounted'
  BY <1>3 DEF AInv, Accounted
<1> QED BY <1>4, <1>5 DEF AInv

LEMMA FailedKeeps ==
    ASSUME AInv, IInv',
           \/ Answer400 \/ Answer400Subagent \/ Answer400Unnamed
           \/ Answer401InGrace \/ Answer401 \/ Answer429 \/ Answer5xx \/ NoAnswer
    PROVE  AInv'
<1>1. run.pc = "posting" /\ now \in Nat /\ UNCHANGED <<spool, spooled>> /\ IInv
  BY DEF Answer400, Answer400Subagent, Answer400Unnamed, Answer401InGrace, Answer401,
         Answer429, Answer5xx, NoAnswer, Answerable, flushHist, AInv, IInv, Typed
<1>2. AfterSent \in States /\ AfterSent.c401 \in 0..3
  BY <1>1, AfterSentFacts
<1>3. ASSUME NEW rest, run'.cur = rest, run'.raw = run.raw, run'.pc # "posting",
             answered \subseteq answered',
             \A i \in 1..Len(run.cur) : run.cur[i].id \in answered' \cup Ids(rest)
      PROVE  AInv'
  BY <1>1, <1>3, FailedAccounts
<1>4. CASE Answer400
  <2>1. PICK i \in Chunk : /\ run' = After("loop", AfterSent, Rest({i}))
                           /\ answered' = answered \cup {run.cur[i].id}
    BY <1>4 DEF Answer400
  <2>2. run'.cur = Rest({i}) /\ run'.raw = run.raw /\ run'.pc = "loop"
    BY <1>1, <1>2, <2>1, AfterShape DEF Pc
  <2>3. \A k \in 1..Len(run.cur) : run.cur[k].id \in answered' \cup Ids(Rest({i}))
    BY <1>1, <2>1, RestKeeps
  <2> QED BY <1>3, <2>1, <2>2, <2>3
<1>5. CASE Answer400Subagent
  <2> DEFINE rest == StripSubagents(Rest({}))
             mem == [AfterSent EXCEPT !.subOff = RFC3339(now + SubagentPeriod)]
  <2>1. /\ run' = After("loop", mem, rest)
        /\ answered' = answered \cup (Ids(Rest({})) \ Ids(rest))
    BY <1>5 DEF Answer400Subagent
  <2>2. RFC3339(now + SubagentPeriod) \in Nat
    <3>1. now + SubagentPeriod \in Nat
      BY <1>1, FlushAssumption
    <3> QED BY <3>1, FractionLost
  <2>3. mem \in States
    BY <1>2, <2>2 DEF States
  <2> HIDE DEF rest, mem
  <2>4. run'.cur = rest /\ run'.raw = run.raw /\ run'.pc = "loop"
    BY <1>1, <2>1, <2>3, AfterShape DEF Pc
  <2>5. \A k \in 1..Len(run.cur) : run.cur[k].id \in answered' \cup Ids(rest)
    BY <1>1, <2>1, RestKeeps
  <2> QED BY <1>3, <2>1, <2>4, <2>5
<1>6. \A k \in 1..Len(run.cur) : run.cur[k].id \in answered \cup Ids(Rest({}))
  BY <1>1, RestKeeps
<1>7. CASE Answer400Unnamed \/ Answer401
  <2>1. PICK mem \in States : run' = After("committing", mem, Rest({}))
    <3>1. CASE Answer400Unnamed
      BY <1>2, <3>1 DEF Answer400Unnamed
    <3>2. CASE Answer401
      <4> DEFINE c == Count(AfterSent.c401)
                 mem == [AfterSent EXCEPT !.c401 = c, !.reason = @ \/ Struck(c)]
      <4>1. run' = After("committing", mem, Rest({}))
        BY <3>2 DEF Answer401
      <4>2. c \in 0..3
        BY <1>2 DEF Count, Least
      <4>3. AfterSent.reason \in BOOLEAN /\ Struck(c) \in BOOLEAN
        BY <1>2 DEF States, Struck
      <4>4. mem \in States
        BY <1>2, <4>2, <4>3 DEF States
      <4> QED BY <4>1, <4>4
    <3> QED BY <1>7, <3>1, <3>2
  <2>2. run'.cur = Rest({}) /\ run'.raw = run.raw /\ run'.pc = "committing"
    BY <1>1, <2>1, AfterShape DEF Pc
  <2>3. answered' = answered
    BY <1>7 DEF Answer400Unnamed, Answer401, flushHist
  <2> QED BY <1>3, <1>6, <2>2, <2>3
<1>8. CASE Answer401InGrace \/ Answer5xx \/ NoAnswer
  <2> DEFINE r == After("posting", AfterSent, Rest({}))
  <2>1. Shape(r) /\ r.cur = Rest({}) /\ r.raw = run.raw
    BY <1>1, <1>2, AfterShape DEF Pc
  <2>2. run' = RetryOrEnd(r) /\ answered' = answered
    BY <1>8 DEF Answer401InGrace, Answer5xx, NoAnswer, flushHist
  <2> HIDE DEF r
  <2>3. run'.cur = Rest({}) /\ run'.raw = run.raw /\ run'.pc \in {"committing", "sleeping"}
    BY <1>1, <2>1, <2>2, RetryShape
  <2> QED BY <1>3, <1>6, <2>2, <2>3
<1>9. CASE Answer429
  <2>1. /\ run'.cur = Rest({}) /\ run'.raw = run.raw /\ answered' = answered
        /\ run'.pc \in {"committing", "sleeping"}
    BY <1>1, <1>9, Answer429Shape
  <2> QED BY <1>3, <1>6, <2>1
<1> QED BY <1>4, <1>5, <1>7, <1>8, <1>9

(* A 2xx answers for the chunk.                                            *)
LEMMA AnswerOKKeeps == AInv /\ IInv' /\ AnswerOK => AInv'
<1> SUFFICES ASSUME AInv, IInv', AnswerOK PROVE AInv'
  OBVIOUS
<1>1. /\ run.pc = "posting" /\ UNCHANGED <<spool, spooled>> /\ Shape(run)
      /\ answered' = answered \cup ChunkIds
  BY DEF AnswerOK, Answerable, AInv, IInv, Typed
<1>2. run.off \in Nat /\ Len(run.cur) \in Nat /\ run.off < Len(run.cur)
      /\ ChunkMax \in Nat \ {0}
  BY <1>1, FlushAssumption DEF Shape, AInv, IInv, IsSeq
<1> DEFINE last == Least(run.off + ChunkMax, Len(run.cur))
<1>3. last \in Nat /\ run.off + 1 <= last /\ last <= Len(run.cur)
  BY <1>2 DEF Least
<1>4. Chunk = (run.off + 1)..last
  BY DEF Chunk
<1> HIDE DEF last
<1>5. Delivered = last
  <2> DEFINE first == run.off + 1
  <2>1. first \in Int /\ last \in Int /\ ~(first > last)
    BY <1>2, <1>3
  <2>2. Chunk = first..last
    BY <1>4
  <2> HIDE DEF first
  <2>3. Cardinality(Chunk) = last - first + 1
    BY <2>1, <2>2, FS_Interval
  <2> QED BY <1>2, <1>3, <2>3 DEF Delivered, first
<1>6. \A i \in 1..last : run.cur[i].id \in answered'
  <2>1. \A i \in 1..last : i \in 1..run.off \/ i \in Chunk
    BY <1>2, <1>3, <1>4
  <2> QED BY <1>1, <2>1 DEF ChunkIds, AInv, Drained
<1>7. CASE last < Len(run.cur)
  <2>1. run' = [run EXCEPT !.off = last]
    BY <1>5, <1>7 DEF AnswerOK
  <2>2. run'.cur = run.cur /\ run'.raw = run.raw /\ run'.off = last /\ run'.pc = "posting"
    BY <1>1, <2>1 DEF Shape
  <2> QED BY <1>1, <1>6, <2>2 DEF AInv, Drained, Working, Accounted, Ids
<1>8. CASE ~(last < Len(run.cur))
  <2>1. run' = [run EXCEPT !.pc = "committing", !.off = last, !.cur = <<>>,
                           !.mem.c401 = 0, !.outcome = "ok"]
    BY <1>5, <1>8 DEF AnswerOK
  <2>2. run'.raw = run.raw /\ run'.pc = "committing"
    BY <1>1, <2>1 DEF Shape
  <2>3. last = Len(run.cur)
    BY <1>2, <1>3, <1>8
  <2> QED BY <1>1, <1>6, <2>2, <2>3, FailedAccounts
<1> QED BY <1>7, <1>8

(* The run's other steps.                                                  *)
LEMMA RunStartsKeeps == AInv /\ IInv' /\ RunStarts => AInv'
<1> SUFFICES ASSUME AInv, IInv', RunStarts PROVE AInv'
  OBVIOUS
<1> DEFINE batch == ToSend(spool)
           r == [Idle EXCEPT !.cur = batch, !.raw = Len(spool), !.deadline = now + Budget]
<1>1. /\ run' = IF RateLimited(st, now)
                THEN [r EXCEPT !.pc = "committing", !.outcome = "failed"]
                ELSE [r EXCEPT !.pc = "loop", !.mem.rlUntil = 0]
      /\ answered' = answered \cup (Ids(spool) \ Ids(batch))
      /\ UNCHANGED <<spool, spooled>>
  BY DEF RunStarts
<1> HIDE DEF batch
<1>2. Len(spool) \in Nat /\ now + Budget \in Nat
  BY FlushAssumption DEF AInv, IInv, Typed, IsSeq
<1>3. Shape(r) /\ r.cur = batch /\ r.raw = Len(spool)
  BY <1>2, IdleShape DEF AInv, Shape
<1> HIDE DEF r
<1>4. run'.cur = batch /\ run'.raw = Len(spool) /\ run'.pc \in {"loop", "committing"}
  BY <1>1, <1>3 DEF Shape
<1>5. \A i \in 1..Len(spool) : spool[i].id \in answered' \cup Ids(batch)
  BY <1>1 DEF Ids
<1>6. Drained'
  BY <1>1, <1>2, <1>4, <1>5 DEF AInv, Drained, Working
<1>7. Accounted'
  BY <1>1 DEF AInv, Accounted, Ids
<1> QED BY <1>6, <1>7 DEF AInv

LEMMA LoopKeeps ==
    ASSUME AInv, IInv', Tick \/ RunUnpaired \/ LoopEnds \/ PostEvents \/ Wakes \/ SleepCut
    PROVE  AInv'
<1>1. Shape(run) /\ (run.pc \in {"loop", "sleeping"} => run.off = 0)
  BY DEF AInv, IInv, Typed
<1>2. UNCHANGED <<spool, spooled, answered>>
  BY DEF Tick, RunUnpaired, LoopEnds, PostEvents, Wakes, SleepCut, flushHist
<1>3. /\ run'.cur = run.cur /\ run'.raw = run.raw
      /\ \/ run' = run
         \/ Working /\ run'.pc # "posting"
         \/ Working /\ run'.pc = "posting" /\ run'.off = 0
  BY <1>1 DEF Tick, RunUnpaired, LoopEnds, PostEvents, Wakes, SleepCut, Shape, Working
<1>4. Drained'
  BY <1>2, <1>3 DEF AInv, Drained, Working, Ids
<1> QED BY <1>2, <1>4 DEF AInv, Accounted, Ids

(* A hook's line is behind all that was drained.                           *)
LEMMA HookKeeps == AInv /\ IInv' /\ HookAppends => AInv'
<1> SUFFICES ASSUME AInv, IInv', HookAppends PROVE AInv'
  OBVIOUS
<1>1. PICK l : spool' = Append(spool, l) /\ l.id = spooled + 1
  <2>1. PICK k \in Kinds : spool' = Append(spool, [id |-> spooled + 1, session |-> "s",
                             helper |-> k.helper, type |-> k.type, ts |-> now])
    BY DEF HookAppends
  <2> DEFINE l == [id |-> spooled + 1, session |-> "s",
                   helper |-> k.helper, type |-> k.type, ts |-> now]
  <2>2. l.id = spooled + 1
    OBVIOUS
  <2> QED BY <2>1, <2>2
<1>2. spooled' = spooled + 1 /\ spooled \in Nat /\ UNCHANGED <<run, answered>>
  BY DEF HookAppends, flushHist, AInv, Drained
<1>3. /\ Len(spool) \in Nat /\ Len(spool') = Len(spool) + 1
      /\ \A i \in 1..Len(spool) : spool'[i] = spool[i]
      /\ spool'[Len(spool) + 1] = l
  <2>1. PICK S : spool \in Seq(S)
    BY DEF AInv, IInv, IsSeq
  <2>2. spool \in Seq(S \cup {l}) /\ l \in S \cup {l}
    BY <2>1
  <2> QED BY <1>1, <2>2
<1>4. Ids(spool) \subseteq Ids(spool') /\ spooled' \in Ids(spool')
  <2>1. \A i \in 1..Len(spool) : i \in 1..Len(spool') /\ spool'[i] = spool[i]
    BY <1>3
  <2>2. Len(spool) + 1 \in 1..Len(spool')
    BY <1>3
  <2> QED BY <1>1, <1>2, <1>3, <2>1, <2>2 DEF Ids
<1>5. Drained'
  <2>1. Working => run.raw \in 0..Len(spool') /\ 1..run.raw \subseteq 1..Len(spool)
    BY <1>3 DEF AInv, Drained
  <2> QED BY <1>2, <1>3, <2>1 DEF AInv, Drained, Working, Ids
<1>6. \A n \in 1..spooled' : n \in 1..spooled \/ n = spooled'
  BY <1>2
<1>7. Accounted'
  BY <1>2, <1>4, <1>6 DEF AInv, Accounted
<1> QED BY <1>5, <1>7 DEF AInv

(* commit puts back what is in hand, and what came after Drain.            *)
LEMMA CommitKeeps == AInv /\ IInv' /\ Commit => AInv'
<1> SUFFICES ASSUME AInv, IInv', Commit PROVE AInv'
  OBVIOUS
<1>1. /\ run.pc = "committing" /\ spool' = run.cur \o Added
      /\ UNCHANGED <<spooled, answered>>
  BY DEF Commit, Recommitted
<1>2. /\ run.raw \in 0..Len(spool) /\ IsSeq(spool) /\ IsSeq(run.cur)
      /\ \A i \in 1..run.raw : spool[i].id \in answered \cup Ids(run.cur)
  BY <1>1 DEF AInv, IInv, Drained, Working
<1>3. Len(spool) \in Nat /\ Len(run.cur) \in Nat /\ run.raw \in Nat
  BY <1>2 DEF IsSeq
<1>4. /\ Len(Added) = Len(spool) - run.raw
      /\ \A i \in 1..Len(Added) : Added[i] = spool[run.raw + i]
  <2>1. PICK S : spool \in Seq(S)
    BY <1>2 DEF IsSeq
  <2> QED BY <1>2, <1>3, <2>1 DEF Added
<1>5. /\ Len(spool') = Len(run.cur) + Len(Added)
      /\ \A i \in 1..Len(run.cur) : spool'[i] = run.cur[i]
      /\ \A i \in 1..Len(Added) : spool'[Len(run.cur) + i] = Added[i]
  <2>1. IsSeq(Added)
    BY <1>2, <1>3, TailIsSeq DEF Added
  <2> QED BY <1>1, <1>2, <2>1, ConcatIsSeq
<1>6. Ids(run.cur) \subseteq Ids(spool')
  <2>1. \A i \in 1..Len(run.cur) : i \in 1..Len(spool')
    BY <1>2, <1>3, <1>4, <1>5
  <2> QED BY <1>5, <2>1 DEF Ids
<1>7. \A i \in 1..Len(spool) : spool[i].id \in answered \cup Ids(spool')
  <2> SUFFICES ASSUME NEW i \in 1..Len(spool), ~(i <= run.raw)
               PROVE  spool[i].id \in Ids(spool')
    BY <1>2, <1>3, <1>6
  <2> DEFINE k == Len(run.cur) + (i - run.raw)
  <2>1. i - run.raw \in 1..Len(Added) /\ run.raw + (i - run.raw) = i
    BY <1>3, <1>4
  <2>2. k \in 1..Len(spool')
    <3>1. Len(spool') = Len(run.cur) + (Len(spool) - run.raw)
      BY <1>4, <1>5
    <3>2. i \in Nat /\ run.raw < i /\ i <= Len(spool)
      BY <1>3
    <3> QED BY <1>3, <3>1, <3>2
  <2>3. spool'[k] = spool[i]
    BY <1>4, <1>5, <2>1
  <2> HIDE DEF k
  <2> QED BY <2>2, <2>3 DEF Ids
<1>8. Accounted'
  BY <1>1, <1>7 DEF AInv, Accounted, Ids
<1>9. run'.pc = "saving"
  BY DEF Commit, Idle
<1> QED BY <1>1, <1>8, <1>9 DEF AInv, Drained, Working

LEMMA EndKeeps == ASSUME AInv, IInv', SaveState \/ Crash PROVE AInv'
<1>1. UNCHANGED <<spool, spooled, answered>> /\ run'.pc = "idle"
  BY DEF SaveState, Crash, Idle, flushHist
<1> QED BY <1>1 DEF AInv, Drained, Working, Accounted, Ids

-----------------------------------------------------------------------------
(* The order of the lines, and the marks among them.                       *)

(* Lines of a spool, whose ids increase.                                   *)
InOrder(s) ==
    /\ IsSeq(s)
    /\ \A i \in 1..Len(s) : {"id", "helper"} \subseteq DOMAIN s[i] /\ s[i].id \in Nat
    /\ \A i, k \in 1..Len(s) : i < k => s[i].id < s[k].id

(* Every line of t is, but for its mark, one of the first n of s.          *)
From(t, s, n) == \A j \in 1..Len(t) : \E i \in 1..n : t[j].id = s[i].id

Unmarked(s) == \A i \in 1..Len(s) : ~Marked(s[i])

(* What is in hand was drained, in its order.                              *)
Ordered ==
    /\ InOrder(spool) /\ \A i \in 1..Len(spool) : spool[i].id <= spooled
    /\ Working => InOrder(run.cur) /\ From(run.cur, spool, run.raw)

(* Who may send next knows of the pause that was saved or will be, and a   *)
(* run that has begun in it, or began it, has no marks in hand.            *)
PauseKnown ==
    /\ paused \in Nat
    /\ \/ paused = 0
       \/ run.pc = "idle" /\ st.subOff = paused
       \/ /\ run.pc # "idle" /\ run.mem.subOff = paused
          /\ Working /\ now < paused => Unmarked(run.cur)

OInv == AInv /\ Ordered /\ PauseKnown /\ NoOvertaking

LEMMA AtOrdered ==
    ASSUME NEW s, NEW I, InOrder(s)
    PROVE  /\ InOrder(At(s, I)) /\ From(At(s, I), s, Len(s))
           /\ Unmarked(s) => Unmarked(At(s, I))
<1> DEFINE t == At(s, I)
<1>1. IsSeq(t) /\ Picks(t, s, I)
  <2>1. IsSeq(s)
    BY DEF InOrder
  <2> QED BY <2>1, AtLines
<1> HIDE DEF t
<1>2. InOrder(t)
  <2>1. \A j \in 1..Len(t) : {"id", "helper"} \subseteq DOMAIN t[j] /\ t[j].id \in Nat
    BY <1>1 DEF InOrder, Picks
  <2>2. ASSUME NEW j \in 1..Len(t), NEW k \in 1..Len(t), j < k
        PROVE  t[j].id < t[k].id
    <3>1. PICK i, m \in I \cap 1..Len(s) : i < m /\ t[j] = s[i] /\ t[k] = s[m]
      BY <1>1, <2>2 DEF Picks
    <3> QED BY <3>1 DEF InOrder
  <2> QED BY <1>1, <2>1, <2>2 DEF InOrder
<1>3. From(t, s, Len(s)) /\ (Unmarked(s) => Unmarked(t))
  BY <1>1 DEF From, Unmarked, Picks
<1> QED BY <1>2, <1>3 DEF t

LEMMA StripOrdered ==
    ASSUME NEW s, InOrder(s)
    PROVE  /\ InOrder(StripSubagents(s)) /\ From(StripSubagents(s), s, Len(s))
           /\ Unmarked(StripSubagents(s))
<1> DEFINE plain == At(s, {i \in 1..Len(s) : ~(Marked(s[i]) /\ s[i].type = "subagent_start")})
           out == StripSubagents(s)
<1>1. InOrder(plain) /\ From(plain, s, Len(s))
  BY AtOrdered
<1>2. out = [i \in 1..Len(plain) |-> [plain[i] EXCEPT !.helper = Main]] /\ IsSeq(out)
  BY StripIsSeq DEF StripSubagents, InOrder
<1> HIDE DEF plain, out
<1>3. Len(plain) \in Nat
  BY <1>1 DEF InOrder, IsSeq
<1>4. Len(out) = Len(plain)
  BY <1>2, <1>3
<1>5. \A i \in 1..Len(out) : out[i] = [plain[i] EXCEPT !.helper = Main]
  BY <1>2, <1>4
<1>6. \A i \in 1..Len(out) : /\ DOMAIN out[i] = DOMAIN plain[i]
                             /\ out[i].id = plain[i].id /\ out[i].helper = Main
  <2> SUFFICES ASSUME NEW i \in 1..Len(out)
               PROVE  /\ DOMAIN out[i] = DOMAIN plain[i]
                      /\ out[i].id = plain[i].id /\ out[i].helper = Main
    OBVIOUS
  <2>1. {"id", "helper"} \subseteq DOMAIN plain[i]
    BY <1>1, <1>4 DEF InOrder
  <2>2. PICK l : l = plain[i]
    OBVIOUS
  <2>3. out[i] = [l EXCEPT !.helper = Main] /\ {"id", "helper"} \subseteq DOMAIN l
    BY <1>5, <2>1, <2>2
  <2>4. DOMAIN out[i] = DOMAIN l /\ out[i].id = l.id /\ out[i].helper = Main
    BY <2>3
  <2> QED BY <2>2, <2>4
<1>7. InOrder(out)
  BY <1>1, <1>2, <1>4, <1>6 DEF InOrder
<1>8. From(out, s, Len(s)) /\ Unmarked(out)
  BY <1>1, <1>4, <1>6 DEF From, Unmarked, Marked
<1> QED BY <1>7, <1>8 DEF out

LEMMA FromTrans ==
    ASSUME NEW t, NEW s, NEW r, NEW n, From(t, s, Len(s)), From(s, r, n)
    PROVE  From(t, r, n)
BY DEF From

(* What a run sets out to send.                                            *)
LEMMA ToSendOrdered ==
    ASSUME NEW s, InOrder(s)
    PROVE  /\ InOrder(ToSend(s)) /\ From(ToSend(s), s, Len(s))
           /\ SubagentsPaused(st, now) => Unmarked(ToSend(s))
<1> DEFINE t == IF SubagentsPaused(st, now) THEN StripSubagents(s) ELSE s
           u == DropStaleActivity(t, now)
<1>1. InOrder(t) /\ From(t, s, Len(s)) /\ (SubagentsPaused(st, now) => Unmarked(t))
  BY StripOrdered DEF From
<1>2. ToSend(s) = u
  BY DEF ToSend
<1> HIDE DEF t
<1>3. InOrder(u) /\ From(u, t, Len(t)) /\ (Unmarked(t) => Unmarked(u))
  BY <1>1, AtOrdered DEF DropStaleActivity
<1> HIDE DEF u
<1> QED BY <1>1, <1>2, <1>3, FromTrans

(* What removeResolved keeps.                                              *)
LEMMA RestOrdered ==
    ASSUME OInv, Working, NEW d
    PROVE  /\ InOrder(Rest(d)) /\ From(Rest(d), spool, run.raw)
           /\ Unmarked(run.cur) => Unmarked(Rest(d))
<1>1. InOrder(run.cur) /\ From(run.cur, spool, run.raw)
  BY DEF OInv, Ordered
<1>2. InOrder(Rest(d)) /\ From(Rest(d), run.cur, Len(run.cur))
      /\ (Unmarked(run.cur) => Unmarked(Rest(d)))
  BY <1>1, AtOrdered DEF Rest
<1> QED BY <1>1, <1>2, FromTrans

(* When a chunk is taken, everything older is in it, was answered for, or  *)
(* has been taken: what was drained is in hand or answered for, what is in *)
(* hand is in order, and what was not drained is newer.                    *)
LEMMA ChunkCovers ==
    ASSUME OInv, run.pc = "posting", NEW i \in Chunk, NEW m \in 1..run.cur[i].id
    PROVE  m \in answered \cup ChunkIds
<1> SUFFICES ASSUME m \notin answered PROVE m \in ChunkIds
  OBVIOUS
<1>1. /\ InOrder(spool) /\ InOrder(run.cur) /\ From(run.cur, spool, run.raw)
      /\ \A k \in 1..Len(spool) : spool[k].id <= spooled
      /\ run.raw \in 0..Len(spool) /\ spooled \in Nat /\ Accounted
      /\ \A k \in 1..run.raw : spool[k].id \in answered \cup Ids(run.cur)
      /\ \A k \in 1..run.off : run.cur[k].id \in answered
  BY DEF OInv, AInv, Ordered, Drained, Working
<1>2. Len(spool) \in Nat /\ Len(run.cur) \in Nat /\ run.raw \in Nat
  BY <1>1 DEF InOrder, IsSeq
<1>3. run.off \in Nat /\ ChunkMax \in Nat
  BY FlushAssumption DEF OInv, AInv, IInv, Typed, Shape
<1> DEFINE last == Least(run.off + ChunkMax, Len(run.cur))
<1>4. last \in Nat /\ last <= Len(run.cur) /\ Chunk = (run.off + 1)..last
  BY <1>2, <1>3 DEF Least, Chunk
<1> HIDE DEF last
<1>5. i \in 1..Len(run.cur) /\ i <= last
  BY <1>2, <1>3, <1>4
<1>6. PICK b \in 1..run.raw : run.cur[i].id = spool[b].id
  BY <1>1, <1>5 DEF From
<1>7. b \in 1..Len(spool) /\ spool[b].id \in Nat /\ spool[b].id <= spooled
  BY <1>1, <1>2, <1>6 DEF InOrder
<1>8. m \in 1..spooled
  BY <1>1, <1>6, <1>7
<1>9. PICK k \in 1..Len(spool) : spool[k].id = m
  BY <1>1, <1>8 DEF Accounted, Ids
<1>10. k <= run.raw
  <2> SUFFICES ASSUME ~(k <= run.raw) PROVE FALSE
    OBVIOUS
  <2>1. b < k
    BY <1>2, <1>6, <1>9
  <2>2. spool[b].id < spool[k].id
    BY <1>1, <1>7, <1>9, <2>1 DEF InOrder
  <2> QED BY <1>6, <1>7, <1>9, <2>2
<1>11. PICK p \in 1..Len(run.cur) : run.cur[p].id = m
  <2>1. k \in 1..run.raw
    BY <1>2, <1>9, <1>10
  <2> QED BY <1>1, <1>9, <2>1 DEF Ids
<1>12. p <= i
  <2> SUFFICES ASSUME i < p PROVE FALSE
    BY <1>5
  <2>1. run.cur[i].id < run.cur[p].id
    BY <1>1, <1>5 DEF InOrder
  <2> QED BY <1>6, <1>7, <1>11, <2>1
<1>13. ~(p <= run.off)
  BY <1>1, <1>3, <1>11
<1>14. p \in Chunk
  <2>1. p \in Nat /\ i \in Nat
    BY <1>2, <1>5, <1>11
  <2>2. last \in Nat
    BY <1>4
  <2>3. p <= last
    BY <1>5, <1>12, <2>1, <2>2
  <2>4. run.off + 1 <= p
    BY <1>3, <1>13, <2>1
  <2> QED BY <1>3, <1>4, <2>1, <2>3, <2>4
<1> QED BY <1>11, <1>14 DEF ChunkIds

LEMMA TakenCovered ==
    ASSUME OInv, run.pc = "posting", taken' = taken \cup ChunkIds, answered \subseteq answered'
    PROVE  NoOvertaking'
<1> SUFFICES ASSUME NEW n \in taken', NEW m \in 1..n PROVE m \in taken' \cup answered'
  BY DEF NoOvertaking
<1>1. CASE n \in taken
  BY <1>1 DEF OInv, NoOvertaking
<1>2. CASE n \in ChunkIds
  <2>1. PICK i \in Chunk : n = run.cur[i].id
    BY <1>2 DEF ChunkIds
  <2>2. m \in answered \cup ChunkIds
    BY <2>1, ChunkCovers
  <2> QED BY <2>2
<1> QED BY <1>1, <1>2

(* A request that fails: what it leaves in hand, and what it says of       *)
(* marks.                                                                  *)
LEMMA FailedShape ==
    ASSUME IInv,
           \/ Answer400 \/ Answer400Subagent \/ Answer400Unnamed
           \/ Answer401InGrace \/ Answer401 \/ Answer429 \/ Answer5xx \/ NoAnswer
    PROVE  /\ run.pc = "posting" /\ run'.pc \in {"loop", "sleeping", "committing"}
           /\ run'.raw = run.raw /\ run'.off = 0 /\ UNCHANGED <<now, spool, spooled, st>>
           /\ taken' = taken \/ taken' = taken \cup ChunkIds
           /\ \/ /\ run'.cur = StripSubagents(Rest({})) /\ taken' = taken
                 /\ answered' = answered \cup (Ids(Rest({})) \ Ids(run'.cur))
                 /\ run'.mem.subOff = paused' /\ paused' \in Nat
              \/ /\ \/ /\ \E i \in Chunk : /\ run'.cur = Rest({i})
                                           /\ answered' = answered \cup {run.cur[i].id}
                       /\ taken' = taken
                    \/ run'.cur = Rest({}) /\ answered' = answered
                 /\ run'.mem.subOff = run.mem.subOff /\ paused' = paused
<1>1. /\ run.pc = "posting" /\ now \in Nat /\ UNCHANGED <<now, spool, spooled, st>>
      /\ taken' = taken \/ taken' = taken \cup ChunkIds
  <2>1. now \in Nat
    BY DEF IInv, Typed
  <2>2. CASE Answer400 \/ Answer400Subagent
    BY <2>1, <2>2 DEF Answer400, Answer400Subagent, Answerable
  <2>3. CASE Answer400Unnamed \/ Answer401InGrace \/ Answer401
    BY <2>1, <2>3 DEF Answer400Unnamed, Answer401InGrace, Answer401, Answerable, flushHist
  <2>4. CASE Answer5xx \/ NoAnswer
    BY <2>1, <2>4 DEF Answer5xx, NoAnswer, Answerable, flushHist
  <2>5. CASE Answer429
    <3>1. Answerable /\ UNCHANGED <<now, spool, spooled, st, answered, taken>>
      BY <2>5, Zenon DEF Answer429
    <3> QED BY <2>1, <3>1 DEF Answerable
  <2> QED BY <2>2, <2>3, <2>4, <2>5
<1>2. /\ AfterSent \in States /\ AfterSent.c401 \in 0..3
      /\ AfterSent.subOff = run.mem.subOff
  BY AfterSentFacts DEF IInv, Typed, Shape, States, AfterSent
<1>3. CASE Answer400
  <2>1. PICK i \in Chunk : /\ run' = After("loop", AfterSent, Rest({i}))
                           /\ answered' = answered \cup {run.cur[i].id}
    BY <1>3 DEF Answer400
  <2>2. /\ run'.cur = Rest({i}) /\ run'.raw = run.raw /\ run'.pc = "loop"
        /\ run'.mem = AfterSent /\ run'.off = 0
    BY <1>2, <2>1, AfterShape DEF Pc
  <2>3. paused' = paused /\ taken' = taken
    BY <1>3 DEF Answer400
  <2> QED BY <1>1, <1>2, <2>1, <2>2, <2>3
<1>4. CASE Answer400Subagent
  <2> DEFINE rest == StripSubagents(Rest({}))
             mem == [AfterSent EXCEPT !.subOff = RFC3339(now + SubagentPeriod)]
  <2>1. /\ run' = After("loop", mem, rest) /\ paused' = mem.subOff /\ taken' = taken
        /\ answered' = answered \cup (Ids(Rest({})) \ Ids(rest))
    BY <1>4 DEF Answer400Subagent
  <2>2. RFC3339(now + SubagentPeriod) \in Nat
    <3>1. now + SubagentPeriod \in Nat
      BY <1>1, FlushAssumption
    <3> QED BY <3>1, FractionLost
  <2>3. mem \in States /\ mem.subOff \in Nat
    BY <1>2, <2>2 DEF States
  <2> HIDE DEF mem
  <2>4. /\ run'.cur = rest /\ run'.raw = run.raw /\ run'.pc = "loop" /\ run'.mem = mem
        /\ run'.off = 0
    BY <2>1, <2>3, AfterShape DEF Pc
  <2> QED BY <1>1, <2>1, <2>3, <2>4
<1>5. CASE Answer400Unnamed \/ Answer401
  <2>1. PICK mem \in States : /\ run' = After("committing", mem, Rest({}))
                              /\ mem.subOff = run.mem.subOff
    <3>1. CASE Answer400Unnamed
      BY <1>2, <3>1 DEF Answer400Unnamed
    <3>2. CASE Answer401
      <4> DEFINE c == Count(AfterSent.c401)
                 mem == [AfterSent EXCEPT !.c401 = c, !.reason = @ \/ Struck(c)]
      <4>1. run' = After("committing", mem, Rest({}))
        BY <3>2 DEF Answer401
      <4>2. c \in 0..3
        BY <1>2 DEF Count, Least
      <4>3. AfterSent.reason \in BOOLEAN /\ Struck(c) \in BOOLEAN
        BY <1>2 DEF States, Struck
      <4>4. mem \in States /\ mem.subOff = run.mem.subOff
        BY <1>2, <4>2, <4>3 DEF States
      <4> QED BY <4>1, <4>4
    <3> QED BY <1>5, <3>1, <3>2
  <2>2. /\ run'.cur = Rest({}) /\ run'.raw = run.raw /\ run'.pc = "committing"
        /\ run'.mem = mem /\ run'.off = 0
    BY <2>1, AfterShape DEF Pc
  <2>3. paused' = paused /\ answered' = answered
    BY <1>5 DEF Answer400Unnamed, Answer401, flushHist
  <2> QED BY <1>1, <2>1, <2>2, <2>3
<1>6. CASE Answer401InGrace \/ Answer5xx \/ NoAnswer
  <2> DEFINE r == After("posting", AfterSent, Rest({}))
  <2>1. /\ Shape(r) /\ r.cur = Rest({}) /\ r.raw = run.raw /\ r.mem = AfterSent
        /\ r.off = 0
    BY <1>2, AfterShape DEF Pc
  <2>2. run' = RetryOrEnd(r) /\ paused' = paused /\ answered' = answered
    BY <1>6 DEF Answer401InGrace, Answer5xx, NoAnswer, flushHist
  <2> HIDE DEF r
  <2>3. /\ run'.cur = Rest({}) /\ run'.raw = run.raw /\ run'.mem = AfterSent
        /\ run'.pc \in {"committing", "sleeping"} /\ run'.off = 0
    BY <1>1, <2>1, <2>2, RetryShape
  <2> QED BY <1>1, <1>2, <2>2, <2>3
<1>7. CASE Answer429
  <2>1. /\ run'.cur = Rest({}) /\ run'.raw = run.raw /\ run'.off = 0
        /\ run'.pc \in {"committing", "sleeping"} /\ run'.mem.subOff = run.mem.subOff
        /\ paused' = paused /\ answered' = answered
    BY <1>7, Answer429Shape
  <2> QED BY <1>1, <2>1
<1> QED BY <1>3, <1>4, <1>5, <1>6, <1>7

LEMMA FailedOrder ==
    ASSUME OInv, AInv',
           \/ Answer400 \/ Answer400Subagent \/ Answer400Unnamed
           \/ Answer401InGrace \/ Answer401 \/ Answer429 \/ Answer5xx \/ NoAnswer
    PROVE  OInv'
<1>1. /\ run.pc = "posting" /\ run'.pc \in {"loop", "sleeping", "committing"}
      /\ run'.raw = run.raw /\ UNCHANGED <<now, spool, spooled, st>>
      /\ answered \subseteq answered'
      /\ taken' = taken \/ taken' = taken \cup ChunkIds
      /\ \/ /\ run'.cur = StripSubagents(Rest({}))
            /\ run'.mem.subOff = paused' /\ paused' \in Nat
         \/ /\ \E d : run'.cur = Rest(d)
            /\ run'.mem.subOff = run.mem.subOff /\ paused' = paused
  <2>1. IInv
    BY DEF OInv, AInv
  <2> QED BY <2>1, FailedShape
<1>2. NoOvertaking'
  <2>1. CASE taken' = taken
    BY <1>1, <2>1 DEF OInv, NoOvertaking
  <2> QED BY <1>1, <2>1, TakenCovered
<1>3. Working
  BY <1>1 DEF Working
<1>4. CASE run'.cur = StripSubagents(Rest({})) /\ run'.mem.subOff = paused' /\ paused' \in Nat
  <2> DEFINE rest == Rest({})
             out == StripSubagents(rest)
  <2>1. InOrder(rest) /\ From(rest, spool, run.raw)
    BY <1>3, RestOrdered
  <2> HIDE DEF rest
  <2>2. InOrder(out) /\ From(out, rest, Len(rest)) /\ Unmarked(out)
    BY <2>1, StripOrdered
  <2>3. From(out, spool, run.raw) /\ run'.cur = out
    BY <1>4, <2>1, <2>2, FromTrans DEF rest
  <2> HIDE DEF out
  <2>4. Ordered'
    BY <1>1, <2>2, <2>3 DEF OInv, Ordered
  <2>5. PauseKnown'
    BY <1>1, <1>4, <2>2, <2>3 DEF PauseKnown
  <2> QED BY <1>2, <2>4, <2>5 DEF OInv
<1>5. CASE /\ \E d : run'.cur = Rest(d)
           /\ run'.mem.subOff = run.mem.subOff /\ paused' = paused
  <2>1. PICK d : run'.cur = Rest(d)
    BY <1>5
  <2>2. /\ InOrder(run'.cur) /\ From(run'.cur, spool, run.raw)
        /\ Unmarked(run.cur) => Unmarked(run'.cur)
    BY <1>3, <2>1, RestOrdered
  <2>3. Ordered'
    BY <1>1, <2>2 DEF OInv, Ordered
  <2>4. PauseKnown'
    BY <1>1, <1>3, <1>5, <2>2 DEF OInv, PauseKnown
  <2> QED BY <1>2, <2>3, <2>4 DEF OInv
<1> QED BY <1>1, <1>4, <1>5

LEMMA AnswerOKOrder == OInv /\ AInv' /\ AnswerOK => OInv'
<1> SUFFICES ASSUME OInv, AInv', AnswerOK PROVE OInv'
  OBVIOUS
<1>1. /\ run.pc = "posting" /\ Shape(run) /\ UNCHANGED <<now, spool, spooled, st, paused>>
      /\ taken' = taken \cup ChunkIds /\ answered \subseteq answered'
  BY DEF AnswerOK, Answerable, OInv, AInv, IInv, Typed
<1>2. NoOvertaking'
  BY <1>1, TakenCovered
<1>3. /\ run'.raw = run.raw /\ run'.mem.subOff = run.mem.subOff
      /\ run'.pc \in {"posting", "committing"} /\ (run'.cur = run.cur \/ run'.cur = <<>>)
  <2>1. CASE Delivered < Len(run.cur)
    <3>1. run' = [run EXCEPT !.off = Delivered]
      BY <2>1 DEF AnswerOK
    <3> QED BY <1>1, <3>1 DEF Shape
  <2>2. CASE ~(Delivered < Len(run.cur))
    <3>1. run' = [run EXCEPT !.pc = "committing", !.off = Delivered, !.cur = <<>>,
                             !.mem.c401 = 0, !.outcome = "ok"]
      BY <2>2 DEF AnswerOK
    <3> QED BY <1>1, <3>1 DEF Shape, States
  <2> QED BY <2>1, <2>2
<1>4. InOrder(<<>>) /\ From(<<>>, spool, run.raw) /\ Unmarked(<<>>)
  BY EmptyIsSeq DEF InOrder, From, Unmarked
<1>5. Ordered'
  BY <1>1, <1>3, <1>4 DEF OInv, Ordered, Working
<1>6. PauseKnown'
  BY <1>1, <1>3, <1>4 DEF OInv, PauseKnown, Working
<1> QED BY <1>2, <1>5, <1>6 DEF OInv

LEMMA RunStartsOrder == OInv /\ AInv' /\ RunStarts => OInv'
<1> SUFFICES ASSUME OInv, AInv', RunStarts PROVE OInv'
  OBVIOUS
<1> DEFINE batch == ToSend(spool)
           r == [Idle EXCEPT !.cur = batch, !.raw = Len(spool), !.deadline = now + Budget]
<1>1. /\ run.pc = "idle" /\ now \in Nat
      /\ run' = IF RateLimited(st, now)
                THEN [r EXCEPT !.pc = "committing", !.outcome = "failed"]
                ELSE [r EXCEPT !.pc = "loop", !.mem.rlUntil = 0]
      /\ answered \subseteq answered'
      /\ UNCHANGED <<now, spool, spooled, st, taken, paused>>
  BY DEF RunStarts, OInv, AInv, IInv, Typed
<1>2. /\ InOrder(batch) /\ From(batch, spool, Len(spool))
      /\ SubagentsPaused(st, now) => Unmarked(batch)
  BY ToSendOrdered DEF OInv, Ordered
<1> HIDE DEF batch
<1>3. Len(spool) \in Nat /\ now + Budget \in Nat
  BY <1>1, FlushAssumption DEF OInv, AInv, IInv, IsSeq
<1>4. Shape(r) /\ r.cur = batch /\ r.raw = Len(spool) /\ r.mem = st
  BY <1>3, IdleShape DEF OInv, AInv, Shape
<1> HIDE DEF r
<1>5. /\ run'.cur = batch /\ run'.raw = Len(spool) /\ run'.pc \in {"loop", "committing"}
      /\ run'.mem.subOff = st.subOff
  BY <1>1, <1>4 DEF Shape, States
<1>6. Ordered'
  BY <1>1, <1>2, <1>5 DEF OInv, Ordered
<1>7. PauseKnown'
  BY <1>1, <1>2, <1>5 DEF OInv, PauseKnown, SubagentsPaused
<1>8. NoOvertaking'
  BY <1>1 DEF OInv, NoOvertaking
<1> QED BY <1>6, <1>7, <1>8 DEF OInv

LEMMA LoopOrder ==
    ASSUME OInv, AInv', Tick \/ RunUnpaired \/ LoopEnds \/ PostEvents \/ Wakes \/ SleepCut
    PROVE  OInv'
<1>1. Shape(run) /\ now \in Nat
  BY DEF OInv, AInv, IInv, Typed
<1>2. /\ UNCHANGED <<spool, spooled, answered, taken, paused>> /\ now' \in Nat /\ now <= now'
      /\ st'.subOff = st.subOff
  BY <1>1 DEF Tick, RunUnpaired, LoopEnds, PostEvents, Wakes, SleepCut, flushHist, OInv,
              AInv, IInv, Typed, States
<1>3. /\ run'.cur = run.cur /\ run'.raw = run.raw /\ run'.mem.subOff = run.mem.subOff
      /\ (run'.pc = run.pc \/ (Working /\ run'.pc # "idle"))
  <2>1. CASE Tick \/ RunUnpaired
    BY <2>1 DEF Tick, RunUnpaired
  <2>2. CASE LoopEnds \/ PostEvents \/ SleepCut
    BY <1>1, <2>2 DEF LoopEnds, PostEvents, SleepCut, Shape, Working
  <2>3. CASE Wakes
    BY <1>1, <2>3 DEF Wakes, Shape, States, Working
  <2> QED BY <2>1, <2>2, <2>3
<1>4. Ordered'
  BY <1>2, <1>3 DEF OInv, Ordered, Working
<1>5. PauseKnown'
  BY <1>1, <1>2, <1>3 DEF OInv, PauseKnown, Working
<1>6. NoOvertaking'
  BY <1>2 DEF OInv, NoOvertaking
<1> QED BY <1>4, <1>5, <1>6 DEF OInv

(* A hook's line is the newest, and behind all others.                     *)
LEMMA HookOrder == OInv /\ AInv' /\ HookAppends => OInv'
<1> SUFFICES ASSUME OInv, AInv', HookAppends PROVE OInv'
  OBVIOUS
<1>1. PICK k \in Kinds : spool' = Append(spool, [id |-> spooled + 1, session |-> "s",
                           helper |-> k.helper, type |-> k.type, ts |-> now])
  BY DEF HookAppends
<1>2. PICK l : l = [id |-> spooled + 1, session |-> "s",
                    helper |-> k.helper, type |-> k.type, ts |-> now]
  OBVIOUS
<1>3. /\ spool' = Append(spool, l) /\ l.id = spooled + 1
      /\ {"id", "helper"} \subseteq DOMAIN l
  BY <1>1, <1>2
<1>4. /\ spooled' = spooled + 1 /\ spooled \in Nat
      /\ UNCHANGED <<now, st, run, answered, taken, paused>>
  BY DEF HookAppends, flushHist, OInv, AInv, Drained
<1>5. /\ Len(spool) \in Nat /\ Len(spool') = Len(spool) + 1
      /\ \A i \in 1..Len(spool) : spool'[i] = spool[i]
      /\ spool'[Len(spool) + 1] = l
  <2>1. PICK S : spool \in Seq(S)
    BY DEF OInv, AInv, IInv, IsSeq
  <2>2. spool \in Seq(S \cup {l}) /\ l \in S \cup {l}
    BY <2>1
  <2> QED BY <1>3, <2>2
<1>6. /\ \A i \in 1..Len(spool) : {"id", "helper"} \subseteq DOMAIN spool[i]
                                  /\ spool[i].id \in Nat /\ spool[i].id <= spooled
      /\ \A i, m \in 1..Len(spool) : i < m => spool[i].id < spool[m].id
  BY DEF OInv, Ordered, InOrder
<1>7. \A i \in 1..Len(spool') : i \in 1..Len(spool) \/ i = Len(spool) + 1
  BY <1>5
<1>8. \A i \in 1..Len(spool') : {"id", "helper"} \subseteq DOMAIN spool'[i]
                                /\ spool'[i].id \in Nat /\ spool'[i].id <= spooled'
  BY <1>3, <1>4, <1>5, <1>6, <1>7
<1>9. \A i, m \in 1..Len(spool') : i < m => spool'[i].id < spool'[m].id
  <2> SUFFICES ASSUME NEW i \in 1..Len(spool'), NEW m \in 1..Len(spool'), i < m
               PROVE  spool'[i].id < spool'[m].id
    OBVIOUS
  <2>1. i \in 1..Len(spool)
    BY <1>5
  <2>2. CASE m \in 1..Len(spool)
    BY <1>5, <1>6, <2>1, <2>2
  <2>3. CASE m = Len(spool) + 1
    BY <1>3, <1>4, <1>5, <1>6, <2>1, <2>3
  <2> QED BY <1>7, <2>2, <2>3
<1>10. IsSeq(spool')
  BY DEF AInv, IInv
<1>11. InOrder(spool')
  BY <1>8, <1>9, <1>10 DEF InOrder
<1>12. Working => From(run.cur, spool', run.raw)
  <2> SUFFICES ASSUME Working PROVE From(run.cur, spool', run.raw)
    OBVIOUS
  <2>1. From(run.cur, spool, run.raw) /\ run.raw \in 0..Len(spool)
    BY DEF OInv, Ordered, AInv, Drained
  <2>2. \A i \in 1..run.raw : spool'[i] = spool[i]
    BY <1>5, <2>1
  <2> QED BY <2>1, <2>2 DEF From
<1>13. Ordered'
  BY <1>4, <1>8, <1>11, <1>12 DEF OInv, Ordered, Working
<1>14. PauseKnown' /\ NoOvertaking'
  BY <1>4 DEF OInv, PauseKnown, NoOvertaking, Working
<1> QED BY <1>13, <1>14 DEF OInv

(* What is put back is older than what came after Drain.                   *)
LEMMA CommitOrder == OInv /\ AInv' /\ Commit => OInv'
<1> SUFFICES ASSUME OInv, AInv', Commit PROVE OInv'
  OBVIOUS
<1>1. /\ run.pc = "committing" /\ spool' = run.cur \o Added
      /\ UNCHANGED <<now, spooled, st, answered, taken, paused>>
  BY DEF Commit, Recommitted
<1>2. /\ run.raw \in 0..Len(spool) /\ InOrder(spool) /\ InOrder(run.cur)
      /\ From(run.cur, spool, run.raw) /\ spooled \in Nat
      /\ \A i \in 1..Len(spool) : spool[i].id <= spooled
  BY <1>1 DEF OInv, AInv, Drained, Ordered, Working
<1>3. Len(spool) \in Nat /\ Len(run.cur) \in Nat /\ run.raw \in Nat
  BY <1>2 DEF InOrder, IsSeq
<1>4. /\ Len(Added) = Len(spool) - run.raw /\ IsSeq(Added)
      /\ \A i \in 1..Len(Added) : Added[i] = spool[run.raw + i]
  <2>1. PICK S : spool \in Seq(S)
    BY <1>2 DEF InOrder, IsSeq
  <2>2. IsSeq(Added)
    BY <1>2, <1>3, TailIsSeq DEF Added, InOrder
  <2> QED BY <1>2, <1>3, <2>1, <2>2 DEF Added
<1>5. PICK n \in Nat : /\ n = Len(run.cur) /\ Len(spool') = n + Len(Added)
                       /\ \A i \in 1..n : spool'[i] = run.cur[i]
                       /\ \A i \in 1..Len(Added) : spool'[n + i] = Added[i]
  <2>1. IsSeq(run.cur)
    BY <1>2 DEF InOrder
  <2>2. PICK S, T : run.cur \in Seq(S) /\ Added \in Seq(T)
    BY <1>4, <2>1 DEF IsSeq
  <2>3. run.cur \in Seq(S \cup T) /\ Added \in Seq(S \cup T)
    BY <2>2
  <2>4. /\ Len(spool') = Len(run.cur) + Len(Added)
        /\ \A i \in 1..Len(run.cur) : spool'[i] = run.cur[i]
        /\ \A i \in 1..Len(Added) : spool'[Len(run.cur) + i] = Added[i]
    BY <1>1, <2>3
  <2> QED BY <1>3, <2>4
<1> DEFINE place(i) == run.raw + (i - n)
(* Where a line of the new file comes from.                                *)
<1>6. \A i \in 1..Len(spool') :
         \/ i \in 1..n /\ spool'[i] = run.cur[i]
         \/ /\ place(i) \in 1..Len(spool) /\ run.raw < place(i)
            /\ spool'[i] = spool[place(i)]
  <2> SUFFICES ASSUME NEW i \in 1..Len(spool'), ~(i \in 1..n)
               PROVE  /\ place(i) \in 1..Len(spool) /\ run.raw < place(i)
                      /\ spool'[i] = spool[place(i)]
    BY <1>5
  <2>1. PICK j \in 1..Len(Added) : i = n + j
    <3>1. Len(Added) \in Nat
      BY <1>2, <1>3, <1>4
    <3>2. i \in 1..(n + Len(Added))
      BY <1>5
    <3>3. i - n \in 1..Len(Added) /\ i = n + (i - n)
      BY <3>1, <3>2
    <3> QED BY <3>3
  <2>2. place(i) = run.raw + j
    BY <1>3, <2>1
  <2>3. run.raw + j \in 1..Len(spool) /\ run.raw < run.raw + j
    <3>1. Len(Added) = Len(spool) - run.raw /\ j \in Nat /\ 1 <= j /\ j <= Len(Added)
      BY <1>2, <1>3, <1>4
    <3>2. ASSUME NEW R \in Nat, NEW N \in Nat, NEW k \in Nat, 1 <= k, k <= N - R
          PROVE  R + k \in 1..N /\ R < R + k
      BY <3>2
    <3>3. j <= Len(spool) - run.raw
      BY <3>1
    <3> QED BY <1>3, <3>1, <3>2, <3>3
  <2> QED BY <1>4, <1>5, <2>1, <2>2, <2>3
<1>7. \A i, m \in 1..Len(spool') : i < m => place(i) < place(m)
  BY <1>3, <1>4, <1>5
<1> HIDE DEF place
<1>8. \A i \in 1..n : i \in 1..Len(run.cur)
  BY <1>5
<1>9. \A i \in 1..n : \E b \in 1..Len(spool) : b <= run.raw /\ run.cur[i].id = spool[b].id
  <2> SUFFICES ASSUME NEW i \in 1..n
               PROVE  \E b \in 1..Len(spool) : b <= run.raw /\ run.cur[i].id = spool[b].id
    OBVIOUS
  <2>1. PICK b \in 1..run.raw : run.cur[i].id = spool[b].id
    BY <1>2, <1>8 DEF From
  <2>2. b \in 1..Len(spool) /\ b <= run.raw
    BY <1>2, <1>3
  <2> QED BY <2>1, <2>2
<1>10. \A i \in 1..Len(spool') : {"id", "helper"} \subseteq DOMAIN spool'[i]
                                 /\ spool'[i].id \in Nat /\ spool'[i].id <= spooled'
  <2> SUFFICES ASSUME NEW i \in 1..Len(spool')
               PROVE  {"id", "helper"} \subseteq DOMAIN spool'[i]
                      /\ spool'[i].id \in Nat /\ spool'[i].id <= spooled
    BY <1>1
  <2>1. CASE i \in 1..n /\ spool'[i] = run.cur[i]
    BY <1>2, <1>8, <1>9, <2>1 DEF InOrder
  <2>2. CASE place(i) \in 1..Len(spool) /\ spool'[i] = spool[place(i)]
    BY <1>2, <2>2 DEF InOrder
  <2> QED BY <1>6, <2>1, <2>2
<1>11. \A i, m \in 1..Len(spool') : i < m => spool'[i].id < spool'[m].id
  <2> SUFFICES ASSUME NEW i \in 1..Len(spool'), NEW m \in 1..Len(spool'), i < m
               PROVE  spool'[i].id < spool'[m].id
    OBVIOUS
  <2>1. CASE m \in 1..n /\ spool'[m] = run.cur[m]
    <3>1. i \in 1..n /\ spool'[i] = run.cur[i]
      BY <1>5, <2>1
    <3> QED BY <1>2, <1>8, <2>1, <3>1 DEF InOrder
  <2>2. CASE /\ place(m) \in 1..Len(spool) /\ run.raw < place(m)
             /\ spool'[m] = spool[place(m)]
    <3>1. CASE i \in 1..n /\ spool'[i] = run.cur[i]
      <4>1. PICK a \in 1..Len(spool) : a <= run.raw /\ run.cur[i].id = spool[a].id
        BY <1>9, <3>1
      <4>2. a < place(m)
        BY <1>3, <2>2, <4>1
      <4>3. spool[a].id < spool[place(m)].id
        BY <1>2, <2>2, <4>2 DEF InOrder
      <4> QED BY <2>2, <3>1, <4>1, <4>3
    <3>2. CASE place(i) \in 1..Len(spool) /\ spool'[i] = spool[place(i)]
      <4>1. place(i) < place(m)
        BY <1>7
      <4> QED BY <1>2, <2>2, <3>2, <4>1 DEF InOrder
    <3> QED BY <1>6, <3>1, <3>2
  <2> QED BY <1>6, <2>1, <2>2
<1>12. InOrder(spool')
  BY <1>10, <1>11 DEF InOrder, AInv, IInv
<1>13. run'.pc = "saving" /\ run'.mem = run.mem
  BY IdleShape DEF Commit, Idle, OInv, AInv
<1>14. Ordered'
  BY <1>10, <1>12, <1>13 DEF Ordered, Working
<1>15. PauseKnown' /\ NoOvertaking'
  BY <1>1, <1>13 DEF OInv, PauseKnown, NoOvertaking, Working
<1> QED BY <1>14, <1>15 DEF OInv

(* A run that dies leaves the pause that it found.                         *)
LEMMA EndOrder == ASSUME OInv, AInv', SaveState \/ Crash PROVE OInv'
<1>1. UNCHANGED <<now, spool, spooled, answered, taken>> /\ run'.pc = "idle" /\ run.pc # "idle"
  BY DEF SaveState, Crash, Idle, flushHist
<1>2. Ordered' /\ NoOvertaking'
  BY <1>1 DEF OInv, Ordered, Working, NoOvertaking
<1>3. CASE SaveState
  <2>1. st'.subOff = run.mem.subOff /\ paused' = paused
    BY <1>3 DEF SaveState, flushHist, OInv, AInv, IInv, Typed, Shape, States
  <2> QED BY <1>1, <1>2, <2>1 DEF OInv, PauseKnown
<1>4. CASE Crash
  <2>1. st' = st /\ paused' = (IF run.mem.subOff = st.subOff THEN paused ELSE 0)
    BY <1>4 DEF Crash
  <2> QED BY <1>1, <1>2, <2>1 DEF OInv, PauseKnown
<1> QED BY <1>3, <1>4

-----------------------------------------------------------------------------
LEMMA StutterStep == IInv /\ UNCHANGED vars => IInv'
BY
   DEF vars, IInv, Typed, Shape, WaitsBounded, CountTrue, Counter, DeletedLast,
       QuietKnown,
       CredentialNeedsThreeStrikes, IsSeq

(* The inductive invariant.                                                *)
THEOREM FlushInv == Spec => []IInv
<1>1. IInv /\ [Next]_vars => IInv'
  BY OutsideStep, RunStartsStep, LoopStep, CommitStep, SaveStateStep, AnswerOKStep,
     FailedAnswerStep, Answer401Step, Answer429Step, CrashStep, StutterStep
     DEF Next, Step
<1> QED BY <1>1, InitIInv, PTL DEF Spec

LEMMA InitAInv == Init => AInv
BY InitIInv DEF Init, AInv, Drained, Working, Accounted, Idle

LEMMA FlushAccounts == Spec => []AInv
<1>1. AInv /\ IInv' /\ [Next]_vars => AInv'
  <2>1. AInv /\ IInv' /\ UNCHANGED vars => AInv'
    BY DEF vars, AInv, Drained, Working, Accounted, Ids
  <2> QED BY <2>1, HookKeeps, LoopKeeps, RunStartsKeeps, CommitKeeps, EndKeeps,
             AnswerOKKeeps, FailedKeeps DEF Next, Step
<1> QED BY <1>1, InitAInv, FlushInv, PTL DEF Spec

(* NFR-08 across runs, retries, partial deliveries and crashes (flush.go's *)
(* loop, removeResolved and commit): a line is in the spool until the      *)
(* relay has taken it or has named it as invalid, or the run has dropped   *)
(* it as stale or as meaningless without its field.                        *)
THEOREM FlushAccounted == Spec => []Accounted
<1>1. AInv => Accounted
  BY DEF AInv
<1> QED BY <1>1, FlushAccounts, PTL

(* ERR-04 (flush.go's handling of a 401, state.json's counter): the        *)
(* credential goes only after three 401s outside the grace period with no  *)
(* 2xx between them, in however many runs, unless a crash lost a reset.    *)
THEOREM FlushThreeStrikes == Spec => []CredentialNeedsThreeStrikes
<1>1. IInv => CredentialNeedsThreeStrikes
  BY DEF IInv
<1> QED BY <1>1, FlushInv, PTL

(* ERR-05 (flush.go's 429s, state.json's rate_limited_until): while a      *)
(* Retry-After runs no run contacts the relay, but for the fraction of a   *)
(* second RFC 3339 loses.                                                  *)
THEOREM FlushQuietKept == Spec => QuietKept
<1>1. IInv /\ Next => (StartsPosting => now + Second > quiet)
  BY DEF IInv, Typed, QuietKnown, StartsPosting
<1>2. IInv /\ [Next]_vars => [StartsPosting => now + Second > quiet]_vars
  BY <1>1
<1> QED BY <1>2, FlushInv, PTL DEF Spec, QuietKept

LEMMA InitOInv == Init => OInv
<1> SUFFICES ASSUME Init PROVE OInv
  OBVIOUS
<1>1. AInv
  BY InitAInv
<1>2. InOrder(<<>>)
  BY EmptyIsSeq DEF InOrder
<1>3. spool = <<>> /\ run.pc = "idle" /\ paused = 0 /\ taken = {}
  BY DEF Init, Idle
<1> QED BY <1>1, <1>2, <1>3 DEF OInv, Ordered, Working, PauseKnown, NoOvertaking

(* The order of the lines and what is known of a pause, always.            *)
THEOREM FlushOrder == Spec => []OInv
<1>1. OInv /\ AInv' /\ [Next]_vars => OInv'
  <2>1. OInv /\ AInv' /\ UNCHANGED vars => OInv'
    BY DEF vars, OInv, Ordered, Working, PauseKnown, NoOvertaking
  <2> QED BY <2>1, HookOrder, LoopOrder, RunStartsOrder, CommitOrder, EndOrder,
             AnswerOKOrder, FailedOrder DEF Next, Step
<1> QED BY <1>1, InitOInv, FlushAccounts, PTL DEF Spec

(* Retries, partial deliveries and lost answers (flush.go's loop and       *)
(* removeResolved, relay.PostEvents) never let the relay have a line       *)
(* before an older one that it has not had and that was not dropped.       *)
THEOREM FlushNoOvertaking == Spec => []NoOvertaking
<1>1. OInv => NoOvertaking
  BY DEF OInv
<1> QED BY <1>1, FlushOrder, PTL

(* ADR-005 section 8 (flush_subagent.go, state.json's                      *)
(* subagents_off_until): for a period after the relay rejected the         *)
(* subagent field no line that carries it is sent, in this run or a later  *)
(* one, not even one that a hook spooled before it saw the pause.          *)
THEOREM FlushNoMarkWhilePaused == Spec => NoMarkWhilePaused
<1> DEFINE A == StartsPosting /\ now < paused => \A i \in 1..Len(run.cur) : ~Marked(run.cur[i])
<1>1. OInv /\ Next => A
  BY DEF OInv, AInv, IInv, Typed, PauseKnown, StartsPosting, Working, Unmarked
<1>2. OInv /\ [Next]_vars => [A]_vars
  BY <1>1
<1> QED BY <1>2, FlushOrder, PTL DEF Spec, NoMarkWhilePaused

-----------------------------------------------------------------------------
(* Delivery.                                                               *)

(* What is left to commit is what is left to send.                         *)
DInv == OInv /\ (run.pc = "committing" => run.off = 0 \/ run.cur = <<>>)

(* The lines of s behind the first n.                                      *)
Beyond(s, n) == {s[i].id : i \in (n + 1)..Len(s)}

LEMMA TailIds ==
    ASSUME NEW s, IsSeq(s), NEW n \in 0..Len(s)
    PROVE  Ids(SubSeq(s, n + 1, Len(s))) = Beyond(s, n)
<1> DEFINE t == SubSeq(s, n + 1, Len(s))
<1>1. Len(s) \in Nat /\ n \in Nat /\ n <= Len(s)
  BY DEF IsSeq
<1>2. Len(t) = Len(s) - n /\ \A i \in 1..Len(t) : t[i] = s[n + i]
  <2>1. PICK S : s \in Seq(S)
    BY DEF IsSeq
  <2> QED BY <1>1, <2>1
<1>3. Len(t) \in Nat
  BY <1>1, <1>2
<1> HIDE DEF t
<1>4. ASSUME NEW i \in 1..Len(t) PROVE n + i \in (n + 1)..Len(s) /\ t[i] = s[n + i]
  BY <1>1, <1>2, <1>3
<1>5. ASSUME NEW k \in (n + 1)..Len(s) PROVE k - n \in 1..Len(t) /\ t[k - n] = s[k]
  <2>1. k - n \in 1..Len(t) /\ n + (k - n) = k
    BY <1>1, <1>2, <1>3
  <2> QED BY <1>2, <2>1
<1>6. Ids(t) \subseteq Beyond(s, n)
  BY <1>4 DEF Ids, Beyond
<1>7. Beyond(s, n) \subseteq Ids(t)
  BY <1>5 DEF Ids, Beyond
<1> QED BY <1>6, <1>7 DEF t

LEMMA AppendIds ==
    ASSUME NEW s, IsSeq(s), NEW l, NEW n \in 0..Len(s)
    PROVE  Beyond(Append(s, l), n) = Beyond(s, n) \cup {l.id}
<1> DEFINE t == Append(s, l)
<1>1. /\ Len(s) \in Nat /\ n \in Nat /\ n <= Len(s) /\ Len(t) = Len(s) + 1
      /\ \A i \in 1..Len(s) : t[i] = s[i]
      /\ t[Len(s) + 1] = l
  <2>1. PICK S : s \in Seq(S)
    BY DEF IsSeq
  <2> QED BY <2>1
<1> HIDE DEF t
<1>2. ASSUME NEW i \in (n + 1)..Len(t)
      PROVE  t[i].id \in Beyond(s, n) \cup {l.id}
  <2>1. CASE i = Len(s) + 1
    BY <1>1, <2>1
  <2>2. CASE i # Len(s) + 1
    <3>1. i \in (n + 1)..Len(s) /\ i \in 1..Len(s)
      BY <1>1, <2>2
    <3> QED BY <1>1, <3>1 DEF Beyond
  <2> QED BY <2>1, <2>2
<1>3. ASSUME NEW i \in (n + 1)..Len(s) PROVE s[i].id \in Beyond(t, n)
  <2>1. i \in (n + 1)..Len(t) /\ i \in 1..Len(s)
    BY <1>1
  <2> QED BY <1>1, <2>1 DEF Beyond
<1>4. l.id \in Beyond(t, n)
  <2>1. Len(s) + 1 \in (n + 1)..Len(t)
    BY <1>1
  <2> QED BY <1>1, <2>1 DEF Beyond
<1>5. Beyond(t, n) \subseteq Beyond(s, n) \cup {l.id}
  BY <1>2 DEF Beyond
<1>6. Beyond(s, n) \subseteq Beyond(t, n)
  BY <1>3 DEF Beyond
<1> QED BY <1>4, <1>5, <1>6 DEF t

LEMMA AllIds == ASSUME NEW s PROVE Beyond(s, 0) = Ids(s)
BY DEF Beyond, Ids

(* What a run has left to send, while it works and while it does not.      *)
LEMMA PendingParts ==
    ASSUME AInv
    PROVE  /\ Working => Pending = Beyond(run.cur, run.off) \cup Beyond(spool, run.raw)
           /\ ~Working => Pending = Ids(spool)
<1>1. ASSUME Working
      PROVE  Pending = Beyond(run.cur, run.off) \cup Beyond(spool, run.raw)
  <2>1. IsSeq(spool) /\ run.raw \in 0..Len(spool)
    BY <1>1 DEF AInv, IInv, Drained
  <2>2. Ids(Added) = Beyond(spool, run.raw)
    BY <2>1, TailIds DEF Added
  <2> QED BY <1>1, <2>2 DEF Pending, Working, Beyond
<1>2. ASSUME ~Working PROVE Pending = Ids(spool)
  BY <1>2 DEF Pending, Working, AInv, IInv, Typed, Shape, Pc
<1> QED BY <1>1, <1>2

(* The same of the next state.                                             *)
LEMMA PendingPartsNext ==
    ASSUME AInv'
    PROVE  /\ Working' => Pending' = Beyond(run'.cur, run'.off) \cup Beyond(spool', run'.raw)
           /\ ~Working' => Pending' = Ids(spool')
<1>1. ASSUME Working'
      PROVE  Pending' = Beyond(run'.cur, run'.off) \cup Beyond(spool', run'.raw)
  <2>1. IsSeq(spool') /\ run'.raw \in 0..Len(spool')
    BY <1>1 DEF AInv, IInv, Drained
  <2>2. Ids(Added') = Beyond(spool', run'.raw)
    BY <2>1, TailIds DEF Added
  <2> QED BY <1>1, <2>2 DEF Pending, Working, Beyond
<1>2. ASSUME ~Working' PROVE Pending' = Ids(spool')
  BY <1>2 DEF Pending, Working, AInv, IInv, Typed, Shape, Pc
<1> QED BY <1>1, <1>2

(* removeResolved, as a set.                                               *)
LEMMA RestIds ==
    ASSUME OInv, run.pc = "posting", NEW d
    PROVE  Ids(Rest(d)) = {run.cur[i].id : i \in {k \in (run.off + 1)..Len(run.cur) : k \notin d}}
<1> DEFINE I == {k \in 1..Len(run.cur) : k > run.off /\ k \notin d}
           J == {k \in (run.off + 1)..Len(run.cur) : k \notin d}
<1>1. IsSeq(run.cur) /\ Len(run.cur) \in Nat /\ run.off \in Nat
  BY DEF OInv, AInv, IInv, Typed, Shape, IsSeq
<1>2. I \cap 1..Len(run.cur) = J
  BY <1>1
<1>3. Rest(d) = At(run.cur, I)
  BY DEF Rest
<1> HIDE DEF I, J
<1>4. Picks(Rest(d), run.cur, I)
  BY <1>1, <1>3, AtLines
<1>5. \A i \in J : \E j \in 1..Len(Rest(d)) : Rest(d)[j] = run.cur[i]
  BY <1>2, <1>4 DEF Picks
<1>6. \A j \in 1..Len(Rest(d)) : \E i \in J : Rest(d)[j] = run.cur[i]
  BY <1>2, <1>4 DEF Picks
<1>7. Ids(Rest(d)) = {run.cur[i].id : i \in J}
  BY <1>5, <1>6 DEF Ids
<1> QED BY <1>7 DEF J

(* Where the lines of a run that posts stand: the chunk is the first of    *)
(* those in hand, and what came after Drain is newer than any of them.     *)
LEMMA PostingPlaces ==
    ASSUME OInv, run.pc = "posting"
    PROVE  /\ Delivered \in Nat /\ run.off + 1 <= Delivered /\ Delivered <= Len(run.cur)
           /\ Chunk = (run.off + 1)..Delivered
           /\ run.off \in Nat /\ Len(run.cur) \in Nat /\ run.raw \in Nat
           /\ \A i, k \in 1..Len(run.cur) : i < k => run.cur[i].id < run.cur[k].id
           /\ \A i \in 1..Len(run.cur) : run.cur[i].id \in Nat
           /\ \A i \in 1..Len(run.cur), k \in (run.raw + 1)..Len(spool) :
                 spool[k].id \in Nat /\ run.cur[i].id < spool[k].id
<1>1. /\ InOrder(spool) /\ InOrder(run.cur) /\ From(run.cur, spool, run.raw)
      /\ run.raw \in 0..Len(spool) /\ run.off < Len(run.cur)
  BY DEF OInv, AInv, IInv, Ordered, Drained, Working
<1>2. Len(spool) \in Nat /\ Len(run.cur) \in Nat /\ run.raw \in Nat
  BY <1>1 DEF InOrder, IsSeq
<1>3. run.off \in Nat /\ ChunkMax \in Nat \ {0}
  BY FlushAssumption DEF OInv, AInv, IInv, Typed, Shape
<1> DEFINE last == Least(run.off + ChunkMax, Len(run.cur))
<1>4. last \in Nat /\ run.off + 1 <= last /\ last <= Len(run.cur)
  <2>1. ASSUME NEW o \in Nat, NEW c \in Nat \ {0}, NEW n \in Nat, o < n
        PROVE  Least(o + c, n) \in Nat /\ o + 1 <= Least(o + c, n) /\ Least(o + c, n) <= n
    BY <2>1 DEF Least
  <2>2. run.off < Len(run.cur)
    BY <1>1
  <2> QED BY <1>2, <1>3, <2>1, <2>2
<1>5. Chunk = (run.off + 1)..last
  BY DEF Chunk
<1> HIDE DEF last
<1>6. Delivered = last
  <2> DEFINE first == run.off + 1
  <2>1. first \in Int /\ last \in Int /\ ~(first > last)
    BY <1>3, <1>4
  <2>2. Chunk = first..last
    BY <1>5
  <2> HIDE DEF first
  <2>3. Cardinality(Chunk) = last - first + 1
    BY <2>1, <2>2, FS_Interval
  <2> QED BY <1>3, <1>4, <2>3 DEF Delivered, first
<1>7. ASSUME NEW i \in 1..Len(run.cur), NEW k \in (run.raw + 1)..Len(spool)
      PROVE  spool[k].id \in Nat /\ run.cur[i].id < spool[k].id
  <2>1. PICK b \in 1..run.raw : run.cur[i].id = spool[b].id
    BY <1>1 DEF From
  <2>2. b \in 1..Len(spool) /\ k \in 1..Len(spool) /\ b < k
    BY <1>1, <1>2
  <2> QED BY <1>1, <2>1, <2>2 DEF InOrder
<1>8. /\ \A i, k \in 1..Len(run.cur) : i < k => run.cur[i].id < run.cur[k].id
      /\ \A i \in 1..Len(run.cur) : run.cur[i].id \in Nat
  BY <1>1 DEF InOrder
<1> QED BY <1>2, <1>3, <1>4, <1>5, <1>6, <1>7, <1>8

(* A request carries the oldest of what is left to send ...                *)
LEMMA ChunkOldest ==
    ASSUME OInv, run.pc = "posting"
    PROVE  \E n \in Pending : ChunkIds = {m \in Pending : m <= n}
<1> DEFINE last == Delivered
           n == run.cur[last].id
<1>1. /\ last \in Nat /\ run.off + 1 <= last /\ last <= Len(run.cur)
      /\ Chunk = (run.off + 1)..last
      /\ run.off \in Nat /\ Len(run.cur) \in Nat /\ run.raw \in Nat
      /\ \A i, k \in 1..Len(run.cur) : i < k => run.cur[i].id < run.cur[k].id
      /\ \A i \in 1..Len(run.cur) : run.cur[i].id \in Nat
      /\ \A i \in 1..Len(run.cur), k \in (run.raw + 1)..Len(spool) :
            spool[k].id \in Nat /\ run.cur[i].id < spool[k].id
  BY PostingPlaces
<1> HIDE DEF last
<1>2. Pending = Beyond(run.cur, run.off) \cup Beyond(spool, run.raw)
  BY PendingParts DEF Working, OInv
<1>3. last \in (run.off + 1)..Len(run.cur) /\ last \in 1..Len(run.cur)
  BY <1>1
<1>4. n \in Pending /\ n \in Nat
  BY <1>1, <1>2, <1>3 DEF Beyond
<1>5. ASSUME NEW i \in Chunk PROVE run.cur[i].id \in Pending /\ run.cur[i].id <= n
  <2>1. i \in (run.off + 1)..Len(run.cur) /\ i \in 1..Len(run.cur) /\ (i = last \/ i < last)
    BY <1>1
  <2>2. run.cur[i].id \in Nat /\ (run.cur[i].id = n \/ run.cur[i].id < n)
    BY <1>1, <1>3, <2>1
  <2>3. run.cur[i].id \in Pending
    BY <1>2, <2>1 DEF Beyond
  <2>4. ASSUME NEW x \in Nat, NEW y \in Nat, x = y \/ x < y PROVE x <= y
    BY <2>4
  <2> QED BY <1>4, <2>2, <2>3, <2>4
<1>6. ASSUME NEW m \in Pending, m <= n PROVE m \in ChunkIds
  <2>1. CASE m \in Beyond(run.cur, run.off)
    <3>1. PICK i \in (run.off + 1)..Len(run.cur) : m = run.cur[i].id
      BY <2>1 DEF Beyond
    <3>2. i \in 1..Len(run.cur) /\ m \in Nat
      BY <1>1, <3>1
    <3>3. ~(last < i)
      <4>1. ASSUME NEW x \in Nat, NEW y \in Nat, x <= y PROVE ~(y < x)
        BY <4>1
      <4>2. ~(n < m)
        BY <1>4, <1>6, <3>2, <4>1
      <4>3. last < i => n < m
        BY <1>1, <1>3, <3>1, <3>2
      <4> QED BY <4>2, <4>3
    <3>4. i \in Chunk
      BY <1>1, <3>2, <3>3
    <3> QED BY <3>1, <3>4 DEF ChunkIds
  <2>2. CASE m \in Beyond(spool, run.raw)
    <3>1. PICK k \in (run.raw + 1)..Len(spool) : m = spool[k].id
      BY <2>2 DEF Beyond
    <3>2. m \in Nat /\ n < m
      BY <1>1, <1>3, <3>1
    <3> QED BY <1>4, <1>6, <3>2
  <2> QED BY <1>2, <2>1, <2>2
<1>7. ChunkIds = {m \in Pending : m <= n}
  BY <1>5, <1>6 DEF ChunkIds
<1> HIDE DEF n
<1> QED BY <1>4, <1>7

(* ... and leaves the rest.                                                *)
LEMMA ChunkLeaves ==
    ASSUME OInv, run.pc = "posting"
    PROVE  Pending \ ChunkIds = Beyond(run.cur, Delivered) \cup Beyond(spool, run.raw)
<1> DEFINE last == Delivered
<1>1. /\ last \in Nat /\ run.off + 1 <= last /\ last <= Len(run.cur)
      /\ Chunk = (run.off + 1)..last
      /\ run.off \in Nat /\ Len(run.cur) \in Nat /\ run.raw \in Nat
      /\ \A i, k \in 1..Len(run.cur) : i < k => run.cur[i].id < run.cur[k].id
      /\ \A i \in 1..Len(run.cur) : run.cur[i].id \in Nat
      /\ \A i \in 1..Len(run.cur), k \in (run.raw + 1)..Len(spool) :
            spool[k].id \in Nat /\ run.cur[i].id < spool[k].id
  BY PostingPlaces
<1> HIDE DEF last
<1>2. Pending = Beyond(run.cur, run.off) \cup Beyond(spool, run.raw)
  BY PendingParts DEF Working, OInv
<1>3. ASSUME NEW i \in (last + 1)..Len(run.cur)
      PROVE  run.cur[i].id \in Beyond(run.cur, run.off) \ ChunkIds
  <2>1. i \in (run.off + 1)..Len(run.cur) /\ i \in 1..Len(run.cur)
    BY <1>1
  <2>2. ASSUME NEW c \in Chunk PROVE run.cur[c].id # run.cur[i].id
    <3>1. c \in 1..Len(run.cur) /\ c < i
      BY <1>1
    <3> QED BY <1>1, <2>1, <3>1
  <2> QED BY <2>1, <2>2 DEF Beyond, ChunkIds
<1>4. ASSUME NEW k \in (run.raw + 1)..Len(spool)
      PROVE  spool[k].id \in Beyond(spool, run.raw) \ ChunkIds
  <2>1. ASSUME NEW c \in Chunk PROVE run.cur[c].id # spool[k].id
    <3>1. c \in 1..Len(run.cur)
      BY <1>1
    <3>2. ASSUME NEW x \in Nat, NEW y \in Nat, x < y PROVE x # y
      BY <3>2
    <3>3. run.cur[c].id \in Nat /\ spool[k].id \in Nat /\ run.cur[c].id < spool[k].id
      BY <1>1, <3>1
    <3> QED BY <3>2, <3>3
  <2> QED BY <2>1 DEF Beyond, ChunkIds
<1>5. ASSUME NEW i \in (run.off + 1)..Len(run.cur), run.cur[i].id \notin ChunkIds
      PROVE  i \in (last + 1)..Len(run.cur)
  <2>1. i \notin Chunk
    BY <1>5 DEF ChunkIds
  <2> QED BY <1>1, <2>1
<1>6. Beyond(run.cur, run.off) \ ChunkIds \subseteq Beyond(run.cur, last)
  BY <1>5 DEF Beyond
<1>7. Beyond(run.cur, last) \subseteq Beyond(run.cur, run.off) \ ChunkIds
  BY <1>3 DEF Beyond
<1>8. Beyond(spool, run.raw) \ ChunkIds = Beyond(spool, run.raw)
  BY <1>4 DEF Beyond
<1>9. Pending \ ChunkIds = Beyond(run.cur, last) \cup Beyond(spool, run.raw)
  BY <1>2, <1>6, <1>7, <1>8
<1> QED BY <1>9 DEF last

DeliveryStep == Promise!Next \/ UNCHANGED Promise!vars

(* A hook's line is accepted, whether a run has drained the others or not. *)
LEMMA HookDelivers == OInv /\ AInv' /\ HookAppends => DeliveryStep
<1> SUFFICES ASSUME OInv, AInv', HookAppends PROVE Promise!Accept
  BY DEF DeliveryStep, Promise!Next
<1>1. PICK k \in Kinds : spool' = Append(spool, [id |-> spooled + 1, session |-> "s",
                           helper |-> k.helper, type |-> k.type, ts |-> now])
  BY DEF HookAppends
<1>2. PICK l : l = [id |-> spooled + 1, session |-> "s",
                    helper |-> k.helper, type |-> k.type, ts |-> now]
  OBVIOUS
<1>3. spool' = Append(spool, l) /\ l.id = spooled' /\ spooled' = spooled + 1
  BY <1>1, <1>2 DEF HookAppends
<1>4. UNCHANGED <<run, answered, taken>>
  BY DEF HookAppends, flushHist
<1>5. IsSeq(spool) /\ 0 \in 0..Len(spool) /\ (Working => run.raw \in 0..Len(spool))
  BY DEF OInv, AInv, IInv, Drained, IsSeq
<1>6. Ids(spool') = Ids(spool) \cup {spooled'}
  BY <1>3, <1>5, AppendIds, AllIds
<1>7. Pending' = Pending \cup {spooled'}
  <2>1. CASE Working
    <3>1. Beyond(spool', run.raw) = Beyond(spool, run.raw) \cup {spooled'}
      BY <1>3, <1>5, <2>1, AppendIds
    <3>2. Working' /\ Pending = Beyond(run.cur, run.off) \cup Beyond(spool, run.raw)
      BY <1>4, <2>1, PendingParts DEF Working, OInv
    <3>3. Pending' = Beyond(run.cur, run.off) \cup Beyond(spool', run.raw)
      BY <1>4, <3>2, PendingPartsNext
    <3> QED BY <3>1, <3>2, <3>3
  <2>2. CASE ~Working
    <3>1. ~Working' /\ Pending = Ids(spool)
      BY <1>4, <2>2, PendingParts DEF Working, OInv
    <3> QED BY <1>6, <3>1, PendingPartsNext
  <2> QED BY <2>1, <2>2
<1> QED BY <1>3, <1>4, <1>6, <1>7 DEF Promise!Accept

(* Steps that move no line.                                                *)
LEMMA SamePending ==
    ASSUME AInv, AInv', UNCHANGED <<spool, spooled, answered, taken>>, Pending' = Pending
    PROVE  DeliveryStep
<1>1. Ids(spool)' = Ids(spool)
  BY DEF Ids
<1> QED BY <1>1 DEF DeliveryStep, Promise!vars

LEMMA LoopDelivers ==
    ASSUME OInv, AInv', Tick \/ RunUnpaired \/ LoopEnds \/ PostEvents \/ Wakes \/ SleepCut
    PROVE  DeliveryStep
<1>1. AInv /\ Shape(run) /\ (run.pc \in {"loop", "sleeping"} => run.off = 0)
  BY DEF OInv, AInv, IInv, Typed
<1>2. UNCHANGED <<spool, spooled, answered, taken>>
  BY DEF Tick, RunUnpaired, LoopEnds, PostEvents, Wakes, SleepCut, flushHist
<1>3. \/ run' = run
      \/ /\ run'.cur = run.cur /\ run'.raw = run.raw /\ run'.off = run.off
         /\ Working /\ Working'
  <2>1. CASE Tick \/ RunUnpaired
    BY <2>1 DEF Tick, RunUnpaired
  <2>2. CASE LoopEnds \/ PostEvents \/ SleepCut
    BY <1>1, <2>2 DEF LoopEnds, PostEvents, SleepCut, Shape, Working
  <2>3. CASE Wakes
    BY <1>1, <2>3 DEF Wakes, Shape, States, Working
  <2> QED BY <2>1, <2>2, <2>3
<1>4. Pending' = Pending
  <2>1. CASE run' = run
    BY <1>2, <2>1 DEF Pending, Ids, Added
  <2>2. CASE /\ run'.cur = run.cur /\ run'.raw = run.raw /\ run'.off = run.off
             /\ Working /\ Working'
    BY <1>1, <1>2, <2>2, PendingParts, PendingPartsNext
  <2> QED BY <1>3, <2>1, <2>2
<1> QED BY <1>1, <1>2, <1>4, SamePending

(* What a run drops before it sends.                                       *)
LEMMA RunStartsDelivers == OInv /\ AInv' /\ RunStarts => DeliveryStep
<1> SUFFICES ASSUME OInv, AInv', RunStarts PROVE Promise!GiveUp
  BY DEF DeliveryStep, Promise!Next
<1> DEFINE batch == ToSend(spool)
           r == [Idle EXCEPT !.cur = batch, !.raw = Len(spool), !.deadline = now + Budget]
           S == Ids(spool) \ Ids(batch)
<1>1. /\ run.pc = "idle" /\ answered' = answered \cup S
      /\ UNCHANGED <<spool, spooled, taken>>
      /\ run' = IF RateLimited(st, now)
                THEN [r EXCEPT !.pc = "committing", !.outcome = "failed"]
                ELSE [r EXCEPT !.pc = "loop", !.mem.rlUntil = 0]
  BY DEF RunStarts
<1>2. From(batch, spool, Len(spool))
  BY ToSendOrdered DEF OInv, Ordered
<1> HIDE DEF batch
<1>3. Len(spool) \in Nat /\ now + Budget \in Nat
  BY FlushAssumption DEF OInv, AInv, IInv, Typed, IsSeq
<1>4. Shape(r) /\ r.cur = batch /\ r.raw = Len(spool) /\ r.off = 0
  BY <1>3, IdleShape DEF OInv, AInv, Shape
<1> HIDE DEF r
<1>5. /\ run'.cur = batch /\ run'.raw = Len(spool) /\ run'.off = 0
      /\ run'.pc \in {"loop", "committing"}
  BY <1>1, <1>4 DEF Shape
<1>6. Ids(batch) \subseteq Ids(spool)
  BY <1>2 DEF From, Ids
<1>7. Pending = Ids(spool)
  BY <1>1 DEF Pending
<1>8. Pending' = Ids(batch)
  <2>1. Beyond(spool, Len(spool)) = {}
    <3>1. \A i \in (Len(spool) + 1)..Len(spool) : FALSE
      BY <1>3
    <3> QED BY <3>1 DEF Beyond
  <2>2. Pending' = Beyond(batch, 0) \cup Beyond(spool, Len(spool))
    BY <1>1, <1>5, PendingPartsNext DEF Working
  <2> QED BY <2>1, <2>2, AllIds
<1>9. S \subseteq Pending /\ Pending' = Pending \ S
  BY <1>6, <1>7, <1>8
<1>10. Ids(spool)' = Ids(spool)
  BY <1>1 DEF Ids
<1> HIDE DEF S
<1>11. S \in SUBSET Pending
  BY <1>9
<1> QED BY <1>1, <1>9, <1>10, <1>11 DEF Promise!GiveUp, Promise!Settle

(* A 2xx.                                                                  *)
LEMMA AnswerOKDelivers == OInv /\ AInv' /\ AnswerOK => DeliveryStep
<1> SUFFICES ASSUME OInv, AInv', AnswerOK PROVE Promise!Send
  BY DEF DeliveryStep, Promise!Next
<1>1. /\ run.pc = "posting" /\ Shape(run) /\ UNCHANGED <<spool, spooled>>
      /\ taken' = taken \cup ChunkIds /\ answered' = answered \cup ChunkIds
  BY DEF AnswerOK, Answerable, OInv, AInv, IInv, Typed
<1>2. PICK n \in Pending : ChunkIds = {m \in Pending : m <= n}
  BY <1>1, ChunkOldest
<1>3. Pending \ ChunkIds = Beyond(run.cur, Delivered) \cup Beyond(spool, run.raw)
  BY <1>1, ChunkLeaves
<1>4. Delivered \in Nat /\ Delivered <= Len(run.cur) /\ Len(run.cur) \in Nat
  BY <1>1, PostingPlaces
<1>5. /\ run'.raw = run.raw /\ run'.pc \in {"posting", "committing"}
      /\ Beyond(run'.cur, run'.off) = Beyond(run.cur, Delivered)
  <2>1. CASE Delivered < Len(run.cur)
    <3>1. run' = [run EXCEPT !.off = Delivered]
      BY <2>1 DEF AnswerOK
    <3>2. /\ run'.raw = run.raw /\ run'.pc = "posting" /\ run'.cur = run.cur
          /\ run'.off = Delivered
      BY <1>1, <3>1 DEF Shape
    <3> QED BY <3>2
  <2>2. CASE ~(Delivered < Len(run.cur))
    <3>1. run' = [run EXCEPT !.pc = "committing", !.off = Delivered, !.cur = <<>>,
                             !.mem.c401 = 0, !.outcome = "ok"]
      BY <2>2 DEF AnswerOK
    <3>2. /\ run'.raw = run.raw /\ run'.pc = "committing" /\ run'.cur = <<>>
          /\ run'.off = Delivered
      BY <1>1, <3>1 DEF Shape
    <3>3. (Delivered + 1)..Len(run.cur) = {} /\ (Delivered + 1)..Len(<<>>) = {}
      <4>1. ASSUME NEW d \in Nat, NEW c \in Nat, d <= c, ~(d < c)
            PROVE  (d + 1)..c = {} /\ (d + 1)..0 = {}
        BY <4>1
      <4> QED BY <1>4, <2>2, <4>1
    <3> QED BY <3>2, <3>3 DEF Beyond
  <2> QED BY <2>1, <2>2
<1>6. Pending' = Pending \ ChunkIds
  BY <1>1, <1>3, <1>5, PendingPartsNext DEF Working
<1>7. Ids(spool)' = Ids(spool)
  BY <1>1 DEF Ids
<1> HIDE DEF AnswerOK
<1> QED BY <1>1, <1>2, <1>6, <1>7 DEF Promise!Send, Promise!Settle, Promise!Oldest

(* A request that fails: the named line or the marks alone are given up.   *)
LEMMA FailedDelivers ==
    ASSUME OInv, AInv',
           \/ Answer400 \/ Answer400Subagent \/ Answer400Unnamed
           \/ Answer401InGrace \/ Answer401 \/ Answer429 \/ Answer5xx \/ NoAnswer
    PROVE  DeliveryStep
<1>1. /\ run.pc = "posting" /\ run'.pc \in {"loop", "sleeping", "committing"}
      /\ run'.raw = run.raw /\ run'.off = 0 /\ UNCHANGED <<spool, spooled>>
      /\ taken' = taken \/ taken' = taken \cup ChunkIds
      /\ \/ /\ run'.cur = StripSubagents(Rest({})) /\ taken' = taken
            /\ answered' = answered \cup (Ids(Rest({})) \ Ids(run'.cur))
         \/ /\ \E i \in Chunk : /\ run'.cur = Rest({i})
                                /\ answered' = answered \cup {run.cur[i].id}
            /\ taken' = taken
         \/ run'.cur = Rest({}) /\ answered' = answered
  <2>1. IInv
    BY DEF OInv, AInv
  <2> QED BY <2>1, FailedShape
<1>2. Ids(spool)' = Ids(spool)
  BY <1>1 DEF Ids
<1>3. Pending = Beyond(run.cur, run.off) \cup Beyond(spool, run.raw)
  BY <1>1, PendingParts DEF Working, OInv
<1>4. Pending' = Ids(run'.cur) \cup Beyond(spool, run.raw)
  BY <1>1, PendingPartsNext, AllIds DEF Working
<1>5. Ids(Rest({})) = Beyond(run.cur, run.off)
  BY <1>1, RestIds DEF Beyond
<1>6. \A k \in (run.off + 1)..Len(run.cur) : run.cur[k].id \notin Beyond(spool, run.raw)
  <2> SUFFICES ASSUME NEW k \in (run.off + 1)..Len(run.cur), NEW j \in (run.raw + 1)..Len(spool)
               PROVE  run.cur[k].id # spool[j].id
    BY DEF Beyond
  <2>1. k \in 1..Len(run.cur)
    BY <1>1, PostingPlaces
  <2>2. run.cur[k].id \in Nat /\ spool[j].id \in Nat /\ run.cur[k].id < spool[j].id
    BY <1>1, <2>1, PostingPlaces
  <2>3. ASSUME NEW x \in Nat, NEW y \in Nat, x < y PROVE x # y
    BY <2>3
  <2> QED BY <2>2, <2>3
<1>7. Beyond(run.cur, run.off) \cap Beyond(spool, run.raw) = {}
  BY <1>6 DEF Beyond
(* Giving up S: what a 400 does.                                           *)
<1>8. ASSUME NEW S, S \subseteq Ids(Rest({})), Ids(run'.cur) = Ids(Rest({})) \ S,
             answered' = answered \cup S, taken' = taken
      PROVE  DeliveryStep
  <2>1. S \in SUBSET Pending /\ Pending' = Pending \ S
    BY <1>3, <1>4, <1>5, <1>7, <1>8
  <2>2. Promise!GiveUp
    BY <1>1, <1>2, <1>8, <2>1 DEF Promise!GiveUp, Promise!Settle
  <2> QED BY <2>2 DEF DeliveryStep, Promise!Next
<1>9. CASE /\ run'.cur = StripSubagents(Rest({})) /\ taken' = taken
           /\ answered' = answered \cup (Ids(Rest({})) \ Ids(run'.cur))
  <2> DEFINE rest == Rest({})
  <2>1. InOrder(rest)
    BY <1>1, RestOrdered DEF Working
  <2> HIDE DEF rest
  <2>2. From(StripSubagents(rest), rest, Len(rest))
    BY <2>1, StripOrdered
  <2>3. Ids(StripSubagents(rest)) \subseteq Ids(rest)
    BY <2>2 DEF From, Ids
  <2>4. Ids(run'.cur) \subseteq Ids(Rest({}))
    BY <1>9, <2>3 DEF rest
  <2> QED BY <1>8, <1>9, <2>4
<1>10. CASE /\ \E i \in Chunk : /\ run'.cur = Rest({i})
                                /\ answered' = answered \cup {run.cur[i].id}
            /\ taken' = taken
  <2>1. PICK i \in Chunk : run'.cur = Rest({i}) /\ answered' = answered \cup {run.cur[i].id}
    BY <1>10
  <2>2. i \in (run.off + 1)..Len(run.cur)
    BY <1>1, PostingPlaces
  <2>3. Ids(Rest({i})) = {run.cur[k].id : k \in {m \in (run.off + 1)..Len(run.cur) : m \notin {i}}}
    BY <1>1, RestIds
  <2>4. \A k \in (run.off + 1)..Len(run.cur) : k # i => run.cur[k].id # run.cur[i].id
    <3> SUFFICES ASSUME NEW k \in (run.off + 1)..Len(run.cur), k # i
                 PROVE  run.cur[k].id # run.cur[i].id
      OBVIOUS
    <3>1. k \in 1..Len(run.cur) /\ i \in 1..Len(run.cur) /\ (k < i \/ i < k)
      BY <1>1, <2>2, PostingPlaces
    <3>2. /\ run.cur[k].id \in Nat /\ run.cur[i].id \in Nat
          /\ run.cur[k].id < run.cur[i].id \/ run.cur[i].id < run.cur[k].id
      BY <1>1, <3>1, PostingPlaces
    <3>3. ASSUME NEW x \in Nat, NEW y \in Nat, x < y \/ y < x PROVE x # y
      BY <3>3
    <3> QED BY <3>2, <3>3
  <2>5. Ids(Rest({i})) = Beyond(run.cur, run.off) \ {run.cur[i].id}
    BY <2>3, <2>4 DEF Beyond
  <2>6. {run.cur[i].id} \subseteq Beyond(run.cur, run.off)
    BY <2>2 DEF Beyond
  <2> QED BY <1>5, <1>8, <1>10, <2>1, <2>5, <2>6
<1>11. CASE run'.cur = Rest({}) /\ answered' = answered
  <2>1. Pending' = Pending
    BY <1>3, <1>4, <1>5, <1>11
  <2>2. CASE taken' = taken
    BY <1>1, <1>11, <2>1, <2>2, SamePending DEF OInv
  <2>3. CASE taken' = taken \cup ChunkIds
    <3>1. PICK n \in Pending : ChunkIds = {m \in Pending : m <= n}
      BY <1>1, ChunkOldest
    <3>2. Promise!Send
      BY <1>1, <1>2, <1>11, <2>1, <2>3, <3>1 DEF Promise!Send, Promise!Oldest
    <3> QED BY <3>2 DEF DeliveryStep, Promise!Next
  <2> QED BY <1>1, <2>2, <2>3
<1> QED BY <1>1, <1>9, <1>10, <1>11

(* commit writes back what is left to send.                                *)
LEMMA CommitDelivers == DInv /\ AInv' /\ Commit => DeliveryStep
<1> SUFFICES ASSUME DInv, AInv', Commit PROVE Promise!WriteBack
  BY DEF DeliveryStep, Promise!Next
<1>1. /\ run.pc = "committing" /\ spool' = run.cur \o Added
      /\ UNCHANGED <<spooled, answered, taken>>
  BY DEF Commit, Recommitted
<1>2. /\ run.raw \in 0..Len(spool) /\ IsSeq(spool) /\ IsSeq(run.cur)
      /\ run.off \in Nat /\ (run.off = 0 \/ run.cur = <<>>)
  BY <1>1 DEF DInv, OInv, AInv, IInv, Typed, Shape, Drained, Working
<1>3. run.raw \in Nat /\ IsSeq(Added) /\ Ids(Added) = Beyond(spool, run.raw)
  <2>1. run.raw \in Nat
    BY <1>2
  <2>2. IsSeq(Added)
    BY <1>2, <2>1, TailIsSeq DEF Added
  <2>3. Ids(Added) = Beyond(spool, run.raw)
    BY <1>2, TailIds DEF Added
  <2> QED BY <2>1, <2>2, <2>3
<1>4. Pending = Beyond(run.cur, run.off) \cup Ids(Added)
  BY <1>1, <1>3, PendingParts DEF Working, DInv, OInv
<1>5. Beyond(run.cur, run.off) = Ids(run.cur)
  <2>1. CASE run.off = 0
    BY <2>1, AllIds
  <2>2. CASE run.cur = <<>>
    <3>1. (run.off + 1)..Len(run.cur) = {} /\ 1..Len(run.cur) = {}
      BY <1>2, <2>2
    <3> QED BY <3>1 DEF Beyond, Ids
  <2> QED BY <1>2, <2>1, <2>2
<1>6. Ids(spool') = Ids(run.cur) \cup Ids(Added)
  <2> DEFINE t == run.cur \o Added
             a == Added
  <2>1. /\ Len(run.cur) \in Nat /\ Len(a) \in Nat /\ Len(t) = Len(run.cur) + Len(a)
        /\ \A i \in 1..Len(run.cur) : t[i] = run.cur[i]
        /\ \A i \in 1..Len(a) : t[Len(run.cur) + i] = a[i]
    BY <1>2, <1>3, ConcatIsSeq DEF IsSeq
  <2> HIDE DEF t, a
  <2>2. ASSUME NEW i \in 1..Len(t) PROVE t[i].id \in Ids(run.cur) \cup Ids(a)
    <3>1. CASE i \in 1..Len(run.cur)
      BY <2>1, <3>1 DEF Ids
    <3>2. CASE i \notin 1..Len(run.cur)
      <4>1. PICK j \in 1..Len(a) : i = Len(run.cur) + j
        <5>1. i - Len(run.cur) \in 1..Len(a) /\ i = Len(run.cur) + (i - Len(run.cur))
          BY <2>1, <3>2
        <5> QED BY <5>1
      <4> QED BY <2>1, <4>1 DEF Ids
    <3> QED BY <3>1, <3>2
  <2>3. ASSUME NEW i \in 1..Len(run.cur) PROVE run.cur[i].id \in Ids(t)
    <3>1. i \in 1..Len(t)
      BY <2>1
    <3> QED BY <2>1, <3>1 DEF Ids
  <2>4. ASSUME NEW j \in 1..Len(a) PROVE a[j].id \in Ids(t)
    <3>1. Len(run.cur) + j \in 1..Len(t)
      BY <2>1
    <3> QED BY <2>1, <3>1 DEF Ids
  <2>5. Ids(t) \subseteq Ids(run.cur) \cup Ids(a)
    BY <2>2 DEF Ids
  <2>6. Ids(run.cur) \subseteq Ids(t) /\ Ids(a) \subseteq Ids(t)
    BY <2>3, <2>4 DEF Ids
  <2>7. Ids(t) = Ids(run.cur) \cup Ids(a)
    BY <2>5, <2>6
  <2> QED BY <1>1, <2>7 DEF t, a
<1>7. run'.pc = "saving"
  BY DEF Commit, Idle
<1>8. Ids(spool') = Pending /\ Pending' = Ids(spool')
  BY <1>4, <1>5, <1>6, <1>7 DEF Pending
<1>9. Ids(spool)' = Ids(spool')
  BY DEF Ids
<1> QED BY <1>1, <1>8, <1>9 DEF Promise!WriteBack

(* A run that ends leaves the file, and one that dies falls back on it.    *)
LEMMA EndDelivers == ASSUME OInv, AInv', SaveState \/ Crash PROVE DeliveryStep
<1>1. UNCHANGED <<spool, spooled, answered, taken>> /\ run'.pc = "idle"
  BY DEF SaveState, Crash, Idle, flushHist
<1>2. Ids(spool)' = Ids(spool) /\ Pending' = Ids(spool)
  BY <1>1 DEF Pending, Ids
<1>3. Promise!Die
  BY <1>1, <1>2 DEF Promise!Die
<1> QED BY <1>3 DEF DeliveryStep, Promise!Next

LEMMA DInvStep == DInv /\ OInv' /\ [Next]_vars => DInv'
<1> SUFFICES ASSUME DInv, OInv', [Next]_vars, run'.pc = "committing"
             PROVE  run'.off = 0 \/ run'.cur = <<>>
  BY DEF DInv
<1>1. Shape(run) /\ IInv /\ (run.pc \in {"loop", "sleeping"} => run.off = 0)
  BY DEF DInv, OInv, AInv, IInv, Typed
<1>2. CASE HookAppends \/ Tick \/ RunUnpaired \/ UNCHANGED vars
  <2>1. run' = run
    BY <1>2 DEF HookAppends, Tick, RunUnpaired, vars
  <2> QED BY <2>1 DEF DInv
<1>3. CASE RunStarts
  <2> DEFINE batch == ToSend(spool)
             r == [Idle EXCEPT !.cur = batch, !.raw = Len(spool), !.deadline = now + Budget]
  <2>1. run' = IF RateLimited(st, now)
               THEN [r EXCEPT !.pc = "committing", !.outcome = "failed"]
               ELSE [r EXCEPT !.pc = "loop", !.mem.rlUntil = 0]
    BY <1>3 DEF RunStarts
  <2> HIDE DEF batch
  <2>2. r.off = 0 /\ "off" \in DOMAIN r
    BY DEF Idle
  <2> HIDE DEF r
  <2> QED BY <2>1, <2>2
<1>4. CASE LoopEnds \/ SleepCut
  BY <1>1, <1>4 DEF LoopEnds, SleepCut, Shape
<1>5. CASE PostEvents \/ Wakes \/ Commit \/ SaveState \/ Crash
  <2>1. CASE PostEvents \/ Wakes
    BY <1>1, <2>1 DEF PostEvents, Wakes, Shape
  <2>2. CASE Commit
    BY <2>2 DEF Commit, Idle
  <2>3. CASE SaveState \/ Crash
    <3>1. run'.pc = "idle"
      BY <2>3 DEF SaveState, Crash, Idle
    <3> QED BY <3>1
  <2> QED BY <1>5, <2>1, <2>2, <2>3
<1>6. CASE AnswerOK
  <2>1. CASE Delivered < Len(run.cur)
    BY <1>1, <1>6, <2>1 DEF AnswerOK, Answerable, Shape
  <2>2. CASE ~(Delivered < Len(run.cur))
    <3>1. run' = [run EXCEPT !.pc = "committing", !.off = Delivered, !.cur = <<>>,
                             !.mem.c401 = 0, !.outcome = "ok"]
      BY <1>6, <2>2 DEF AnswerOK
    <3> QED BY <1>1, <3>1 DEF Shape
  <2> QED BY <2>1, <2>2
<1>7. CASE \/ Answer400 \/ Answer400Subagent \/ Answer400Unnamed
           \/ Answer401InGrace \/ Answer401 \/ Answer429 \/ Answer5xx \/ NoAnswer
  BY <1>1, <1>7, FailedShape
<1> QED BY <1>2, <1>3, <1>4, <1>5, <1>6, <1>7 DEF Next, Step

(* The flusher (flush.go, PostEvents, Drain and commit) implements module  *)
(* Delivery, whatever the relay answers and wherever a run dies: a line is *)
(* on disk until it is settled, the relay gets the oldest lines that are   *)
(* left first, and a settled line is sent again only after a death.        *)
THEOREM FlushImplementsDelivery == Spec => DeliveryKept
<1>1. Init => DInv
  BY InitOInv DEF Init, DInv, Idle
<1>2. Init => Promise!Init
  BY DEF Init, Promise!Init, Pending, Ids, Idle
<1>3. DInv /\ OInv' /\ [Next]_vars => DeliveryStep
  <2> SUFFICES ASSUME DInv, OInv', [Next]_vars PROVE DeliveryStep
    OBVIOUS
  <2>1. OInv /\ AInv /\ AInv'
    BY DEF DInv, OInv
  <2>2. CASE UNCHANGED vars
    <3>1. UNCHANGED <<spool, spooled, answered, taken, run>>
      BY <2>2 DEF vars
    <3>2. Pending' = Pending
      BY <3>1 DEF Pending, Ids, Added
    <3> QED BY <2>1, <3>1, <3>2, SamePending
  <2> QED BY <2>1, <2>2, HookDelivers, LoopDelivers, RunStartsDelivers, CommitDelivers,
             EndDelivers, AnswerOKDelivers, FailedDelivers DEF Next, Step
<1>4. DInv /\ OInv' /\ [Next]_vars => [Promise!Next]_(Promise!vars)
  BY <1>3 DEF DeliveryStep
<1> QED BY <1>1, <1>2, <1>4, DInvStep, FlushOrder, PTL DEF Spec, DeliveryKept, Promise!Spec

-----------------------------------------------------------------------------
(* A finite set of numbers that is not empty has a greatest.               *)
LEMMA Latest ==
    ASSUME NEW C \in SUBSET Nat, IsFiniteSet(C), C # {}
    PROVE  \E m \in C : \A k \in C : k <= m
<1>1. /\ Cardinality(C) \in Nat
      /\ \A i \in C : RankIn(C, i) \in 1..Cardinality(C)
      /\ \A i, k \in C : i < k => RankIn(C, i) < RankIn(C, k)
      /\ \A r \in 1..Cardinality(C) : \E i \in C : RankIn(C, i) = r
  BY Ranks
<1>2. Cardinality(C) \in 1..Cardinality(C)
  <2>1. Cardinality(C) # 0
    BY FS_EmptySet
  <2> QED BY <1>1, <2>1
<1>3. PICK m \in C : RankIn(C, m) = Cardinality(C)
  BY <1>1, <1>2
<1>4. \A k \in C : ~(m < k)
  <2> SUFFICES ASSUME NEW k \in C, m < k PROVE FALSE
    OBVIOUS
  <2>1. RankIn(C, k) \in 1..Cardinality(C) /\ Cardinality(C) < RankIn(C, k)
    BY <1>1, <1>3
  <2> QED BY <1>1, <2>1
<1>5. \A k \in C : k \in Nat /\ m \in Nat
  OBVIOUS
<1> QED BY <1>4, <1>5

(* A line's place among lines in order is its number's rank.               *)
LEMMA PlaceIsRank ==
    ASSUME NEW s, InOrder(s), NEW i \in 1..Len(s)
    PROVE  RankIn(Ids(s), s[i].id) = i
<1> DEFINE U == {k \in Ids(s) : k <= s[i].id}
           f == [j \in 1..i |-> s[j].id]
<1>1. Len(s) \in Nat /\ i \in Nat /\ 1..i \subseteq 1..Len(s)
  BY DEF InOrder, IsSeq
<1>2. \A j, k \in 1..Len(s) : s[j].id \in Nat /\ (j < k => s[j].id < s[k].id)
  BY DEF InOrder
<1>3. \A j \in 1..i : s[j].id \in U
  <2> SUFFICES ASSUME NEW j \in 1..i PROVE s[j].id \in U
    OBVIOUS
  <2>1. j \in 1..Len(s) /\ (j < i \/ j = i)
    BY <1>1
  <2>2. s[j].id <= s[i].id
    BY <1>2, <2>1
  <2> QED BY <2>1, <2>2 DEF Ids
<1>4. \A x \in U : \E j \in 1..i : s[j].id = x
  <2> SUFFICES ASSUME NEW x \in U PROVE \E j \in 1..i : s[j].id = x
    OBVIOUS
  <2>1. PICK j \in 1..Len(s) : s[j].id = x
    BY DEF Ids
  <2>2. s[j].id <= s[i].id
    BY <2>1
  <2>3. ~(i < j)
    <3> SUFFICES ASSUME i < j PROVE FALSE
      OBVIOUS
    <3>1. s[i].id < s[j].id /\ s[i].id \in Nat /\ s[j].id \in Nat
      BY <1>2
    <3> QED BY <2>2, <3>1
  <2>4. j \in 1..i
    BY <1>1, <2>3
  <2> QED BY <2>1, <2>4
<1>5. \A j, k \in 1..i : s[j].id = s[k].id => j = k
  <2> SUFFICES ASSUME NEW j \in 1..i, NEW k \in 1..i, s[j].id = s[k].id PROVE j = k
    OBVIOUS
  <2>1. j \in 1..Len(s) /\ k \in 1..Len(s) /\ j \in Nat /\ k \in Nat
    BY <1>1
  <2>2. ~(j < k) /\ ~(k < j)
    BY <1>2, <2>1
  <2> QED BY <2>1, <2>2
<1>6. RankIn(Ids(s), s[i].id) = Cardinality(U)
  BY DEF RankIn
<1> HIDE DEF U
<1>7. f \in Bijection(1..i, U)
  BY <1>3, <1>4, <1>5 DEF Bijection, Injection, Surjection, IsInjective
<1> HIDE DEF f
<1>8. IsFiniteSet(1..i) /\ Cardinality(1..i) = i
  BY <1>1, FS_Interval
<1>9. Cardinality(U) = Cardinality(1..i)
  <2>1. ExistsBijection(1..i, U)
    BY <1>7 DEF ExistsBijection
  <2> QED BY <1>8, <2>1, FS_Bijection
<1> QED BY <1>6, <1>8, <1>9

Lines(s) == {s[i] : i \in 1..Len(s)}

(* Lines in order are determined by which they are.                        *)
LEMMA SameLines ==
    ASSUME NEW a, NEW b, InOrder(a), InOrder(b), Lines(a) = Lines(b)
    PROVE  a = b
<1>1. /\ Ids(a) = {l.id : l \in Lines(a)} /\ Ids(b) = {l.id : l \in Lines(b)}
  BY DEF Ids, Lines
<1>2. Ids(a) = Ids(b)
  BY <1>1
<1>3. \A i \in 1..Len(a) : i \in 1..Len(b) /\ b[i] = a[i]
  <2> SUFFICES ASSUME NEW i \in 1..Len(a) PROVE i \in 1..Len(b) /\ b[i] = a[i]
    OBVIOUS
  <2>1. PICK j \in 1..Len(b) : b[j] = a[i]
    BY DEF Lines
  <2>2. RankIn(Ids(a), a[i].id) = i
    BY PlaceIsRank
  <2>3. RankIn(Ids(b), b[j].id) = j
    BY PlaceIsRank
  <2> QED BY <1>2, <2>1, <2>2, <2>3
<1>4. \A j \in 1..Len(b) : j \in 1..Len(a)
  <2> SUFFICES ASSUME NEW j \in 1..Len(b) PROVE j \in 1..Len(a)
    OBVIOUS
  <2>1. PICK i \in 1..Len(a) : a[i] = b[j]
    BY DEF Lines
  <2>2. RankIn(Ids(a), a[i].id) = i
    BY PlaceIsRank
  <2>3. RankIn(Ids(b), b[j].id) = j
    BY PlaceIsRank
  <2> QED BY <1>2, <2>1, <2>2, <2>3
<1>5. PICK S, T : a \in Seq(S) /\ b \in Seq(T)
  BY DEF InOrder, IsSeq
<1>6. Len(a) = Len(b)
  <2>1. Len(a) \in Nat /\ Len(b) \in Nat
    BY <1>5
  <2>2. \A i \in 1..Len(a) : i <= Len(b)
    BY <1>3, <2>1
  <2>3. \A i \in 1..Len(b) : i <= Len(a)
    BY <1>4, <2>1
  <2>4. Len(a) = 0 \/ Len(a) \in 1..Len(a)
    BY <2>1
  <2>5. Len(b) = 0 \/ Len(b) \in 1..Len(b)
    BY <2>1
  <2> QED BY <2>1, <2>2, <2>3, <2>4, <2>5
<1> QED BY <1>3, <1>5, <1>6

(* Newest of its chain in s: the line that carries the chain's counters.   *)
Newest(s, i) ==
    \A j \in 1..Len(s) : i < j /\ Readable(s[j]) => Chain(s[j]) # Chain(s[i])

(* The map the code builds names the newest of each chain.                 *)
LEMMA LastIsNewest ==
    ASSUME NEW s, IsSeq(s), NEW i \in 1..Len(s), Readable(s[i])
    PROVE  LastOf(s)[Chain(s[i])] = i <=> Newest(s, i)
<1> DEFINE c == Chain(s[i])
           Same == {j \in 1..Len(s) : Readable(s[j]) /\ Chain(s[j]) = c}
           IsLast(p) == /\ Readable(s[p]) /\ Chain(s[p]) = c
                        /\ \A j \in (p + 1)..Len(s) : ~(Readable(s[j]) /\ Chain(s[j]) = c)
           last == CHOOSE p \in 1..Len(s) : IsLast(p)
<1>1. Len(s) \in Nat
  BY DEF IsSeq
<1>2. LastOf(s)[c] = last
  BY DEF LastOf
<1>3. \A p \in 1..Len(s) : IsLast(p) <=> p \in Same /\ \A j \in Same : j <= p
  <2> SUFFICES ASSUME NEW p \in 1..Len(s)
               PROVE  IsLast(p) <=> p \in Same /\ \A j \in Same : j <= p
    OBVIOUS
  <2>1. \A j \in 1..Len(s) : j \in (p + 1)..Len(s) <=> ~(j <= p)
    BY <1>1
  <2>2. \A j \in (p + 1)..Len(s) : j \in 1..Len(s)
    BY <1>1
  <2> QED BY <2>1, <2>2
<1>4. \E p \in 1..Len(s) : IsLast(p)
  <2>1. IsFiniteSet(1..Len(s))
    BY <1>1, FS_Interval
  <2>2. Same \subseteq 1..Len(s) /\ i \in Same /\ Same \subseteq Nat
    BY <1>1
  <2> HIDE DEF Same, IsLast
  <2>3. IsFiniteSet(Same)
    BY <2>1, <2>2, FS_Subset
  <2>4. PICK m \in Same : \A k \in Same : k <= m
    BY <2>2, <2>3, Latest
  <2> QED BY <1>3, <2>2, <2>4
<1>5. last \in 1..Len(s) /\ IsLast(last)
  BY <1>4
<1>6. Newest(s, i) <=> \A j \in Same : j <= i
  BY <1>1 DEF Newest
<1>7. i \in Same
  OBVIOUS
<1> HIDE DEF last, IsLast, c
<1>8. last = i <=> \A j \in Same : j <= i
  <2>1. last \in Same /\ \A j \in Same : j <= last
    BY <1>3, <1>5
  <2>2. ASSUME \A j \in Same : j <= i PROVE last = i
    <3>1. last <= i /\ i <= last /\ last \in Nat /\ i \in Nat
      BY <1>1, <1>5, <1>7, <2>1, <2>2
    <3> QED BY <3>1
  <2> QED BY <2>1, <2>2
<1> QED BY <1>2, <1>6, <1>8 DEF c

(* Coalescing the lines L at time t keeps l.                               *)
Live(L, l, t) ==
    Stale(l, t) => \A k \in L : k.id > l.id /\ Readable(k) => Chain(k) # Chain(l)

(* Coalescing is a matter of which lines there are, not of where they are. *)
LEMMA KeptLines ==
    ASSUME NEW s, NEW t, InOrder(s)
    PROVE  /\ InOrder(DropStaleActivity(s, t))
           /\ Lines(DropStaleActivity(s, t)) = {l \in Lines(s) : Live(Lines(s), l, t)}
<1> DEFINE I == {i \in 1..Len(s) : Stale(s[i], t) => LastOf(s)[Chain(s[i])] = i}
           u == At(s, I)
<1>1. DropStaleActivity(s, t) = u
  BY DEF DropStaleActivity
<1>2. IsSeq(s) /\ Len(s) \in Nat
  BY DEF InOrder, IsSeq
<1>3. InOrder(u)
  BY AtOrdered
<1>4. \A i \in 1..Len(s) : i \in I <=> Live(Lines(s), s[i], t)
  <2> SUFFICES ASSUME NEW i \in 1..Len(s) PROVE i \in I <=> Live(Lines(s), s[i], t)
    OBVIOUS
  <2>1. CASE ~Stale(s[i], t)
    BY <2>1 DEF Live
  <2>2. CASE Stale(s[i], t)
    <3>1. i \in I <=> Newest(s, i)
      BY <1>2, <2>2, LastIsNewest DEF Stale
    <3>2. \A j \in 1..Len(s) : i < j <=> s[j].id > s[i].id
      <4> SUFFICES ASSUME NEW j \in 1..Len(s) PROVE i < j <=> s[j].id > s[i].id
        OBVIOUS
      <4>1. /\ i < j => s[i].id < s[j].id
            /\ j < i => s[j].id < s[i].id
            /\ s[i].id \in Nat /\ s[j].id \in Nat
        BY DEF InOrder
      <4>2. i \in Nat /\ j \in Nat /\ (i = j => s[i].id = s[j].id)
        OBVIOUS
      <4> QED BY <4>1, <4>2
    <3>3. Newest(s, i) <=> Live(Lines(s), s[i], t)
      BY <2>2, <3>2 DEF Newest, Live, Lines
    <3> QED BY <3>1, <3>3
  <2> QED BY <2>1, <2>2
<1>5. Picks(u, s, I)
  BY <1>2, AtLines
<1>6. I \cap 1..Len(s) = I
  OBVIOUS
<1> HIDE DEF u, I
<1>7. Lines(u) = {s[i] : i \in I \cap 1..Len(s)}
  <2>1. ASSUME NEW j \in 1..Len(u) PROVE u[j] \in {s[i] : i \in I \cap 1..Len(s)}
    <3>1. PICK i \in I \cap 1..Len(s) : u[j] = s[i]
      BY <1>5 DEF Picks
    <3> QED BY <3>1
  <2>2. ASSUME NEW i \in I \cap 1..Len(s) PROVE s[i] \in Lines(u)
    <3>1. PICK j \in 1..Len(u) : u[j] = s[i]
      BY <1>5 DEF Picks
    <3> QED BY <3>1 DEF Lines
  <2> QED BY <2>1, <2>2 DEF Lines
<1>8. {s[i] : i \in I \cap 1..Len(s)} = {l \in Lines(s) : Live(Lines(s), l, t)}
  BY <1>4 DEF Lines
<1> QED BY <1>1, <1>3, <1>7, <1>8

(* Coalescing the lines of B, of which A are all there ever were, loses    *)
(* nothing that coalescing A keeps.                                        *)
Covers(A, B, t) == B \subseteq A /\ \A l \in A : Live(A, l, t) => l \in B

(* Every chain has a newest line.                                          *)
LEMMA ChainHasNewest ==
    ASSUME NEW s, InOrder(s), NEW l \in Lines(s), Readable(l)
    PROVE  \E k \in Lines(s) :
              /\ Readable(k) /\ Chain(k) = Chain(l) /\ k.id >= l.id
              /\ \A x \in Lines(s) : x.id > k.id /\ Readable(x) => Chain(x) # Chain(l)
<1> DEFINE C == {i \in 1..Len(s) : Readable(s[i]) /\ Chain(s[i]) = Chain(l)}
<1>1. /\ Len(s) \in Nat
      /\ \A i \in 1..Len(s) : s[i].id \in Nat
      /\ \A i, k \in 1..Len(s) : i < k => s[i].id < s[k].id
  BY DEF InOrder, IsSeq
<1>2. PICK i \in 1..Len(s) : l = s[i]
  BY DEF Lines
<1>3. C \subseteq 1..Len(s) /\ C \subseteq Nat /\ i \in C
  BY <1>1, <1>2
<1>4. \A k \in 1..Len(s) : Readable(s[k]) /\ Chain(s[k]) = Chain(l) => k \in C
  OBVIOUS
<1>5. \A k \in C : Readable(s[k]) /\ Chain(s[k]) = Chain(l)
  OBVIOUS
<1> HIDE DEF C
<1>6. IsFiniteSet(C)
  <2>1. IsFiniteSet(1..Len(s))
    BY <1>1, FS_Interval
  <2> QED BY <1>3, <2>1, FS_Subset
<1>7. PICK m \in C : \A k \in C : k <= m
  BY <1>3, <1>6, Latest
<1>8. /\ s[m] \in Lines(s) /\ i <= m /\ m \in 1..Len(s) /\ m \in Nat /\ i \in Nat
      /\ s[m].id \in Nat /\ l.id \in Nat
  BY <1>1, <1>2, <1>3, <1>7 DEF Lines
<1>9. s[m].id >= l.id
  <2>1. CASE i = m
    BY <1>2, <1>8, <2>1
  <2>2. CASE i < m
    BY <1>1, <1>2, <1>8, <2>2
  <2> QED BY <1>8, <2>1, <2>2
<1>10. ASSUME NEW x \in Lines(s), x.id > s[m].id, Readable(x) PROVE Chain(x) # Chain(l)
  <2>1. PICK k \in 1..Len(s) : x = s[k]
    BY DEF Lines
  <2>2. ~(k <= m)
    <3> SUFFICES ASSUME k <= m PROVE FALSE
      OBVIOUS
    <3>1. k = m \/ k < m
      BY <1>8
    <3>2. s[k].id <= s[m].id /\ s[k].id \in Nat
      BY <1>1, <1>8, <3>1
    <3> QED BY <1>8, <1>10, <2>1, <3>2
  <2> QED BY <1>4, <1>7, <1>10, <2>1, <2>2
<1> QED BY <1>5, <1>7, <1>8, <1>9, <1>10

(* What covers all the lines comes to the same as all of them.             *)
LEMMA SameLive ==
    ASSUME NEW a, InOrder(a), NEW B, NEW t, Covers(Lines(a), B, t)
    PROVE  {l \in B : Live(B, l, t)} = {l \in Lines(a) : Live(Lines(a), l, t)}
<1>1. \A l \in Lines(a) : Live(Lines(a), l, t) => l \in B /\ Live(B, l, t)
  BY DEF Covers, Live
<1>2. ASSUME NEW l \in B, Live(B, l, t) PROVE l \in Lines(a) /\ Live(Lines(a), l, t)
  <2>1. l \in Lines(a)
    BY DEF Covers
  <2> SUFFICES ASSUME Stale(l, t), NEW x \in Lines(a), x.id > l.id, Readable(x),
                      Chain(x) = Chain(l)
               PROVE  FALSE
    BY <2>1 DEF Live
  <2>2. PICK k \in Lines(a) :
           /\ Readable(k) /\ Chain(k) = Chain(x) /\ k.id >= x.id
           /\ \A y \in Lines(a) : y.id > k.id /\ Readable(y) => Chain(y) # Chain(x)
    BY ChainHasNewest
  <2>3. k \in B
    BY <2>2 DEF Covers, Live
  <2>4. k.id > l.id
    <3>1. k.id \in Nat /\ x.id \in Nat /\ l.id \in Nat
      BY <2>1 DEF Lines, InOrder
    <3> QED BY <2>2, <3>1
  <2> QED BY <1>2, <2>2, <2>3, <2>4 DEF Live
<1> QED BY <1>1, <1>2

-----------------------------------------------------------------------------
(* Module Backlog.                                                         *)

Line == [id : Nat, session : Session \cup {NoSession}, helper : Helper \cup {Main},
         type : {"activity", "done", "subagent_start"}, ts : Nat]

(* A line without the field.                                               *)
Unmark(l) == [l EXCEPT !.helper = Main]

(* The backlog covers what was ever spooled, and during the pause, of what *)
(* no run has come across yet, all of it.                                  *)
BInv ==
    /\ clock \in Nat /\ pausedUntil \in Nat /\ added \in Nat
    /\ InOrder(all) /\ Lines(all) \subseteq Line
    /\ \A l \in Lines(all) : l.id <= added
    /\ InOrder(backlog) /\ Covers(Lines(all), Lines(backlog), clock)
    /\ clock < pausedUntil => \A l \in Lines(all) : Marked(l) => l \in Lines(backlog)

LEMMA UnmarkLine ==
    ASSUME NEW l \in Line
    PROVE  /\ Unmark(l) \in Line /\ ~Marked(Unmark(l)) /\ (~Marked(l) => Unmark(l) = l)
           /\ Unmark(l).id = l.id /\ Unmark(l).session = l.session
           /\ Unmark(l).type = l.type /\ Unmark(l).ts = l.ts /\ Unmark(l).helper = Main
<1>1. Unmark(l) = [id |-> l.id, session |-> l.session, helper |-> Main, type |-> l.type, ts |-> l.ts]
  BY DEF Line, Unmark
<1>2. l = [id |-> l.id, session |-> l.session, helper |-> l.helper, type |-> l.type, ts |-> l.ts]
  BY DEF Line
<1> QED BY <1>1, <1>2 DEF Line, Marked

(* Which lines stripSubagents leaves.                                      *)
LEMMA StripLines ==
    ASSUME NEW s, InOrder(s)
    PROVE  /\ InOrder(StripSubagents(s))
           /\ Lines(StripSubagents(s)) =
                 {Unmark(l) : l \in {k \in Lines(s) : ~(Marked(k) /\ k.type = "subagent_start")}}
<1> DEFINE I == {i \in 1..Len(s) : ~(Marked(s[i]) /\ s[i].type = "subagent_start")}
           plain == At(s, I)
           out == StripSubagents(s)
           L == {k \in Lines(s) : ~(Marked(k) /\ k.type = "subagent_start")}
<1>1. InOrder(out)
  BY StripOrdered
<1>2. IsSeq(s) /\ IsSeq(out)
  BY <1>1 DEF InOrder
<1>3. Picks(plain, s, I) /\ IsSeq(plain)
  BY <1>2, AtLines
<1>4. out = [i \in 1..Len(plain) |-> Unmark(plain[i])]
  BY DEF StripSubagents, Unmark
<1>5. \A i \in 1..Len(s) : i \in I <=> s[i] \in L
  BY DEF Lines
<1>6. \A k \in L : \E i \in 1..Len(s) : k = s[i]
  BY DEF Lines
<1> HIDE DEF plain, I, out, L
<1>7. Len(plain) \in Nat
  BY <1>3 DEF IsSeq
<1>8. Len(out) = Len(plain)
  BY <1>4, <1>7
<1>9. \A i \in 1..Len(out) : out[i] = Unmark(plain[i])
  BY <1>4, <1>8
<1>10. ASSUME NEW j \in 1..Len(out) PROVE \E k \in L : out[j] = Unmark(k)
  <2>1. PICK i \in I \cap 1..Len(s) : plain[j] = s[i]
    BY <1>3, <1>8 DEF Picks
  <2> QED BY <1>5, <1>9, <2>1
<1>11. ASSUME NEW k \in L PROVE \E j \in 1..Len(out) : out[j] = Unmark(k)
  <2>1. PICK i \in 1..Len(s) : k = s[i]
    BY <1>6
  <2>2. PICK j \in 1..Len(plain) : plain[j] = s[i]
    BY <1>3, <1>5, <2>1 DEF Picks
  <2> QED BY <1>8, <1>9, <2>1, <2>2
<1>12. Lines(out) = {Unmark(k) : k \in L}
  BY <1>10, <1>11 DEF Lines
<1> QED BY <1>1, <1>12 DEF out, L

(* A run without the field covers what all lines without it come to: a     *)
(* line it still has to take the field off is in the backlog, and one that *)
(* some run dropped has been superseded by a line of the main chain.       *)
LEMMA StripCovers ==
    ASSUME BInv, clock < pausedUntil
    PROVE  Covers(Lines(StripSubagents(all)), Lines(StripSubagents(backlog)), clock)
<1> DEFINE A == Lines(all)
           B == Lines(backlog)
           SA == Lines(StripSubagents(all))
           SB == Lines(StripSubagents(backlog))
           Goes(l) == Marked(l) /\ l.type = "subagent_start"
<1>1. /\ A \subseteq Line /\ B \subseteq A
      /\ \A l \in A : Live(A, l, clock) => l \in B
      /\ \A l \in A : Marked(l) => l \in B
  BY DEF BInv, Covers
<1>2. /\ SA = {Unmark(l) : l \in {k \in A : ~Goes(k)}}
      /\ SB = {Unmark(l) : l \in {k \in B : ~Goes(k)}}
  BY StripLines DEF BInv
<1> HIDE DEF A, B, SA, SB
<1>3. SB \subseteq SA
  BY <1>1, <1>2
<1>4. ASSUME NEW u \in SA, Live(SA, u, clock) PROVE u \in SB
  <2>1. PICK l \in A : ~Goes(l) /\ u = Unmark(l)
    BY <1>2
  <2>2. CASE Marked(l)
    <3>1. l \in B
      BY <1>1, <2>2
    <3> QED BY <1>2, <2>1, <3>1
  <2>3. CASE ~Marked(l)
    <3>1. u = l
      BY <1>1, <2>1, <2>3, UnmarkLine
    <3>2. Live(A, l, clock)
      <4> SUFFICES ASSUME Stale(l, clock), NEW x \in A, x.id > l.id, Readable(x),
                          Chain(x) = Chain(l)
                   PROVE  FALSE
        BY DEF Live
      <4>1. ~Marked(x)
        BY <2>3 DEF Chain, Marked
      <4>2. x \in SA
        <5>1. Unmark(x) = x
          BY <1>1, <4>1, UnmarkLine
        <5> QED BY <1>2, <4>1, <5>1
      <4> QED BY <1>4, <3>1, <4>2 DEF Live
    <3>3. l \in B
      BY <1>1, <3>2
    <3> QED BY <1>2, <2>1, <3>3
  <2> QED BY <2>2, <2>3
<1> QED BY <1>3, <1>4 DEF Covers, SA, SB

LEMMA AsSentCovers ==
    ASSUME BInv
    PROVE  /\ InOrder(AsSent(all)) /\ InOrder(AsSent(backlog))
           /\ Covers(Lines(AsSent(all)), Lines(AsSent(backlog)), clock)
<1>1. InOrder(all) /\ InOrder(backlog) /\ Covers(Lines(all), Lines(backlog), clock)
  BY DEF BInv
<1>2. CASE clock < pausedUntil
  <2>1. InOrder(StripSubagents(all)) /\ InOrder(StripSubagents(backlog))
    BY <1>1, StripOrdered
  <2> QED BY <1>2, <2>1, StripCovers DEF AsSent
<1>3. CASE ~(clock < pausedUntil)
  BY <1>1, <1>3 DEF AsSent
<1> QED BY <1>2, <1>3

LEMMA BacklogHookStep == BInv /\ HookAddsLine => BInv'
<1> SUFFICES ASSUME BInv, HookAddsLine PROVE BInv'
  OBVIOUS
<1>1. PICK l : /\ l \in Line /\ l.id = added + 1
               /\ backlog' = Append(backlog, l) /\ all' = Append(all, l)
  <2>1. PICK s \in Session \cup {NoSession}, k \in Kind :
           LET l == [id |-> added + 1, session |-> s, helper |-> k.helper,
                     type |-> k.type, ts |-> clock]
           IN  backlog' = Append(backlog, l) /\ all' = Append(all, l)
    BY DEF HookAddsLine
  <2> DEFINE l == [id |-> added + 1, session |-> s, helper |-> k.helper,
                   type |-> k.type, ts |-> clock]
  <2>2. /\ k.helper \in Helper \cup {Main}
        /\ k.type \in {"activity", "done", "subagent_start"}
    BY DEF Kind
  <2>3. added + 1 \in Nat /\ clock \in Nat
    BY DEF BInv
  <2>4. l \in Line /\ l.id = added + 1
    BY <2>2, <2>3 DEF Line
  <2>5. backlog' = Append(backlog, l) /\ all' = Append(all, l)
    BY <2>1
  <2> HIDE DEF l
  <2> QED BY <2>4, <2>5
<1>2. /\ InOrder(all) /\ InOrder(backlog) /\ Lines(all) \subseteq Line
      /\ \A x \in Lines(all) : x.id <= added
      /\ Lines(backlog) \subseteq Lines(all) /\ added \in Nat
      /\ clock \in Nat /\ pausedUntil \in Nat
      /\ clock' = clock /\ pausedUntil' = pausedUntil /\ added' = added + 1
  BY DEF BInv, Covers, HookAddsLine
<1>3. {"id", "helper"} \subseteq DOMAIN l /\ l.id \in Nat
  BY <1>1 DEF Line
<1>4. ASSUME NEW s, InOrder(s), Lines(s) \subseteq Lines(all)
      PROVE  InOrder(Append(s, l)) /\ Lines(Append(s, l)) = Lines(s) \cup {l}
  <2>1. PICK S : s \in Seq(S)
    BY <1>4 DEF InOrder, IsSeq
  <2>2. s \in Seq(S \cup {l}) /\ l \in S \cup {l}
    BY <2>1
  <2> DEFINE n == Len(s) + 1
             u == Append(s, l)
  <2>3. /\ u \in Seq(S \cup {l}) /\ Len(u) = n /\ u[n] = l /\ Len(s) \in Nat
        /\ \A i \in 1..Len(s) : u[i] = s[i]
    BY <2>2
  <2>4. IsSeq(u)
    BY <2>3 DEF IsSeq
  <2>5. \A i \in 1..Len(s) : s[i].id < l.id
    <3> SUFFICES ASSUME NEW i \in 1..Len(s) PROVE s[i].id < l.id
      OBVIOUS
    <3>1. s[i] \in Lines(all)
      BY <1>4 DEF Lines
    <3>2. s[i].id \in Nat
      BY <1>4 DEF InOrder
    <3> QED BY <1>1, <1>2, <3>1, <3>2
  <2> HIDE DEF u
  <2>6. \A i \in 1..Len(u) : i = n \/ i \in 1..Len(s)
    BY <2>3
  <2>7. n \in 1..Len(u) /\ \A i \in 1..Len(s) : i \in 1..Len(u)
    BY <2>3
  <2>8. Lines(u) = Lines(s) \cup {l}
    <3>1. \A x \in Lines(u) : x \in Lines(s) \cup {l}
      BY <2>3, <2>6 DEF Lines
    <3>2. \A x \in Lines(s) \cup {l} : x \in Lines(u)
      BY <2>3, <2>7 DEF Lines
    <3> QED BY <3>1, <3>2
  <2>9. InOrder(u)
    <3>1. \A i \in 1..Len(u) : {"id", "helper"} \subseteq DOMAIN u[i] /\ u[i].id \in Nat
      BY <1>3, <1>4, <2>3, <2>6 DEF InOrder
    <3>2. ASSUME NEW i \in 1..Len(u), NEW k \in 1..Len(u), i < k
          PROVE  u[i].id < u[k].id
      <4>1. i \in 1..Len(s)
        BY <2>3, <3>2
      <4>2. CASE k = n
        BY <2>3, <2>5, <4>1, <4>2
      <4>3. CASE k \in 1..Len(s)
        BY <1>4, <2>3, <3>2, <4>1, <4>3 DEF InOrder
      <4> QED BY <2>6, <4>2, <4>3
    <3> QED BY <2>4, <3>1, <3>2 DEF InOrder
  <2> QED BY <2>8, <2>9 DEF u
<1>5. InOrder(all') /\ Lines(all') = Lines(all) \cup {l}
  BY <1>1, <1>2, <1>4
<1>6. InOrder(backlog') /\ Lines(backlog') = Lines(backlog) \cup {l}
  BY <1>1, <1>2, <1>4
<1>7. \A x \in Lines(all') : x \in Line /\ x.id <= added'
  <2> SUFFICES ASSUME NEW x \in Lines(all') PROVE x \in Line /\ x.id <= added'
    OBVIOUS
  <2>1. CASE x = l
    BY <1>1, <1>2, <2>1
  <2>2. CASE x \in Lines(all)
    <3>1. x \in Line /\ x.id <= added /\ x.id \in Nat
      BY <1>2, <2>2 DEF Line
    <3> QED BY <1>2, <3>1
  <2> QED BY <1>5, <2>1, <2>2
<1>8. Covers(Lines(all'), Lines(backlog'), clock')
  <2>1. ASSUME NEW x \in Lines(all'), Live(Lines(all'), x, clock') PROVE x \in Lines(backlog')
    <3>1. CASE x = l
      BY <1>6, <3>1
    <3>2. CASE x \in Lines(all)
      <4>1. Live(Lines(all), x, clock)
        BY <1>2, <1>5, <2>1 DEF Live
      <4> QED BY <1>6, <3>2, <4>1 DEF BInv, Covers
    <3> QED BY <1>5, <3>1, <3>2
  <2> QED BY <1>2, <1>5, <1>6, <2>1 DEF Covers
<1>9. clock' < pausedUntil' => \A x \in Lines(all') : Marked(x) => x \in Lines(backlog')
  BY <1>2, <1>5, <1>6 DEF BInv
<1>10. clock' \in Nat /\ pausedUntil' \in Nat /\ added' \in Nat
  BY <1>2
<1> QED BY <1>5, <1>6, <1>7, <1>8, <1>9, <1>10 DEF BInv

LEMMA BacklogRunStep == BInv /\ RateLimitedRun => BInv'
<1> SUFFICES ASSUME BInv, RateLimitedRun PROVE BInv'
  OBVIOUS
<1>1. /\ backlog' = DropStaleActivity(AsSent(backlog), clock) /\ all' = AsSent(all)
      /\ clock' = clock /\ pausedUntil' = pausedUntil /\ added' = added
  BY DEF RateLimitedRun, Coalesced
<1>2. /\ InOrder(AsSent(all)) /\ InOrder(AsSent(backlog))
      /\ Covers(Lines(AsSent(all)), Lines(AsSent(backlog)), clock)
  BY AsSentCovers
<1>3. /\ InOrder(backlog')
      /\ Lines(backlog') = {l \in Lines(AsSent(backlog)) : Live(Lines(AsSent(backlog)), l, clock)}
  BY <1>1, <1>2, KeptLines
<1>4. Lines(backlog') = {l \in Lines(all') : Live(Lines(all'), l, clock)}
  <2> DEFINE a == AsSent(all)
             B == Lines(AsSent(backlog))
  <2>1. InOrder(a) /\ Covers(Lines(a), B, clock)
    BY <1>2
  <2> HIDE DEF a, B
  <2>2. {l \in B : Live(B, l, clock)} = {l \in Lines(a) : Live(Lines(a), l, clock)}
    BY <2>1, SameLive
  <2> QED BY <1>1, <1>3, <2>2 DEF a, B
<1>5. Covers(Lines(all'), Lines(backlog'), clock')
  BY <1>1, <1>4 DEF Covers
<1>6. CASE clock < pausedUntil
  <2>1. Lines(all') = {Unmark(l) : l \in {k \in Lines(all) : ~(Marked(k) /\ k.type = "subagent_start")}}
    BY <1>1, <1>6, StripLines DEF BInv, AsSent
  <2>2. \A x \in Lines(all') : x \in Line /\ x.id <= added /\ ~Marked(x)
    BY <2>1, UnmarkLine DEF BInv
  <2>3. Lines(all') \subseteq Line /\ \A x \in Lines(all') : x.id <= added'
    BY <1>1, <2>2
  <2>4. \A x \in Lines(all') : Marked(x) => x \in Lines(backlog')
    BY <2>2
  <2>5. clock' \in Nat /\ pausedUntil' \in Nat /\ added' \in Nat
    BY <1>1 DEF BInv
  <2> QED BY <1>1, <1>2, <1>3, <1>5, <2>3, <2>4, <2>5 DEF BInv
<1>7. CASE ~(clock < pausedUntil)
  <2>1. all' = all
    BY <1>1, <1>7 DEF AsSent
  <2>2. /\ InOrder(all') /\ Lines(all') \subseteq Line
        /\ \A x \in Lines(all') : x.id <= added'
        /\ clock' \in Nat /\ pausedUntil' \in Nat /\ added' \in Nat
        /\ ~(clock' < pausedUntil')
    BY <1>1, <1>7, <2>1 DEF BInv
  <2> QED BY <1>3, <1>5, <2>2 DEF BInv
<1> QED BY <1>6, <1>7

LEMMA BacklogTickStep == BInv /\ ClockTicks => BInv'
<1> SUFFICES ASSUME BInv, ClockTicks PROVE BInv'
  OBVIOUS
<1>1. /\ clock \in Nat /\ clock' = clock + 1 /\ pausedUntil' = pausedUntil /\ pausedUntil \in Nat
      /\ added' = added /\ backlog' = backlog /\ all' = all
  BY DEF BInv, ClockTicks
<1>2. ASSUME NEW l \in Lines(all), Stale(l, clock) PROVE Stale(l, clock')
  <2>1. l.ts \in Nat
    BY DEF BInv, Line
  <2> QED BY <1>1, <1>2, <2>1, CoalesceAssumption DEF Stale
<1>3. \A l \in Lines(all) : Live(Lines(all), l, clock') => Live(Lines(all), l, clock)
  BY <1>2 DEF Live
<1>4. Covers(Lines(all'), Lines(backlog'), clock')
  BY <1>1, <1>3 DEF BInv, Covers
<1>5. clock' < pausedUntil' => clock < pausedUntil
  BY <1>1
<1> QED BY <1>1, <1>4, <1>5 DEF BInv

(* Of everything ever spooled, the field taken off where a run of the pause *)
(* came across it, the backlog holds in its order at least what one         *)
(* coalescing of it all would keep now, however many runs have stripped     *)
(* and dropped before (stripSubagents, DropStaleActivity and the commit of  *)
(* a run that the relay has asked to wait).                                 *)
THEOREM BacklogInv == BacklogSpec => []BInv
<1>1. BacklogInit => BInv
  <2> SUFFICES ASSUME BacklogInit PROVE BInv
    OBVIOUS
  <2>1. backlog = <<>> /\ all = <<>> /\ clock = 0 /\ added = 0 /\ pausedUntil \in Nat
    BY BacklogAssumption DEF BacklogInit
  <2>2. InOrder(<<>>) /\ Lines(<<>>) = {}
    BY EmptyIsSeq DEF InOrder, Lines
  <2> QED BY <2>1, <2>2 DEF BInv, Covers
<1>2. BInv /\ UNCHANGED backlogVars => BInv'
  BY DEF backlogVars, BInv
<1>3. BInv /\ [BacklogNext]_backlogVars => BInv'
  BY <1>2, BacklogHookStep, BacklogRunStep, BacklogTickStep DEF BacklogNext
<1> QED BY <1>1, <1>3, PTL DEF BacklogSpec

(* stripSubagents and DropStaleActivity, run after run: the newest line of  *)
(* every chain, as the relay will see the chains, is still in the backlog,  *)
(* so that the relay ends with its last counters whatever was dropped       *)
(* before it.                                                               *)
THEOREM BacklogNewestKept == BacklogSpec => []NewestOfChainKept
<1>1. BInv => NewestOfChainKept
  <2> SUFFICES ASSUME BInv, NEW l \in Lines(all), Readable(l)
               PROVE  \E k \in Lines(backlog) : Readable(k) /\ Chain(k) = Chain(l) /\ k.id >= l.id
    BY DEF NewestOfChainKept, Kept, Ever, Lines
  <2>1. InOrder(all)
    BY DEF BInv
  <2>2. PICK k \in Lines(all) :
           /\ Readable(k) /\ Chain(k) = Chain(l) /\ k.id >= l.id
           /\ \A x \in Lines(all) : x.id > k.id /\ Readable(x) => Chain(x) # Chain(l)
    BY <2>1, ChainHasNewest
  <2>3. k \in Lines(backlog)
    BY <2>2 DEF BInv, Covers, Live
  <2> QED BY <2>2, <2>3
<1> QED BY <1>1, BacklogInv, PTL

(* stripSubagents and DropStaleActivity in as many runs as the relay's wait *)
(* lasts, some of them in the pause and some after it, keep what one run at *)
(* its end would: no line goes that was still wanted, and none stays        *)
(* because it was looked at too early or under another chain.               *)
THEOREM BacklogRunsCompose == BacklogSpec => []RunsCompose
<1>1. BInv => RunsCompose
  <2> SUFFICES ASSUME BInv PROVE Coalesced(backlog) = Coalesced(all)
    BY DEF RunsCompose
  <2> DEFINE a == AsSent(all)
             b == AsSent(backlog)
             ca == DropStaleActivity(a, clock)
             cb == DropStaleActivity(b, clock)
  <2>1. InOrder(a) /\ InOrder(b) /\ Covers(Lines(a), Lines(b), clock)
    BY AsSentCovers
  <2> HIDE DEF a, b
  <2>2. /\ InOrder(ca) /\ Lines(ca) = {l \in Lines(a) : Live(Lines(a), l, clock)}
        /\ InOrder(cb) /\ Lines(cb) = {l \in Lines(b) : Live(Lines(b), l, clock)}
    BY <2>1, KeptLines
  <2>3. {l \in Lines(b) : Live(Lines(b), l, clock)} = {l \in Lines(a) : Live(Lines(a), l, clock)}
    BY <2>1, SameLive
  <2>4. ca = cb
    <3> HIDE DEF ca, cb
    <3> QED BY <2>2, <2>3, SameLines
  <2> QED BY <2>4 DEF Coalesced, a, b
<1> QED BY <1>1, BacklogInv, PTL
=============================================================================
