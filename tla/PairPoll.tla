------------------------------ MODULE PairPoll ------------------------------
(***************************************************************************)
(* internal/pair/poll.go: "agentpulse pair" has shown a code and polls the *)
(* relay until the phone has redeemed it, the code expires, the relay      *)
(* refuses, or the person presses Ctrl-C; with pairing.go's requests and   *)
(* pair.go's expiryOf and describePollError.  What pair does before and    *)
(* after is module Pairing.                                                *)
(*                                                                         *)
(* now is the relay's clock, in ticks since it issued the code; this       *)
(* machine's clock is skew ahead of it.  The code's expiry is a time of    *)
(* the relay's clock and is compared with this machine's.                  *)
(***************************************************************************)
EXTENDS Integers

CONSTANTS
    Lifetime,    \* how long the relay lets a code live
    Interval,    \* DefaultPollInterval
    Timeout,     \* pollRequestTimeout
    Grace,       \* DefaultAuthGrace
    Lag,         \* how long the relay may not recognise what it has just been told
    RetryAfter,  \* delays a 429 may name
    Skew,        \* how far this machine's clock may be ahead
    MaxTime      \* bound: ticks

ASSUME PollAssumption ==
    /\ Lifetime \in Nat /\ Interval \in Nat \ {0} /\ Timeout \in Nat /\ Lag \in Nat
    /\ Grace \in Nat /\ Lag + Timeout <= Grace
    /\ RetryAfter \subseteq Nat /\ Skew \subseteq Int
    /\ MaxTime \in Nat /\ \A s \in Skew: Lifetime - s < MaxTime

Never == -1

VARIABLES
    now,       \* the relay's clock
    skew,
    pc,        \* the poll loop: "check", "polling", "answered", "sleeping", "done"
    sent,      \* when the request was sent
    handled,   \* when the relay answered it, or Never
    answer,    \* the answer
    wake,      \* when the wait ends
    cancelled, \* Ctrl-C
    result,    \* how Poll returned
    redeemed,  \* when the phone redeemed the code, or Never
    gone,      \* the relay has forgotten the code or the machine
    asleep,    \* the machine is suspended
    (* history *)
    slept,     \* it has been
    asked      \* the relay was asked after the phone redeemed the code

loop == <<pc, sent, handled, answer, wake, result>>
world == <<now, skew, redeemed, gone, asleep, slept, cancelled>>
pollVars == <<loop, world, asked>>

NoAnswer == [kind |-> "none", after |-> 0]

PollInit ==
    /\ now = 0 /\ skew \in Skew
    /\ pc = "check" /\ sent = 0 /\ handled = Never /\ answer = NoAnswer /\ wake = 0
    /\ cancelled = FALSE /\ result = "none"
    /\ redeemed = Never /\ gone = FALSE
    /\ asleep = FALSE /\ slept = FALSE /\ asked = FALSE

Local == now + skew
Remaining == Lifetime - Local

-----------------------------------------------------------------------------
(* The loop.                                                               *)

Returns(r) == pc' = "done" /\ result' = r

Sends ==
    /\ ~asleep /\ pc = "check" /\ ~cancelled /\ Local < Lifetime
    /\ pc' = "polling" /\ sent' = now /\ handled' = Never /\ answer' = NoAnswer
    /\ asked' = (redeemed # Never)
    /\ UNCHANGED <<wake, result, world>>

(* The first two checks of a round.                                        *)
GivesUp ==
    /\ ~asleep /\ pc = "check" /\ (cancelled \/ Local >= Lifetime)
    /\ Returns(IF cancelled THEN "cancelled" ELSE "expired")
    /\ UNCHANGED <<sent, handled, answer, wake, world, asked>>

(* The relay's view, at the moment it handles the request.                 *)
Recognised == ~gone
MayLag == now < Lag \/ (redeemed # Never /\ now < redeemed + Lag)

RelayAnswers ==
    /\ pc = "polling" /\ handled = Never
    /\ \/ Recognised /\ answer' = [kind |-> IF redeemed = Never THEN "waiting" ELSE "paired",
                                   after |-> 0]
       \/ (~Recognised \/ MayLag) /\ answer' = [kind |-> "unauthorized", after |-> 0]
       \/ \E r \in RetryAfter \cup {0}: answer' = [kind |-> "limited", after |-> r]
       \/ answer' = [kind |-> "error", after |-> 0]
    /\ handled' = now /\ pc' = "answered"
    /\ UNCHANGED <<sent, wake, result, world, asked>>

Bug_InGrace == Local < Grace

InGrace == now < Grace

SmallerOf(a, b) == IF a < b THEN a ELSE b
LargerOf(a, b) == IF a > b THEN a ELSE b

Bug_Waits(wait) ==
    IF Remaining <= 0
    THEN Returns("expired") /\ wake' = wake
    ELSE pc' = "sleeping" /\ wake' = now + LargerOf(wait, Remaining) /\ result' = result

Bug_WaitsUncapped(wait) ==
    IF Remaining <= 0
    THEN Returns("expired") /\ wake' = wake
    ELSE pc' = "sleeping" /\ wake' = now + wait /\ result' = result

(* The end of a round that is to be followed by another.                   *)
Waits(wait) ==
    IF Remaining <= 0
    THEN Returns("expired") /\ wake' = wake
    ELSE pc' = "sleeping" /\ wake' = now + SmallerOf(wait, Remaining) /\ result' = result

(* The answer arrives, and classify says what it means.  The grace is      *)
(* measured on the monotonic clock, which stands still in a suspension.    *)
Receives ==
    /\ ~asleep /\ pc = "answered" /\ ~cancelled
    /\ CASE answer.kind = "paired" -> Returns("paired") /\ wake' = wake
         [] answer.kind = "unauthorized" ->
               \/ (InGrace \/ slept) /\ Waits(Interval)
               \/ ~InGrace /\ Returns("rejected") /\ wake' = wake
         [] OTHER -> Waits(LargerOf(Interval, answer.after))
    /\ UNCHANGED <<sent, handled, answer, world, asked>>

(* No answer: the request's own time-out, the network, or Ctrl-C.          *)
NoneCame ==
    /\ ~asleep /\ pc \in {"polling", "answered"}
    /\ Waits(Interval)
    /\ answer' = NoAnswer
    /\ UNCHANGED <<sent, handled, world, asked>>

Wakes ==
    /\ ~asleep /\ pc = "sleeping" /\ (now >= wake \/ cancelled)
    /\ IF cancelled THEN Returns("cancelled") ELSE pc' = "check" /\ result' = result
    /\ UNCHANGED <<sent, handled, answer, wake, world, asked>>

-----------------------------------------------------------------------------
(* The person, the phone, the relay, time.                                 *)

Unless(v) == pc # "done" /\ UNCHANGED <<loop, asked>> /\ UNCHANGED v

Cancel ==
    /\ ~cancelled /\ cancelled' = TRUE
    /\ Unless(<<now, skew, redeemed, gone, asleep, slept>>)

PhoneRedeems ==
    /\ redeemed = Never /\ ~gone /\ now < Lifetime /\ redeemed' = now
    /\ Unless(<<now, skew, gone, asleep, slept, cancelled>>)

(* An expired code is swept; the phone removes the machine.                *)
RelayForgets ==
    /\ ~gone /\ (redeemed # Never \/ now >= Lifetime) /\ gone' = TRUE
    /\ Unless(<<now, skew, redeemed, asleep, slept, cancelled>>)

Suspend ==
    /\ ~slept /\ asleep' = TRUE /\ slept' = TRUE
    /\ Unless(<<now, skew, redeemed, gone, cancelled>>)

Resume ==
    /\ asleep /\ asleep' = FALSE
    /\ Unless(<<now, skew, redeemed, gone, slept, cancelled>>)

(* Timers are punctual until the machine is suspended: they may stand      *)
(* still with it.  One suspension is enough.                               *)
Punctual ==
    \/ slept
    \/ pc = "sleeping" /\ now < wake
    \/ pc \in {"polling", "answered"} /\ now < sent + Timeout

Tick ==
    /\ Punctual /\ now < MaxTime /\ now' = now + 1
    /\ Unless(<<skew, redeemed, gone, asleep, slept, cancelled>>)

-----------------------------------------------------------------------------
LoopStep == Sends \/ GivesUp \/ Receives \/ NoneCame \/ Wakes

PollNext ==
    \/ LoopStep \/ RelayAnswers
    \/ Cancel \/ PhoneRedeems \/ RelayForgets \/ Suspend \/ Resume \/ Tick

PollSpec == PollInit /\ [][PollNext]_pollVars

(* The program runs, time passes, and a suspended machine is woken; the     *)
(* relay owes nothing.                                                     *)
FairPollSpec == PollSpec /\ WF_pollVars(LoopStep) /\ WF_pollVars(Tick) /\ WF_pollVars(Resume)

-----------------------------------------------------------------------------
Kinds == {"none", "waiting", "paired", "unauthorized", "limited", "error"}

(* Types, and where each answer may be held.                               *)
PollTypeOK ==
    /\ now \in 0..MaxTime /\ skew \in Skew
    /\ pc \in {"check", "polling", "answered", "sleeping", "done"}
    /\ sent \in 0..now /\ handled \in {Never} \cup 0..now /\ wake \in Int
    /\ answer \in [kind: Kinds, after: RetryAfter \cup {0}]
    /\ result \in {"none", "paired", "expired", "rejected", "cancelled"}
    /\ redeemed \in {Never} \cup 0..now
    /\ {cancelled, gone, asleep, slept, asked} \subseteq BOOLEAN

(* What pair tells the person at the end is true of the relay (poll.go     *)
(* 116-146, 162-181).  "Paired" only after the phone redeemed the code.    *)
(* "No longer recognized" only when the relay has forgotten the code or    *)
(* the machine, with one exception: the grace runs from the code's         *)
(* creation (poll.go:123), so a phone that redeems it when the grace is    *)
(* nearly over or past leaves the relay's lag uncovered.                   *)
HonestEnd ==
    /\ result = "paired" => redeemed # Never
    /\ result = "rejected" /\ ~slept =>
          gone \/ (redeemed # Never /\ Grace < redeemed + Lag + Timeout)

(* A code the phone redeemed but pair calls expired, without having asked  *)
(* the relay again (poll.go 112, 135-143: the last wait ends at the        *)
(* deadline and no request follows it), was redeemed in the last round:    *)
(* within one request and one wait of the deadline on this machine's       *)
(* clock.  Whatever the relay answered before, a redemption earlier than   *)
(* that is asked about.                                                    *)
LateRedemption ==
    result = "expired" /\ redeemed # Never /\ ~slept /\ ~asked =>
        (Lifetime - skew) - redeemed <= Timeout + LargerOf(Interval, answer.after)

(* pair comes back to the prompt, whatever the relay and the phone do, and *)
(* however long a wait the relay asks for (poll.go 109-147).               *)
PollEnds == <>(pc = "done")
=============================================================================
