-------------------------- MODULE PairStepsProofs ---------------------------
(***************************************************************************)
(* The two modules that look into the steps of pair which Pairing takes at *)
(* once: the poll of the relay and the writing of the credential stores.   *)
(***************************************************************************)
EXTENDS PairPoll, Credentials, TLAPS

-----------------------------------------------------------------------------
(***************************************************************************)
(* What pair says at the end of its poll is true, and a code is called     *)
(* expired unasked only after a redemption in the last round: for every    *)
(* lifetime, interval, time-out, grace and lag that PollAssumption admits, *)
(* every skew of the clock and every Retry-After.                          *)
(***************************************************************************)

Num ==
    /\ now \in Nat /\ skew \in Int /\ sent \in Nat /\ wake \in Int
    /\ handled \in Nat \cup {Never} /\ redeemed \in Nat \cup {Never}
    /\ answer.after \in Nat

Going == result # "none" => pc = "done"

(* An answer is about a moment while its request was out.                  *)
Answered ==
    /\ answer.kind = "paired" => redeemed # Never
    /\ pc = "answered" => handled \in sent..now
    /\ pc = "answered" /\ answer.kind = "unauthorized" =>
          \/ gone
          \/ handled < Lag
          \/ redeemed # Never /\ handled < redeemed + Lag

Slack == Timeout + LargerOf(Interval, answer.after)

(* Nothing is recorded of the future.                                      *)
InPast == sent <= now

(* How far a round has got, as long as timers are punctual.                *)
OnTime ==
    ~slept =>
        /\ pc \in {"polling", "answered"} => now <= sent + Timeout
        /\ pc \in {"check", "sleeping"} => now <= sent + Slack
        /\ pc = "sleeping" => now <= wake /\ wake <= sent + Slack

(* If the relay has not been asked since, the phone redeemed the code      *)
(* after the last request was sent.                                        *)
NotAsked == ~asked /\ redeemed # Never => sent <= redeemed

Honest == HonestEnd /\ LateRedemption

PollIInv == Num /\ InPast /\ Going /\ Answered /\ OnTime /\ NotAsked /\ Honest

-----------------------------------------------------------------------------
LEMMA PollInitHolds == PollInit => PollIInv
BY PollAssumption
   DEF PollInit, PollIInv, Num, InPast, Going, Answered, OnTime, Slack, NotAsked,
       LargerOf, NoAnswer, Never, Honest, HonestEnd, LateRedemption

(* A request is sent: nothing is known of its answer, and if the phone has *)
(* redeemed the code by now, this request asks after that.                 *)
LEMMA SendsStep == PollIInv /\ Sends => PollIInv'
<1> SUFFICES ASSUME PollIInv, Sends PROVE PollIInv'
  OBVIOUS
<1>1. Num' /\ InPast'
  BY DEF PollIInv, Num, InPast, Sends, NoAnswer, world
<1>2. pc = "check" /\ pc' = "polling" /\ result' = result /\ result = "none"
  BY DEF PollIInv, Going, Sends
<1>3. Going' /\ Honest'
  BY <1>2 DEF Going, Honest, HonestEnd, LateRedemption
<1>4. Answered'
  BY <1>2 DEF Answered, Sends, NoAnswer
<1>5. OnTime'
  BY <1>2, PollAssumption DEF PollIInv, Num, OnTime, Sends, world
<1>6. NotAsked'
  <2>1. ~asked' => redeemed' = Never
    BY DEF Sends, world
  <2> QED BY <2>1 DEF NotAsked
<1> QED BY <1>1, <1>3, <1>4, <1>5, <1>6 DEF PollIInv

LEMMA GivesUpStep == PollIInv /\ GivesUp => PollIInv'
BY PollAssumption
   DEF GivesUp, Returns, PollIInv, Num, InPast, Going, Answered, OnTime, Slack,
       NotAsked, LargerOf, NoAnswer, Never, world, Local, Honest, HonestEnd,
       LateRedemption

(* The relay does not recognise a bridge it has forgotten, or one it heard *)
(* of less than Lag ago.                                                   *)
LEMMA RelayAnswersStep == PollIInv /\ RelayAnswers => PollIInv'
<1> SUFFICES ASSUME PollIInv, RelayAnswers PROVE PollIInv'
  OBVIOUS
<1>1. Num' /\ InPast'
  <2>1. answer'.after \in Nat
    BY PollAssumption DEF RelayAnswers
  <2> QED BY <2>1 DEF PollIInv, Num, InPast, RelayAnswers, world
<1>2. pc = "polling" /\ pc' = "answered" /\ result' = result /\ result = "none"
  BY DEF PollIInv, Going, RelayAnswers
<1>3. Going' /\ Honest'
  BY <1>2 DEF Going, Honest, HonestEnd, LateRedemption
<1>4. Answered'
  <2>1. answer'.kind = "paired" => redeemed' # Never
    BY DEF RelayAnswers, world
  <2>2. handled' \in sent'..now'
    BY <1>2 DEF RelayAnswers, world, PollIInv, Num, InPast
  <2>3. answer'.kind = "unauthorized" => gone \/ MayLag
    BY DEF RelayAnswers, Recognised
  <2> QED BY <2>1, <2>2, <2>3 DEF Answered, MayLag, RelayAnswers, world
<1>5. OnTime'
  BY <1>2, PollAssumption DEF PollIInv, Num, OnTime, RelayAnswers, world
<1>6. NotAsked'
  BY DEF PollIInv, NotAsked, RelayAnswers, world
<1> QED BY <1>1, <1>3, <1>4, <1>5, <1>6 DEF PollIInv

(* The answer is late by at most the time-out, and so is the wait that     *)
(* follows it; a refusal outside the grace is not the relay's lag, unless  *)
(* the phone redeemed the code late.                                       *)
LEMMA ReceivesStep == PollIInv /\ Receives => PollIInv'
BY PollAssumption
   DEF Receives, Waits, Returns, InGrace, Remaining, Local, PollIInv, Num, InPast,
       Going, Answered, OnTime, Slack, NotAsked, LargerOf, SmallerOf, Never,
       world, Honest, HonestEnd, LateRedemption

LEMMA NoneCameStep == PollIInv /\ NoneCame => PollIInv'
BY PollAssumption
   DEF NoneCame, NoAnswer, Waits, Returns, Remaining, Local, PollIInv, Num,
       InPast, Going, Answered, OnTime, Slack, NotAsked, LargerOf, SmallerOf,
       Never, world, Honest, HonestEnd, LateRedemption

LEMMA WakesStep == PollIInv /\ Wakes => PollIInv'
BY PollAssumption
   DEF Wakes, Returns, PollIInv, Num, InPast, Going, Answered, OnTime, Slack,
       NotAsked, LargerOf, Never, world, Honest, HonestEnd, LateRedemption

(* A refusal and a redemption are not taken back, and nothing of the world *)
(* is looked at once the loop has ended.                                   *)
LEMMA WorldStep ==
    PollIInv /\ (Cancel \/ PhoneRedeems \/ RelayForgets \/ Suspend \/ Resume \/ Tick) => PollIInv'
<1> SUFFICES ASSUME PollIInv, Cancel \/ PhoneRedeems \/ RelayForgets \/ Suspend \/ Resume \/ Tick
             PROVE  PollIInv'
  OBVIOUS
<1>1. /\ pc # "done" /\ result = "none"
      /\ pc' = pc /\ sent' = sent /\ handled' = handled /\ answer' = answer
      /\ wake' = wake /\ result' = result /\ asked' = asked
  BY DEF PollIInv, Going, Cancel, PhoneRedeems, RelayForgets, Suspend, Resume, Tick, Unless, loop
<1>2. /\ now' \in {now, now + 1} /\ skew' = skew
      /\ redeemed' \in {redeemed, now} /\ (redeemed # Never => redeemed' = redeemed)
      /\ (gone => gone') /\ (slept => slept')
  BY DEF Cancel, PhoneRedeems, RelayForgets, Suspend, Resume, Tick, Unless
<1>3. Num' /\ InPast'
  BY <1>1, <1>2 DEF PollIInv, Num, InPast
<1>4. Going' /\ Honest'
  BY <1>1 DEF Going, Honest, HonestEnd, LateRedemption
<1>5. Answered'
  BY <1>1, <1>2 DEF PollIInv, Num, Answered, Never
<1>6. OnTime'
  <2>1. CASE Tick
    BY <1>1, <2>1, PollAssumption
       DEF PollIInv, Num, OnTime, Slack, LargerOf, Tick, Punctual, Unless
  <2>2. CASE ~Tick
    <3>1. now' = now
      BY <2>2 DEF Cancel, PhoneRedeems, RelayForgets, Suspend, Resume, Unless
    <3> QED BY <1>1, <1>2, <3>1 DEF PollIInv, OnTime, Slack
  <2> QED BY <2>1, <2>2
<1>7. NotAsked'
  BY <1>1, <1>2 DEF PollIInv, Num, NotAsked, InPast
<1> QED BY <1>3, <1>4, <1>5, <1>6, <1>7 DEF PollIInv

(* The inductive invariant.                                                *)
THEOREM PairPollInv == PollSpec => []PollIInv
<1>1. PollIInv /\ [PollNext]_pollVars => PollIInv'
  <2> SUFFICES ASSUME PollIInv, [PollNext]_pollVars PROVE PollIInv'
    OBVIOUS
  <2>1. CASE UNCHANGED pollVars
    BY <2>1 DEF pollVars, loop, world, PollIInv, Num, InPast, Going, Answered, OnTime,
                Slack, NotAsked, Honest, HonestEnd, LateRedemption
  <2> QED BY <2>1, SendsStep, GivesUpStep, RelayAnswersStep, ReceivesStep, NoneCameStep,
             WakesStep, WorldStep DEF PollNext, LoopStep
<1> QED BY <1>1, PollInitHolds, PTL DEF PollSpec

(* Type correctness, with what bounds the clock: a loop that has not ended *)
(* takes no step past MaxTime.                                             *)
THEOREM PairPollTypeOK == PollSpec => []PollTypeOK
<1> DEFINE Marks == {cancelled, gone, asleep, slept, asked} \subseteq BOOLEAN
<1>1. PollInit => PollTypeOK
  <2> SUFFICES ASSUME PollInit PROVE PollTypeOK
    OBVIOUS
  <2>1. Marks
    BY DEF PollInit
  <2>2. answer \in [kind : Kinds, after : RetryAfter \cup {0}]
    BY DEF PollInit, NoAnswer, Kinds
  <2> HIDE DEF Marks
  <2>3. Marks => PollTypeOK
    BY <2>2, PollAssumption DEF PollInit, PollTypeOK, Never, Marks
  <2> QED BY <2>1, <2>3
<1>2. PollTypeOK /\ [PollNext]_pollVars => PollTypeOK'
  <2> SUFFICES ASSUME PollTypeOK, [PollNext]_pollVars PROVE PollTypeOK'
    OBVIOUS
  <2> USE PollAssumption DEF PollTypeOK
  <2>1. CASE Sends
    BY <2>1 DEF Sends, NoAnswer, Kinds, Never, world
  <2>2. CASE GivesUp
    BY <2>2 DEF GivesUp, Returns, world
  <2>3. CASE RelayAnswers
    <3>1. answer' \in [kind : Kinds, after : RetryAfter \cup {0}]
      BY <2>3 DEF RelayAnswers, Kinds
    <3> QED BY <2>3, <3>1 DEF RelayAnswers, world
  <2>4. CASE Receives
    BY <2>4 DEF Receives, Waits, Returns, Remaining, Local, LargerOf, SmallerOf, world
  <2>5. CASE NoneCame
    BY <2>5 DEF NoneCame, Waits, Returns, Remaining, Local, LargerOf, SmallerOf, NoAnswer, Kinds, world
  <2>6. CASE Wakes
    BY <2>6 DEF Wakes, Returns, world
  <2>7. CASE Cancel \/ PhoneRedeems \/ RelayForgets \/ Suspend \/ Resume
    <3>1. Marks'
      BY <2>7 DEF Cancel, PhoneRedeems, RelayForgets, Suspend, Resume, Unless, loop
    <3>2. /\ now' = now /\ skew' = skew /\ pc' = pc /\ sent' = sent /\ handled' = handled
          /\ answer' = answer /\ wake' = wake /\ result' = result
          /\ redeemed' \in {redeemed, now}
      BY <2>7 DEF Cancel, PhoneRedeems, RelayForgets, Suspend, Resume, Unless, loop
    <3> QED BY <3>1, <3>2
  <2>8. CASE Tick
    BY <2>8 DEF Tick, Unless, loop
  <2>9. CASE UNCHANGED pollVars
    BY <2>9 DEF pollVars, loop, world
  <2> QED BY <2>1, <2>2, <2>3, <2>4, <2>5, <2>6, <2>7, <2>8, <2>9 DEF PollNext, LoopStep
<1> QED BY <1>1, <1>2, PTL DEF PollSpec

(* What pair tells the person is true of the relay: "paired" and, but for  *)
(* a phone that was late, "no longer recognized" (poll.go 116-181).        *)
THEOREM PairPollHonestEnd == PollSpec => []HonestEnd
<1>1. PollIInv => HonestEnd
  BY DEF PollIInv, Honest
<1> QED BY <1>1, PairPollInv, PTL

(* A code that pair calls expired without having asked again was redeemed  *)
(* within one request and one wait of its deadline (poll.go 109-147).      *)
THEOREM PairPollLateRedemption == PollSpec => []LateRedemption
<1>1. PollIInv => LateRedemption
  BY DEF PollIInv, Honest
<1> QED BY <1>1, PairPollInv, PTL

-----------------------------------------------------------------------------
(***************************************************************************)
(* The invariants of module Credentials, for any number of identities.     *)
(*                                                                         *)
(* What a store holds, or a killed child may still write, is the secret of *)
(* an identity the relay has created; pair's first Set writes a secret     *)
(* that is nowhere yet, and between its write and its read-back nothing    *)
(* but the platform's store can hold it.  Deletions and late writes only   *)
(* move what is held, or drop it.                                          *)
(***************************************************************************)

Held == {store["platform"], store["file"]} \cup late

Writing == {"write", "check", "show", "poll", "save"}

(* Only created identities' secrets are held.                              *)
HeldIsCreated == \A i \in Id : bridge[i] = "none" => i \notin Held

(* The command's new identity has been created.                            *)
NewIsCreated ==
    cmd.pc \in Writing \/ cmd.said = "failed" => cmd.new \in Id /\ bridge[cmd.new] # "none"

(* macOS has one store to choose.                                          *)
KeychainOnly == os = "darwin" /\ cmd.pc # "none" => cmd.own = "platform"

(* Where pair's first Set may have put the secret.                         *)
FirstSet ==
    /\ cmd.pc = "write" /\ cmd.nth = 1 => cmd.new \notin Held
    /\ cmd.pc = "check" => cmd.own = "platform"
    /\ cmd.pc = "check" /\ cmd.nth = 1 => cmd.new \notin {store["file"]} \cup late

(* Between unpair's two removals.                                          *)
HalfCleared ==
    /\ cmd.pc = "remove" /\ cmd.own = "platform" /\ ~failed /\ ~landed
    => store["platform"] = 0

Rest == /\ HeldIsCreated /\ NewIsCreated /\ KeychainOnly /\ FirstSet
        /\ HalfCleared /\ ShownIsStored /\ PlainFailureLeavesNothing /\ UnpairClears

StoreIInv == TypeOK /\ Rest

USE MaxIdAssumption

LEMMA StoreInitHolds == Init => StoreIInv
<1> SUFFICES ASSUME Init PROVE StoreIInv
  OBVIOUS
<1>1. TypeOK
  <2>1. cmd \in Commands
    BY DEF Init, NoCmd, Commands, Secret, Backend
  <2>2. /\ store \in [Backend -> Secret]
        /\ bridge \in [Id -> {"none", "pending", "shown", "active", "gone"}]
    BY DEF Init, Secret, Backend
  <2>3. late \subseteq Secret /\ cfg \in Secret
    BY DEF Init, Secret
  <2>4. run \in [pc : {"idle", "deleting"}, own : Backend, id : Secret]
    BY DEF Init, NoRun, Secret, Backend
  <2> QED
    BY <2>1, <2>2, <2>3, <2>4 DEF Init, TypeOK
<1>2. cmd.pc = "none" /\ cmd.said = "nothing"
  BY DEF Init, NoCmd
<1>3. \A i \in Id : i \notin Held
  BY DEF Init, Held, Id, Backend
<1> QED
  BY <1>1, <1>2, <1>3 DEF StoreIInv, Rest, HeldIsCreated, NewIsCreated, KeychainOnly, FirstSet,
     HalfCleared, ShownIsStored, PlainFailureLeavesNothing, UnpairClears, Writing

(* What a command's records may become.                                    *)
LEMMA CommandTypes ==
    ASSUME TypeOK
    PROVE  /\ \A said \in {"nothing", "failed", "unread", "unsure", "expired", "paired",
                           "unpaired"} : Ended(said) \in Commands
           /\ Stored \in Commands
           /\ \A at \in {"create", "revoke"}, b \in Backend, i \in Secret, s \in Secret :
                 [NoCmd EXCEPT !.pc = at, !.own = b, !.id = i, !.secret = s] \in Commands
           /\ \A i \in Id : [cmd EXCEPT !.pc = "write", !.new = i] \in Commands
           /\ [cmd EXCEPT !.pc = "write", !.nth = 2] \in Commands
           /\ \A at \in {"check", "poll", "delete", "remove"} :
                 [cmd EXCEPT !.pc = at] \in Commands
<1>a. /\ cmd \in Commands /\ Id \subseteq Secret /\ 0 \in Secret
      /\ 1 \in 1..2 /\ 2 \in 1..2 /\ "file" \in Backend
  BY DEF TypeOK, Id, Secret, Backend
<1> USE <1>a DEF Commands
<1>1. \A said \in {"nothing", "failed", "unread", "unsure", "expired", "paired",
                   "unpaired"} : Ended(said) \in Commands
  BY DEF Ended
<1>2. Stored \in Commands
  BY DEF Stored
<1>3. \A at \in {"create", "revoke"}, b \in Backend, i \in Secret, s \in Secret :
         [NoCmd EXCEPT !.pc = at, !.own = b, !.id = i, !.secret = s] \in Commands
  BY DEF NoCmd
<1>4. \A i \in Id : [cmd EXCEPT !.pc = "write", !.new = i] \in Commands
  OBVIOUS
<1>5. [cmd EXCEPT !.pc = "write", !.nth = 2] \in Commands
  OBVIOUS
<1>6. \A at \in {"check", "poll", "delete", "remove"} : [cmd EXCEPT !.pc = at] \in Commands
  OBVIOUS
<1> QED
  BY <1>1, <1>2, <1>3, <1>4, <1>5, <1>6

LEMMA StoreTypes ==
    ASSUME TypeOK
    PROVE  Default \subseteq Backend /\ \A b \in Backend : Get(b) \subseteq Secret
<1>1. Default \subseteq Backend
  BY DEF Default, Backend
<1>2. \A b \in Backend : Get(b) \subseteq Secret
  <2>1. 0 \in Secret
    BY DEF Secret
  <2> QED
    BY <2>1 DEF Get, TypeOK
<1> QED
  BY <1>1, <1>2

(* What a Delete and a write leave in the stores.                          *)
LEMMA DeleteTypes ==
    ASSUME TypeOK, NEW b \in Backend, NEW fails \in BOOLEAN, Delete(b, fails)
    PROVE  store' \in [Backend -> Secret] /\ late' \subseteq Secret
<1>1. 0 \in Secret
  BY DEF Secret
<1> QED
  BY <1>1 DEF TypeOK, Delete

LEMMA WriteTypes ==
    ASSUME TypeOK, NEW outcome, Write(outcome)
    PROVE  store' \in [Backend -> Secret] /\ late' \subseteq Secret
<1>1. cmd.own \in Backend /\ cmd.new \in Secret
  BY DEF TypeOK, Commands
<1> QED
  BY <1>1
     DEF TypeOK, Backend, Write, KeychainWrite, SecretToolWrite, FileWrite, Reached,
         Underway, Nothing, Killed

LEMMA LeftTypes ==
    ASSUME TypeOK, CommandDies
    PROVE  late' \subseteq Secret
<1>1. {0} \subseteq Secret /\ {cmd.new} \subseteq Secret /\ {} \subseteq Secret
  BY DEF TypeOK, Commands, Secret
<1> QED
  BY <1>1 DEF TypeOK, CommandDies, LeftToChild

LEMMA StoreTypeStep == TypeOK /\ [Next]_vars => TypeOK'
<1> SUFFICES ASSUME TypeOK, [Next]_vars PROVE TypeOK'
  OBVIOUS
<1> USE DEF TypeOK, hist
<1>1. ASSUME PairStarts PROVE TypeOK'
  <2>1. Default \subseteq Backend /\ \A b \in Backend : Get(b) \subseteq Secret
    BY StoreTypes
  <2>2. PICK b \in Backend, s \in Secret :
           cmd' = [NoCmd EXCEPT !.pc = "create", !.own = b, !.id = cfg, !.secret = s]
    BY <1>1, <2>1 DEF PairStarts
  <2>3. cmd' \in Commands
    BY <2>2, CommandTypes
  <2> QED
    BY <1>1, <2>3 DEF PairStarts
<1>2. ASSUME CreateBridge PROVE TypeOK'
  <2>1. PICK i \in Id :
           /\ cmd' = [cmd EXCEPT !.pc = "write", !.new = i]
           /\ bridge' \in {[bridge EXCEPT ![i] = "pending"],
                           [bridge EXCEPT ![i] = "pending", ![cmd.id] = "gone"]}
    BY <1>2 DEF CreateBridge
  <2>2. bridge' \in [Id -> {"none", "pending", "shown", "active", "gone"}]
    BY <2>1
  <2> QED
    BY <1>2, <2>1, <2>2, CommandTypes DEF CreateBridge
<1>3. ASSUME SetChecks PROVE TypeOK'
  BY <1>3, CommandTypes DEF SetChecks
<1>4. ASSUME ShowCode PROVE TypeOK'
  BY <1>4, CommandTypes DEF ShowCode
<1>5. ASSUME Polled PROVE TypeOK'
  BY <1>5, CommandTypes DEF Polled
<1>6. ASSUME SaveConfig PROVE TypeOK'
  BY <1>6, CommandTypes DEF SaveConfig, Commands
<1>7. ASSUME NEW outcome \in Outcome, SetWrites(outcome) PROVE TypeOK'
  <2>1. cmd' \in Commands
    BY <1>7, CommandTypes DEF SetWrites, WriteFailed
  <2>2. store' \in [Backend -> Secret] /\ late' \subseteq Secret
    BY <1>7, WriteTypes DEF SetWrites
  <2>3. taken' = FALSE /\ signalled' \in BOOLEAN
    BY <1>7 DEF SetWrites, Write
  <2> QED
    BY <1>7, <2>1, <2>2, <2>3 DEF SetWrites
<1>8. ASSUME UnpairStarts PROVE TypeOK'
  <2>1. Default \subseteq Backend /\ \A b \in Backend : Get(b) \subseteq Secret
    BY StoreTypes
  <2>2. PICK b \in Backend, s \in Secret :
           cmd' = [NoCmd EXCEPT !.pc = "revoke", !.own = b, !.id = cfg, !.secret = s]
    BY <1>8, <2>1 DEF UnpairStarts
  <2>3. cmd' \in Commands
    BY <2>2, CommandTypes
  <2> QED
    BY <1>8, <2>3 DEF UnpairStarts
<1>9. ASSUME RevokeSelf PROVE TypeOK'
  BY <1>9, CommandTypes DEF RevokeSelf, Revoke, Honours
<1>10. ASSUME NEW fails \in BOOLEAN, DeleteSecret(fails) PROVE TypeOK'
  <2>1. store' \in [Backend -> Secret] /\ late' \subseteq Secret
    BY <1>10, DeleteTypes DEF DeleteSecret, Commands
  <2> QED
    BY <1>10, <2>1, CommandTypes DEF DeleteSecret
<1>11. ASSUME NEW fails \in BOOLEAN, RemoveFiles(fails) PROVE TypeOK'
  <2>1. store' \in [Backend -> Secret] /\ cfg' \in Secret
    BY <1>11 DEF RemoveFiles, Secret, Backend
  <2> QED
    BY <1>11, <2>1, CommandTypes DEF RemoveFiles
<1>12. ASSUME CommandDies PROVE TypeOK'
  <2>1. late' \subseteq Secret
    BY <1>12, LeftTypes DEF CommandDies, Commands
  <2> QED
    BY <1>12, <2>1, CommandTypes DEF CommandDies
<1>13. ASSUME RunStruck PROVE TypeOK'
  BY <1>13 DEF RunStruck, Default, Backend
<1>14. ASSUME NEW fails \in BOOLEAN, RunDeletes(fails) PROVE TypeOK'
  <2>1. store' \in [Backend -> Secret] /\ late' \subseteq Secret
    BY <1>14, DeleteTypes DEF RunDeletes
  <2>2. run' \in [pc : {"idle", "deleting"}, own : Backend, id : Secret]
    BY <1>14 DEF RunDeletes, NoRun, Backend, Secret
  <2> QED
    BY <1>14, <2>1, <2>2 DEF RunDeletes
<1>15. ASSUME RunDies PROVE TypeOK'
  BY <1>15 DEF RunDies, LeftToChild, NoRun, Backend, Secret
<1>16. ASSUME Lands PROVE TypeOK'
  BY <1>16 DEF Lands, Backend
<1>17. ASSUME NEW i \in Id, Redeem(i) \/ Forget(i) PROVE TypeOK'
  BY <1>17 DEF Redeem, Forget
<1>18. CASE UNCHANGED vars
  BY <1>18 DEF vars
<1> QED
  BY <1>1, <1>2, <1>3, <1>4, <1>5, <1>6, <1>7, <1>8, <1>9, <1>10, <1>11, <1>12, <1>13,
     <1>14, <1>15, <1>16, <1>17, <1>18 DEF Next, Pair, Unpair, Run

(* The parts of a command's record after each of its changes.              *)
LEMMA Fields ==
    ASSUME TypeOK
    PROVE  /\ \A said : /\ Ended(said).pc = "none" /\ Ended(said).said = said
                        /\ Ended(said).own = cmd.own /\ Ended(said).new = cmd.new
                        /\ Ended(said).nth = cmd.nth
           /\ /\ Stored.pc = (IF cmd.nth = 2 THEN "save" ELSE "show")
              /\ Stored.own = cmd.own /\ Stored.new = cmd.new /\ Stored.nth = cmd.nth
              /\ Stored.said = cmd.said
           /\ \A at : LET c == [cmd EXCEPT !.pc = at]
                      IN  /\ c.pc = at /\ c.own = cmd.own /\ c.new = cmd.new
                          /\ c.nth = cmd.nth /\ c.said = cmd.said
           /\ LET c == [cmd EXCEPT !.pc = "write", !.nth = 2]
              IN  /\ c.pc = "write" /\ c.own = cmd.own /\ c.new = cmd.new
                  /\ c.nth = 2 /\ c.said = cmd.said
           /\ \A i : LET c == [cmd EXCEPT !.pc = "write", !.new = i]
                     IN  /\ c.pc = "write" /\ c.own = cmd.own /\ c.new = i
                         /\ c.nth = cmd.nth /\ c.said = cmd.said
BY DEF TypeOK, Commands, Ended, Stored

(* Every step keeps the invariant.                                         *)
LEMMA StoreStep == StoreIInv /\ [Next]_vars => StoreIInv'
<1> SUFFICES ASSUME StoreIInv, [Next]_vars PROVE StoreIInv'
  OBVIOUS
<1>0. TypeOK /\ TypeOK'
  BY StoreTypeStep DEF StoreIInv
<1>a. "platform" \in Backend /\ "file" \in Backend /\ "platform" # "file" /\ 0 \notin Id
  BY DEF Backend, Id
<1>b. \A b \in Backend : b = "platform" \/ b = "file"
  BY DEF Backend
<1>c. /\ cmd.own \in Backend /\ cmd.nth \in 1..2 /\ run.own \in Backend
      /\ store \in [Backend -> Secret]
  BY <1>0 DEF TypeOK, Commands
<1>d. bridge \in [Id -> {"none", "pending", "shown", "active", "gone"}]
  BY <1>0 DEF TypeOK
<1> USE <1>a, <1>b, <1>c, <1>d
        DEF StoreIInv, Rest, HeldIsCreated, NewIsCreated, KeychainOnly, FirstSet, HalfCleared,
            ShownIsStored, PlainFailureLeavesNothing, UnpairClears, Held, Writing, hist
<1>1. ASSUME PairStarts PROVE Rest'
  BY <1>1 DEF PairStarts, NoCmd, Default
<1>2. ASSUME CreateBridge PROVE Rest'
  BY <1>0, <1>2, Fields DEF CreateBridge
<1>3. ASSUME SetChecks PROVE Rest'
  BY <1>0, <1>3, Fields DEF SetChecks, Confirms
<1>4. ASSUME ShowCode PROVE Rest'
  BY <1>0, <1>4, Fields DEF ShowCode
<1>5. ASSUME Polled PROVE Rest'
  <2>1. CASE bridge[cmd.new] = "active" /\ cmd' = [cmd EXCEPT !.pc = "write", !.nth = 2]
    BY <1>0, <1>5, <2>1, Fields DEF Polled
  <2>2. CASE cmd' = Ended("expired")
    BY <1>0, <1>5, <2>2, Fields DEF Polled
  <2> QED
    BY <1>5, <2>1, <2>2 DEF Polled
<1>6. ASSUME SaveConfig PROVE Rest'
  BY <1>0, <1>6, Fields DEF SaveConfig
<1>7. ASSUME NEW outcome \in Outcome, SetWrites(outcome) PROVE Rest'
  <2>1. /\ cmd.pc = "write" /\ bridge' = bridge /\ os' = os /\ cmd.new \in Id
        /\ bridge[cmd.new] # "none" /\ taken' = FALSE
    BY <1>7
       DEF SetWrites, Write, KeychainWrite, SecretToolWrite, FileWrite, Reached,
           Underway, Nothing, Killed
  <2>2. CASE outcome = "exit 0" /\ ReadsBack
    <3>1. cmd' = [cmd EXCEPT !.pc = "check"]
      BY <1>7, <2>2 DEF SetWrites
    <3>2. /\ late' = late
          /\ store' \in {store, [store EXCEPT ![cmd.own] = cmd.new]}
      BY <1>7, <2>2
         DEF SetWrites, Write, KeychainWrite, SecretToolWrite, FileWrite, Reached,
             Underway, Nothing, Killed
    <3>3. /\ cmd'.pc = "check" /\ cmd'.own = cmd.own /\ cmd'.new = cmd.new
          /\ cmd'.nth = cmd.nth /\ cmd'.said = cmd.said
      BY <1>0, <3>1, Fields
    <3>4. cmd.own = "platform"
      BY <2>1, <2>2 DEF ReadsBack
    <3>5. CASE store' = store
      BY <2>1, <3>2, <3>3, <3>4, <3>5
    <3>6. CASE store' = [store EXCEPT ![cmd.own] = cmd.new]
      <4>1. store'["file"] = store["file"] /\ store'["platform"] = cmd.new
        BY <3>4, <3>6
      <4> QED
        BY <2>1, <3>2, <3>3, <3>4, <4>1
    <3> QED
      BY <3>2, <3>5, <3>6
  <2>3. CASE outcome = "exit 0" /\ ~ReadsBack
    <3>1. cmd' = Stored
      BY <1>7, <2>3 DEF SetWrites
    <3>2. late' = late /\ store' = [store EXCEPT ![cmd.own] = cmd.new]
      BY <1>7, <2>3
         DEF SetWrites, ReadsBack, Write, KeychainWrite, SecretToolWrite, FileWrite,
             Reached, Underway, Nothing, Killed
    <3> QED
      BY <1>0, <2>1, <2>3, <3>1, <3>2, Fields DEF ReadsBack
  <2>4. CASE outcome = "refused"
    <3>1. cmd' = Ended("failed") /\ late' = late /\ store' = store
      BY <1>7, <2>4
         DEF SetWrites, WriteFailed, Write, KeychainWrite, SecretToolWrite, FileWrite,
             Reached, Underway, Nothing, Killed
    <3>2. /\ cmd'.pc = "none" /\ cmd'.said = "failed" /\ cmd'.own = cmd.own
          /\ cmd'.new = cmd.new /\ cmd'.nth = cmd.nth
      BY <1>0, <3>1, Fields
    <3> QED
      BY <2>1, <3>1, <3>2
  <2>5. CASE outcome \in Killed
    <3>1. cmd' = Ended(WriteFailed(outcome)) /\ cmd.own = "platform"
      BY <1>7, <2>5
         DEF SetWrites, Write, KeychainWrite, SecretToolWrite, FileWrite, Reached,
             Underway, Nothing, Killed
    <3>2. /\ late' \subseteq late \cup {cmd.new}
          /\ store' \in {store, [store EXCEPT !["platform"] = cmd.new]}
      BY <1>7, <2>5, <3>1
         DEF SetWrites, Write, KeychainWrite, SecretToolWrite, FileWrite, Reached,
             Underway, Nothing, Killed
    <3>3. cmd'.pc = "none" /\ cmd'.own = "platform" /\ cmd'.new = cmd.new
      BY <1>0, <3>1, Fields
    <3>4. cmd'.said = IF os = "darwin" /\ outcome = "timed out" THEN "unsure" ELSE "failed"
      BY <1>0, <3>1, Fields DEF WriteFailed
    <3>5. store'["file"] = store["file"] /\ store'["platform"] \in {store["platform"], cmd.new}
      BY <3>2
    <3>6. HeldIsCreated'
      BY <2>1, <3>2, <3>5
    <3>7. PlainFailureLeavesNothing'
      <4>1. CASE outcome = "signalled"
        <5>1. signalled'
          BY <1>7, <4>1 DEF SetWrites
        <5> QED
          BY <5>1
      <4>2. CASE outcome = "timed out"
        BY <2>1, <3>3, <3>4, <4>2, <1>0 DEF TypeOK
      <4> QED
        BY <2>5, <4>1, <4>2 DEF Killed
    <3> QED
      BY <2>1, <3>3, <3>4, <3>6, <3>7
  <2> QED
    BY <2>2, <2>3, <2>4, <2>5 DEF Outcome
<1>8. ASSUME UnpairStarts PROVE Rest'
  BY <1>8 DEF UnpairStarts, NoCmd, Default
<1>9. ASSUME RevokeSelf PROVE Rest'
  BY <1>0, <1>9, Fields DEF RevokeSelf, Revoke, Honours
<1>10. ASSUME NEW fails \in BOOLEAN, DeleteSecret(fails) PROVE Rest'
  BY <1>0, <1>10, Fields DEF DeleteSecret, Delete
<1>11. ASSUME NEW fails \in BOOLEAN, RemoveFiles(fails) PROVE Rest'
  <2>1. cmd'.pc = "none" /\ cmd'.said = "unpaired" /\ cmd'.own = cmd.own /\ late' = late
    BY <1>0, <1>11, Fields DEF RemoveFiles
  <2>2. CASE fails
    BY <1>11, <2>1, <2>2 DEF RemoveFiles
  <2>3. CASE ~fails
    <3>1. store'["file"] = 0 /\ store'["platform"] = store["platform"]
      BY <1>11, <2>3 DEF RemoveFiles, FileRemoved
    <3> QED
      BY <1>11, <2>1, <2>3, <3>1 DEF RemoveFiles
  <2> QED
    BY <2>2, <2>3
<1>12. ASSUME CommandDies PROVE Rest'
  <2>1. cmd'.pc = "none" /\ cmd'.said = "nothing"
    BY <1>0, <1>12, Fields DEF CommandDies
  <2>2. /\ late' \subseteq late \cup {0} \cup (IF cmd.pc = "write" THEN {cmd.new} ELSE {})
        /\ store' = store /\ bridge' = bridge
    BY <1>12 DEF CommandDies, LeftToChild
  <2>3. HeldIsCreated'
    BY <2>2
  <2> QED
    BY <2>1, <2>3
<1>13. ASSUME RunStruck PROVE Rest'
  BY <1>13 DEF RunStruck
<1>14. ASSUME NEW fails \in BOOLEAN, RunDeletes(fails) PROVE Rest'
  <2>1. cmd' = cmd /\ bridge' = bridge /\ os' = os /\ failed' = failed /\ landed' = landed
        /\ signalled' = signalled
    BY <1>14 DEF RunDeletes
  <2>2. CASE fails
    <3>1. store' = store /\ late' \subseteq late \cup {0} /\ (taken => taken')
      BY <1>14, <2>2 DEF RunDeletes, Delete
    <3> QED
      BY <1>0, <2>1, <3>1 DEF TypeOK
  <2>3. CASE ~fails
    <3>1. store' = [store EXCEPT ![run.own] = 0] /\ late' = late /\ taken'
      BY <1>14, <2>3 DEF RunDeletes, Delete
    <3>2. store'["platform"] \in {store["platform"], 0} /\ store'["file"] \in {store["file"], 0}
      BY <3>1
    <3> QED
      BY <1>0, <2>1, <3>1, <3>2 DEF TypeOK
  <2> QED
    BY <2>2, <2>3
<1>15. ASSUME RunDies PROVE Rest'
  BY <1>0, <1>15 DEF RunDies, LeftToChild, TypeOK
<1>16. ASSUME Lands PROVE Rest'
  BY <1>16 DEF Lands
<1>17. ASSUME NEW i \in Id, Redeem(i) \/ Forget(i) PROVE Rest'
  BY <1>17 DEF Redeem, Forget
<1>18. ASSUME UNCHANGED vars PROVE Rest'
  <2>1. /\ os' = os /\ store' = store /\ late' = late /\ cfg' = cfg /\ bridge' = bridge
        /\ cmd' = cmd /\ taken' = taken /\ failed' = failed /\ landed' = landed
        /\ signalled' = signalled
    BY <1>18 DEF vars
  <2>2. Held' = Held
    BY <2>1
  <2>3. HeldIsCreated' /\ NewIsCreated' /\ KeychainOnly' /\ FirstSet'
    BY <2>1, <2>2
  <2>4. HalfCleared' /\ ShownIsStored' /\ PlainFailureLeavesNothing' /\ UnpairClears'
    BY <2>1
  <2> QED
    BY <2>3, <2>4
<1> HIDE DEF HeldIsCreated, NewIsCreated, KeychainOnly, FirstSet, HalfCleared,
        ShownIsStored, PlainFailureLeavesNothing, UnpairClears, Rest, StoreIInv, Held, Writing, hist
<1>19. ASSUME Pair PROVE Rest'
  BY <1>1, <1>2, <1>3, <1>4, <1>5, <1>6, <1>7, <1>19 DEF Pair
<1>20. ASSUME Unpair PROVE Rest'
  BY <1>8, <1>9, <1>10, <1>11, <1>20 DEF Unpair
<1>21. ASSUME Run PROVE Rest'
  BY <1>13, <1>14, <1>15, <1>21 DEF Run
<1>22. Rest'
  BY <1>12, <1>16, <1>17, <1>18, <1>19, <1>20, <1>21 DEF Next
<1> QED
  BY <1>0, <1>22 DEF StoreIInv

-----------------------------------------------------------------------------
(* The invariant holds in every state, whatever processes, killed children *)
(* and the relay do.                                                       *)
THEOREM CredentialsInv == Spec => []StoreIInv
BY StoreInitHolds, StoreStep, PTL DEF Spec

(* While a code is out, and after a good pair, the secret is stored.       *)
THEOREM CredentialsShownIsStored == Spec => []ShownIsStored
BY CredentialsInv, PTL DEF StoreIInv, Rest

(* A plain "storing the secret failed" leaves no new secret behind.        *)
THEOREM CredentialsPlainFailure == Spec => []PlainFailureLeavesNothing
BY CredentialsInv, PTL DEF StoreIInv, Rest

(* An unpair that found the platform's store leaves a secret in neither.   *)
THEOREM CredentialsUnpairClears == Spec => []UnpairClears
BY CredentialsInv, PTL DEF StoreIInv, Rest
=============================================================================
