----------------------------- MODULE Credentials -----------------------------
(***************************************************************************)
(* internal/cred and its users: pair, unpair and a flush run (pair.go,     *)
(* unpair.go, flush.go).  The bridge's secret lives in the platform's      *)
(* store (the macOS Keychain, the Linux Secret Service), which is driven   *)
(* through a child process that may refuse, hang until it is killed, be    *)
(* ended by a signal meant for its process group, or have its effect after *)
(* it was killed or its parent died; or, where a process finds no such     *)
(* store, in a file.  Every process picks its own store.                   *)
(*                                                                         *)
(* A bridge identity is a number and its secret the same number; 0 is      *)
(* none.  Module Pairing has the rest of the commands, the strikes of a    *)
(* run and the run's lock: here a run stands for the one that collects the *)
(* last strike.                                                            *)
(***************************************************************************)
EXTENDS Naturals

CONSTANT MaxId \* bound: identities the relay ever creates

ASSUME MaxIdAssumption == MaxId \in Nat

VARIABLES
    os,     \* "darwin" or "linux"
    store,  \* what the platform's store and the credentials file hold
    late,   \* what children killed in the act, or left behind by a process
            \* that died, may still do to the platform's store: write a
            \* secret, or, 0, delete it
    cfg,    \* config.json: the bridge id
    bridge, \* the relay: what it holds of each identity
    cmd,    \* the person's command, and how the last one ended
    run,    \* the flush run
    (* history *)
    taken,  \* what the last Set stored has been deleted or overwritten since
    failed, \* unpair said that it could not delete something
    landed, \* a killed child had its effect since the last command began
    signalled \* the child of the last write was ended by somebody's signal

vars == <<os, store, late, cfg, bridge, cmd, run, taken, failed, landed, signalled>>

Id == 1..MaxId
Backend == {"platform", "file"}
NoCmd == [pc |-> "none", own |-> "file", id |-> 0, secret |-> 0, new |-> 0,
          nth |-> 1, said |-> "nothing"]
NoRun == [pc |-> "idle", own |-> "file", id |-> 0]

Init ==
    /\ os \in {"darwin", "linux"}
    /\ store = [b \in Backend |-> 0] /\ late = {} /\ cfg = 0
    /\ bridge = [i \in Id |-> "none"]
    /\ cmd = NoCmd /\ run = NoRun
    /\ taken = FALSE /\ failed = FALSE /\ landed = FALSE /\ signalled = FALSE

hist == <<taken, failed, landed, signalled>>

-----------------------------------------------------------------------------
(* The stores.                                                             *)

(* Default, once per process: security(1) is part of macOS; secret-tool    *)
(* may be on one process's PATH and not on another's.                      *)
Default == IF os = "darwin" THEN {"platform"} ELSE Backend

(* Get, as pair, unpair and flush use it: a store that holds nothing, one  *)
(* that cannot be read and one that does not answer are all no secret.     *)
Get(b) == {store[b], 0}

(* A store's Delete: done, or failed - after which a killed child may      *)
(* still delete.                                                           *)
Delete(b, fails) ==
    \/ /\ ~fails
       /\ store' = [store EXCEPT ![b] = 0]
       /\ UNCHANGED late
    \/ /\ fails
       /\ late' \in {late, IF b = "platform" THEN late \cup {0} ELSE late}
       /\ UNCHANGED store

(* The effect of a killed child, or of one without a parent, on the        *)
(* platform's store.                                                       *)
Lands ==
    \E s \in late :
        /\ store' = [store EXCEPT !["platform"] = s]
        /\ late' = late \ {s}
        /\ taken' = TRUE /\ landed' = TRUE
        /\ UNCHANGED <<os, cfg, bridge, cmd, run, failed, signalled>>

(* The write of a Set ends: it exits with 0, is refused, is killed by the  *)
(* time-out of its own, or by a signal of others (pair survives the        *)
(* terminal's interrupt, and its child does not).  A killed one has stored *)
(* the secret, is about to, or never will.                                 *)
Killed == {"timed out", "signalled"}
Outcome == {"exit 0", "refused"} \cup Killed

Reached == store' = [store EXCEPT !["platform"] = cmd.new] /\ UNCHANGED late
Underway == late' = late \cup {cmd.new} /\ UNCHANGED store
Nothing == UNCHANGED <<store, late>>

(* security(1)'s exit status is an observed property of it: 0 may mean     *)
(* that nothing was stored.                                                *)
KeychainWrite(outcome) ==
    \/ outcome \in {"exit 0"} \cup Killed /\ Reached
    \/ outcome \in Killed /\ Underway
    \/ Nothing

SecretToolWrite(outcome) ==
    \/ outcome \in {"exit 0"} \cup Killed /\ Reached
    \/ outcome \in Killed /\ Underway
    \/ outcome # "exit 0" /\ Nothing

(* A temporary file, renamed.                                              *)
FileWrite(outcome) ==
    \/ outcome = "exit 0" /\ store' = [store EXCEPT !["file"] = cmd.new] /\ UNCHANGED late
    \/ outcome = "refused" /\ Nothing

Write(outcome) ==
    /\ \/ cmd.own = "platform" /\ os = "darwin" /\ KeychainWrite(outcome)
       \/ cmd.own = "platform" /\ os = "linux" /\ SecretToolWrite(outcome)
       \/ cmd.own = "file" /\ FileWrite(outcome)
    /\ taken' = FALSE

(* Only the Keychain's Set reads back what it wrote.                       *)
ReadsBack == os = "darwin"

Bug_WriteFailed(outcome) == "failed"

(* What an unsuccessful write makes Set say.  Only the Keychain's tells    *)
(* anything from a refusal, and only its own time-out.                     *)
WriteFailed(outcome) ==
    IF os = "darwin" /\ outcome = "timed out" THEN "unsure" ELSE "failed"

Bug_Confirms(stored, secret) == stored # 0
Confirms(stored, secret) == stored = secret

-----------------------------------------------------------------------------
(* The relay and the phone.                                                *)

Honours(i, secret) == i # 0 /\ i = secret /\ bridge[i] = "active"

Redeem(i) ==
    /\ bridge[i] = "shown"
    /\ bridge' = [bridge EXCEPT ![i] = "active"]
    /\ UNCHANGED <<os, store, late, cfg, cmd, run, hist>>

Forget(i) ==
    /\ bridge[i] \in {"shown", "active"}
    /\ bridge' = [bridge EXCEPT ![i] = "gone"]
    /\ UNCHANGED <<os, store, late, cfg, cmd, run, hist>>

(* DELETE /v1/bridges/me, best effort.                                     *)
Revoke ==
    \/ UNCHANGED bridge
    \/ /\ Honours(cmd.id, cmd.secret)
       /\ bridge' = [bridge EXCEPT ![cmd.id] = "gone"]

-----------------------------------------------------------------------------
(* pair.                                                                   *)

Ended(said) == [cmd EXCEPT !.pc = "none", !.said = said]

PairStarts ==
    /\ cmd.pc = "none"
    /\ \E b \in Default : \E s \in Get(b) :
          cmd' = [NoCmd EXCEPT !.pc = "create", !.own = b, !.id = cfg, !.secret = s]
    /\ failed' = FALSE /\ landed' = FALSE
    /\ UNCHANGED <<os, store, late, cfg, bridge, run, taken, signalled>>

(* POST /v1/bridges, and the identity being replaced is revoked if the     *)
(* command has its secret.                                                 *)
CreateBridge ==
    /\ cmd.pc = "create"
    /\ \E i \in Id :
          /\ bridge[i] = "none" /\ \A j \in Id : j < i => bridge[j] # "none"
          /\ cmd' = [cmd EXCEPT !.pc = "write", !.new = i]
          /\ bridge' \in {[bridge EXCEPT ![i] = "pending"]} \cup
                 IF Honours(cmd.id, cmd.secret)
                 THEN {[bridge EXCEPT ![i] = "pending", ![cmd.id] = "gone"]} ELSE {}
    /\ UNCHANGED <<os, store, late, cfg, run, hist>>

(* The first Set comes before the code is shown, the second once the phone *)
(* has redeemed it.                                                        *)
Stored == [cmd EXCEPT !.pc = IF cmd.nth = 2 THEN "save" ELSE "show"]

SetWrites(outcome) ==
    /\ cmd.pc = "write" /\ Write(outcome)
    /\ cmd' = CASE outcome = "exit 0" /\ ReadsBack -> [cmd EXCEPT !.pc = "check"]
                [] outcome = "exit 0" /\ ~ReadsBack -> Stored
                [] OTHER -> Ended(WriteFailed(outcome))
    /\ signalled' = (outcome = "signalled")
    /\ UNCHANGED <<os, cfg, bridge, run, failed, landed>>

(* The read-back, through rawGet: other processes may have been at the     *)
(* store since the write.  "unread" is a refusal, which is reported in the *)
(* words of "failed".                                                      *)
SetChecks ==
    /\ cmd.pc = "check"
    /\ cmd' \in {IF Confirms(store[cmd.own], cmd.new) THEN Stored ELSE Ended("failed"),
                 Ended("unread"), Ended("unsure")}
    /\ UNCHANGED <<os, store, late, cfg, bridge, run, hist>>

ShowCode ==
    /\ cmd.pc = "show"
    /\ cmd' = [cmd EXCEPT !.pc = "poll"]
    /\ bridge' = [bridge EXCEPT ![cmd.new] = "shown"]
    /\ UNCHANGED <<os, store, late, cfg, run, hist>>

(* pair.Poll.                                                              *)
Polled ==
    /\ cmd.pc = "poll"
    /\ \/ bridge[cmd.new] = "active" /\ cmd' = [cmd EXCEPT !.pc = "write", !.nth = 2]
       \/ cmd' = Ended("expired")
    /\ UNCHANGED <<os, store, late, cfg, bridge, run, hist>>

SaveConfig ==
    /\ cmd.pc = "save"
    /\ cfg' = cmd.new
    /\ cmd' = Ended("paired")
    /\ UNCHANGED <<os, store, late, bridge, run, hist>>

-----------------------------------------------------------------------------
(* unpair, and what ends either command.                                   *)

UnpairStarts ==
    /\ cmd.pc = "none"
    /\ \E b \in Default : \E s \in Get(b) :
          cmd' = [NoCmd EXCEPT !.pc = "revoke", !.own = b, !.id = cfg, !.secret = s]
    /\ failed' = FALSE /\ landed' = FALSE
    /\ UNCHANGED <<os, store, late, cfg, bridge, run, taken, signalled>>

RevokeSelf ==
    /\ cmd.pc = "revoke" /\ Revoke
    /\ cmd' = [cmd EXCEPT !.pc = "delete"]
    /\ UNCHANGED <<os, store, late, cfg, run, hist>>

(* deleteLocalData goes on whatever fails.                                 *)
DeleteSecret(fails) ==
    /\ cmd.pc = "delete" /\ Delete(cmd.own, fails)
    /\ cmd' = [cmd EXCEPT !.pc = "remove"]
    /\ taken' = (taken \/ ~fails) /\ failed' = fails
    /\ UNCHANGED <<os, cfg, bridge, run, landed, signalled>>

Bug_FileRemoved(b) == b = "file"

(* The credentials file goes too, in case an earlier run used it; fails is *)
(* about that file.                                                        *)
FileRemoved(b) == b \in Backend

RemoveFiles(fails) ==
    /\ cmd.pc = "remove"
    /\ store' = IF ~fails /\ FileRemoved(cmd.own) THEN [store EXCEPT !["file"] = 0] ELSE store
    /\ taken' = (taken \/ ~fails) /\ failed' = (failed \/ fails)
    /\ cfg' = 0
    /\ cmd' = Ended("unpaired")
    /\ UNCHANGED <<os, late, bridge, run, landed, signalled>>

(* What a process that dies leaves to a child of its own.                  *)
LeftToChild(own, asked) ==
    late' \in {late, IF own = "platform" THEN late \cup asked ELSE late}

(* A child in the act of a write or a deletion outlives the command.       *)
CommandDies ==
    /\ cmd.pc # "none"
    /\ LeftToChild(cmd.own, CASE cmd.pc = "write"  -> {cmd.new}
                              [] cmd.pc = "delete" -> {0}
                              [] OTHER             -> {})
    /\ cmd' = Ended("nothing")
    /\ UNCHANGED <<os, store, cfg, bridge, run, hist>>

-----------------------------------------------------------------------------
(* The flush run.                                                          *)

(* It reads the configuration and its own store, and posts with both; the  *)
(* relay answers 401 once more.                                            *)
RunStruck ==
    /\ run.pc = "idle" /\ cfg # 0
    /\ \E b \in Default : \E s \in Get(b) \ {0} :
          /\ ~Honours(cfg, s)
          /\ run' = [pc |-> "deleting", own |-> b, id |-> cfg]
    /\ UNCHANGED <<os, store, late, cfg, bridge, cmd, hist>>

RunDeletes(fails) ==
    /\ run.pc = "deleting" /\ Delete(run.own, fails)
    /\ run' = NoRun
    /\ taken' = (taken \/ ~fails)
    /\ UNCHANGED <<os, cfg, bridge, cmd, failed, landed, signalled>>

RunDies ==
    /\ run.pc # "idle"
    /\ run' = NoRun
    /\ LeftToChild(run.own, {0})
    /\ UNCHANGED <<os, store, cfg, bridge, cmd, hist>>

-----------------------------------------------------------------------------
Pair == PairStarts \/ CreateBridge \/ SetChecks \/ ShowCode \/ Polled \/ SaveConfig
        \/ \E outcome \in Outcome : SetWrites(outcome)
Unpair == UnpairStarts \/ RevokeSelf
          \/ \E fails \in BOOLEAN : DeleteSecret(fails) \/ RemoveFiles(fails)
Run == RunStruck \/ RunDies \/ \E fails \in BOOLEAN : RunDeletes(fails)

Next == \/ Pair \/ Unpair \/ CommandDies \/ Run \/ Lands
        \/ \E i \in Id : Redeem(i) \/ Forget(i)

Spec == Init /\ [][Next]_vars

-----------------------------------------------------------------------------
Secret == 0..MaxId

Commands ==
    [pc : {"none", "create", "write", "check", "show", "poll", "save", "revoke",
           "delete", "remove"},
     own : Backend, id : Secret, secret : Secret, new : Secret, nth : 1..2,
     said : {"nothing", "failed", "unread", "unsure", "expired", "paired", "unpaired"}]

TypeOK ==
    /\ os \in {"darwin", "linux"}
    /\ store \in [Backend -> Secret] /\ late \subseteq Secret /\ cfg \in Secret
    /\ bridge \in [Id -> {"none", "pending", "shown", "active", "gone"}]
    /\ cmd \in Commands
    /\ run \in [pc : {"idle", "deleting"}, own : Backend, id : Secret]
    /\ taken \in BOOLEAN /\ failed \in BOOLEAN /\ landed \in BOOLEAN
    /\ signalled \in BOOLEAN

(* pair.go:169-171 and 207-211: while a code is out, and after a pair that *)
(* ended well, the store that pair used holds the secret the relay knows,  *)
(* even if security(1) stored nothing and said it had; unless a run or a   *)
(* killed child was at the store after the last Set.                       *)
ShownIsStored ==
    cmd.pc \in {"show", "poll", "save"} \/ (cmd.pc = "none" /\ cmd.said = "paired")
    => store[cmd.own] = cmd.new \/ taken

(* keychain_darwin.go:169-184: a pair that says that storing failed, and   *)
(* not that it does not know, leaves no new secret behind, now or later.   *)
(* The exceptions are a read-back that was refused, which says so of a     *)
(* secret that is stored, the Secret Service, which says so of a child it  *)
(* killed, and the Keychain of a child that somebody else's signal ended;  *)
(* and the first Set's secret when the second one fails.                   *)
PlainFailureLeavesNothing ==
    /\ cmd.pc = "none" /\ cmd.said = "failed"
    /\ cmd.nth = 1
    /\ ~(os = "linux" /\ cmd.own = "platform") /\ ~signalled
    => cmd.new \notin {store["platform"], store["file"]} \cup late

(* unpair.go:185, README.md:152: an unpair whose process finds the         *)
(* platform's store, and that says that nothing could not be deleted,      *)
(* leaves a secret in neither store, whichever stores earlier commands     *)
(* used; until a killed child brings one back.                             *)
UnpairClears ==
    /\ cmd.pc = "none" /\ cmd.said = "unpaired"
    /\ cmd.own = "platform" /\ ~failed /\ ~landed
    => \A b \in Backend : store[b] = 0
=============================================================================
