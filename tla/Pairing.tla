------------------------------- MODULE Pairing -------------------------------
(***************************************************************************)
(* cmd/agentpulse pair.go, unpair.go and the identity's part of flush.go:  *)
(* one command of the person's (pair or unpair) beside flush runs, the     *)
(* relay and the phone.  They share config.json (the bridge id), the       *)
(* credential store (its secret), state.json, the spool and flush.lock,    *)
(* and only flush runs take the lock.                                      *)
(*                                                                         *)
(* A bridge identity is a number; 0 is none.  A secret is the number of    *)
(* the identity it belongs to.  One batch is one request (module Flush has *)
(* the loop), and an event is one of a count.                              *)
(***************************************************************************)
EXTENDS Naturals, FiniteSets

CONSTANTS
    Flusher,   \* flush processes
    MaxId,     \* bound: identities the relay ever creates
    MaxUnpair, \* bound: unpair commands
    Cap,       \* events the spool holds
    Strikes    \* consecutive 401s that clear the credential

ASSUME PairingAssumption ==
    /\ MaxId \in Nat /\ Cap \in Nat /\ Strikes \in Nat /\ MaxUnpair \in Nat

VARIABLES
    cfg,     \* config.json: the bridge id, 0 before pairing
    cred,    \* the credential store
    st,      \* state.json: the 401 counter, and whether UnpairedReason is set
    spool,   \* events spooled
    lock,    \* which flush.lock file is at its path: removing it makes the next
    hooks,   \* whether Claude Code's settings run the hooks
    bridge,  \* the relay: what it holds of each identity
    age,     \* how long ago each identity was paired
    cmd,     \* the person's command
    run,     \* the flush runs
    (* history *)
    foreign,   \* since the last Set a run deleted another identity's secret
    blind,     \* an identity may have stayed active at the relay unknown here
    unfinished \* the last command ended half-way, or named what it could not delete

vars == <<cfg, cred, st, spool, lock, hooks, bridge, age, cmd, run, foreign,
          blind, unfinished>>

Id == 1..MaxId
NoState == [c401 |-> 0, reason |-> FALSE]
NoCmd == [pc |-> "none", id |-> 0, secret |-> 0, new |-> 0]
NoRun == [pc |-> "idle", lock |-> 0, id |-> 0, secret |-> 0, raw |-> 0,
          sent |-> FALSE, mem |-> NoState]

Init ==
    /\ cfg = 0 /\ cred = 0 /\ st = NoState /\ spool = 0 /\ lock = 0
    /\ hooks = FALSE
    /\ bridge = [i \in Id |-> "none"] /\ age = [i \in Id |-> "new"]
    /\ cmd = NoCmd /\ run = [f \in Flusher |-> NoRun]
    /\ foreign = FALSE /\ blind = FALSE /\ unfinished = FALSE

hist == <<foreign, blind, unfinished>>
files == <<cfg, cred, st, spool, lock, hooks>>
relay == <<bridge, age>>

-----------------------------------------------------------------------------
(* The relay and the phone.                                                *)

Honours(i, secret) == i # 0 /\ i = secret /\ bridge[i] = "active"

(* The phone redeems the code, whether or not pair still polls.            *)
Redeem(i) ==
    /\ bridge[i] = "shown"
    /\ bridge' = [bridge EXCEPT ![i] = "active"]
    /\ UNCHANGED <<files, age, cmd, run, hist>>

(* The code expires, or the phone removes the machine.                     *)
Forget(i) ==
    /\ bridge[i] \in {"shown", "active"}
    /\ bridge' = [bridge EXCEPT ![i] = "gone"]
    /\ UNCHANGED <<files, age, cmd, run, hist>>

(* For a while after pairing the relay may not know the identity           *)
(* everywhere; the grace period outlasts that.                             *)
Ages(i) ==
    /\ cfg = i /\ age[i] # "old"
    /\ age' = [age EXCEPT ![i] = IF @ = "new" THEN "grace" ELSE "old"]
    /\ UNCHANGED <<files, bridge, cmd, run, hist>>

-----------------------------------------------------------------------------
(* pair.                                                                   *)

(* What cannot be read is as if it were not there, and neither the id nor  *)
(* the secret serves a command without the other.                          *)
Reading(x) == {x, 0}
ReadIdentity == {r \in Reading(cfg) \X Reading(cred) : (r[1] = 0) = (r[2] = 0)}

PairStarts ==
    /\ cmd.pc = "none"
    /\ \E r \in ReadIdentity :
          cmd' = [NoCmd EXCEPT !.pc = "create", !.id = r[1], !.secret = r[2]]
    /\ UNCHANGED <<files, relay, run, hist>>

Bug_AlreadyPaired == FALSE
AlreadyPaired == cmd.id # 0 /\ cmd.secret # 0

LeftActive == cfg # 0 /\ bridge[cfg] = "active"

(* POST /v1/bridges.  A machine that seemed unpaired has nothing revoked:  *)
(* blind if it has an active identity all the same.                        *)
CreateBridge ==
    /\ cmd.pc = "create"
    /\ \/ \E i \in Id :
             /\ bridge[i] = "none" /\ \A j \in Id : j < i => bridge[j] # "none"
             /\ bridge' = [bridge EXCEPT ![i] = "pending"]
             /\ cmd' = IF AlreadyPaired THEN [cmd EXCEPT !.pc = "revoke", !.new = i]
                       ELSE [NoCmd EXCEPT !.pc = "store", !.new = i]
             /\ blind' = (blind \/ (LeftActive /\ 0 \in {cmd.id, cmd.secret}))
       \/ cmd' = NoCmd /\ UNCHANGED <<bridge, blind>>
    /\ UNCHANGED <<files, age, run, foreign, unfinished>>

(* DELETE /v1/bridges/me with the identity the command read, best effort;  *)
(* blind when an active identity may survive it.                           *)
RevokeOr(next) ==
    /\ cmd' = [NoCmd EXCEPT !.pc = next, !.new = cmd.new]
    /\ \/ /\ Honours(cmd.id, cmd.secret)
          /\ bridge' = [bridge EXCEPT ![cmd.id] = "gone"]
          /\ UNCHANGED blind
       \/ /\ blind' = (blind \/ LeftActive)
          /\ UNCHANGED bridge
    /\ UNCHANGED <<files, age, run, foreign, unfinished>>

RevokeOld == cmd.pc = "revoke" /\ RevokeOr("store")

(* The secret is stored before the code is shown.                          *)
StoreSecret ==
    /\ cmd.pc = "store"
    /\ cmd' = [cmd EXCEPT !.pc = "show"]
    /\ cred' = cmd.new /\ foreign' = FALSE
    /\ UNCHANGED <<cfg, st, spool, lock, hooks, relay, run, blind, unfinished>>

ShowCode ==
    /\ cmd.pc = "show"
    /\ cmd' = [cmd EXCEPT !.pc = "poll"]
    /\ bridge' = [bridge EXCEPT ![cmd.new] = "shown"]
    /\ UNCHANGED <<files, age, run, hist>>

(* pair.Poll has read that the phone redeemed the code.                    *)
Polled ==
    /\ cmd.pc = "poll" /\ bridge[cmd.new] = "active"
    /\ cmd' = [cmd EXCEPT !.pc = "again"]
    /\ UNCHANGED <<files, relay, run, hist>>

Bug_SecondSecret == cred
SecondSecret == cmd.new

StoreAgain ==
    /\ cmd.pc = "again"
    /\ cmd' = [cmd EXCEPT !.pc = "save"]
    /\ cred' = SecondSecret /\ foreign' = FALSE
    /\ UNCHANGED <<cfg, st, spool, lock, hooks, relay, run, blind, unfinished>>

SaveConfig ==
    /\ cmd.pc = "save"
    /\ cmd' = [cmd EXCEPT !.pc = "hooks"]
    /\ cfg' = cmd.new /\ unfinished' = FALSE
    /\ UNCHANGED <<cred, st, spool, lock, hooks, relay, run, foreign, blind>>

(* The person may decline the change to their settings.                    *)
InstallHooks ==
    /\ cmd.pc = "hooks"
    /\ cmd' = NoCmd
    /\ hooks' \in {hooks, TRUE}
    /\ UNCHANGED <<cfg, cred, st, spool, lock, relay, run, hist>>

-----------------------------------------------------------------------------
(* unpair.  removeHooks comes first: if it is declined nothing follows, if *)
(* it fails everything does.                                               *)

UnpairStarts ==
    /\ cmd.pc = "none" /\ lock < MaxUnpair
    /\ \E r \in ReadIdentity :
          cmd' = [NoCmd EXCEPT !.pc = "u_revoke", !.id = r[1], !.secret = r[2]]
    /\ hooks' \in {hooks, FALSE} /\ unfinished' = FALSE
    /\ UNCHANGED <<cfg, cred, st, spool, lock, relay, run, foreign, blind>>

RevokeSelf == cmd.pc = "u_revoke" /\ RevokeOr("u_cred")

(* deleteLocalData, file by file and without the flush lock.  What cannot  *)
(* be deleted is named in the summary, and the rest goes on.               *)
Deletes(pc, next, fails) ==
    /\ cmd.pc = pc
    /\ cmd' = [cmd EXCEPT !.pc = next]
    /\ unfinished' = (unfinished \/ fails)

Left(x, none, fails) == IF fails THEN x ELSE none

DeleteSecret(fails) ==
    /\ Deletes("u_cred", "u_config", fails)
    /\ cred' = Left(cred, 0, fails)
    /\ UNCHANGED <<cfg, st, spool, lock, hooks, relay, run, foreign, blind>>

DeleteConfig(fails) ==
    /\ Deletes("u_config", "u_state", fails)
    /\ cfg' = Left(cfg, 0, fails)
    /\ UNCHANGED <<cred, st, spool, lock, hooks, relay, run, foreign, blind>>

DeleteState(fails) ==
    /\ Deletes("u_state", "u_spool", fails)
    /\ st' = Left(st, NoState, fails)
    /\ UNCHANGED <<cfg, cred, spool, lock, hooks, relay, run, foreign, blind>>

DeleteSpool(fails) ==
    /\ Deletes("u_spool", "u_lock", fails)
    /\ spool' = Left(spool, 0, fails)
    /\ UNCHANGED <<cfg, cred, st, lock, hooks, relay, run, foreign, blind>>

(* A run that has the file open, or locked, keeps the old one.             *)
DeleteLock(fails) ==
    /\ cmd.pc = "u_lock"
    /\ cmd' = NoCmd
    /\ lock' = Left(lock, lock + 1, fails) /\ unfinished' = (unfinished \/ fails)
    /\ UNCHANGED <<cfg, cred, st, spool, hooks, relay, run, foreign, blind>>

(* Ctrl-C, a kill, a Set or Save that fails, or, while pair polls, an      *)
(* expired or rejected code.  The code may be out, or redeemed.            *)
CommandDies ==
    /\ cmd.pc # "none"
    /\ cmd' = NoCmd
    /\ unfinished' = (cmd.pc # "hooks")
    /\ blind' = (blind \/ cmd.pc \in {"poll", "again", "save"})
    /\ UNCHANGED <<files, relay, run, foreign>>

-----------------------------------------------------------------------------
(* The flush runs.                                                         *)

Capped(n) == IF n > Cap THEN Cap ELSE n

HookAppends ==
    /\ hooks
    /\ spool' = Capped(spool + 1)
    /\ UNCHANGED <<cfg, cred, st, lock, hooks, relay, cmd, run, hist>>

Becomes(f, r) ==
    /\ run' = [run EXCEPT ![f] = r]
    /\ UNCHANGED <<relay, cmd>>

(* lockfile.TryLock: open, then flock without waiting.                     *)
OpenLock(f) ==
    /\ run[f].pc = "idle"
    /\ Becomes(f, [NoRun EXCEPT !.pc = "opened", !.lock = lock])
    /\ UNCHANGED <<files, hist>>

Holds(f) == run[f].pc \notin {"idle", "opened"}

Locked(f) == \E g \in Flusher \ {f} : Holds(g) /\ run[g].lock = run[f].lock

TryLock(f) ==
    /\ run[f].pc = "opened"
    /\ Becomes(f, IF Locked(f) THEN NoRun ELSE [run[f] EXCEPT !.pc = "locked"])
    /\ UNCHANGED <<files, hist>>

(* config.Load, then the credential; without both the run only records     *)
(* that, over the state as it reads it.                                    *)
Missing(x) == x = 0

LoadConfig(f) ==
    /\ run[f].pc = "locked"
    /\ \E i \in Reading(cfg) :
          Becomes(f, IF Missing(i) THEN [run[f] EXCEPT !.pc = "saving", !.mem = st]
                     ELSE [run[f] EXCEPT !.pc = "loaded", !.id = i])
    /\ UNCHANGED <<files, hist>>

GetSecret(f) ==
    /\ run[f].pc = "loaded"
    /\ \E s \in Reading(cred) :
          Becomes(f, IF Missing(s)
                     THEN [run[f] EXCEPT !.pc = "saving", !.mem = st, !.id = 0]
                     ELSE [run[f] EXCEPT !.pc = "ready", !.secret = s])
    /\ UNCHANGED <<files, hist>>

Drain(f) ==
    /\ run[f].pc = "ready"
    /\ Becomes(f, IF spool = 0 THEN NoRun
                  ELSE [run[f] EXCEPT !.pc = "drained", !.raw = spool])
    /\ UNCHANGED <<files, hist>>

LoadState(f) ==
    /\ run[f].pc = "drained"
    /\ Becomes(f, [run[f] EXCEPT !.pc = "posting", !.mem = st])
    /\ UNCHANGED <<files, hist>>

(* The request is over; the identity serves no more.                       *)
Answered(r) == [r EXCEPT !.pc = "committing", !.id = 0, !.secret = 0]

(* A 2xx.                                                                  *)
AnswerOK(f) ==
    /\ run[f].pc = "posting" /\ Honours(run[f].id, run[f].secret)
    /\ Becomes(f, [Answered(run[f]) EXCEPT !.sent = TRUE, !.mem.c401 = 0])
    /\ UNCHANGED <<files, hist>>

(* Anything else but a 401: the batch is kept.                             *)
NoAnswer(f) ==
    /\ run[f].pc = "posting"
    /\ Becomes(f, Answered(run[f]))
    /\ UNCHANGED <<files, hist>>

(* The relay answers 401: it does not hold the identity, or not yet.       *)
Unauthorized(f) ==
    /\ run[f].pc = "posting"
    /\ Honours(run[f].id, run[f].secret) => age[run[f].id] = "new"

Bug_InGrace(f) == FALSE
InGrace(f) == age[run[f].id] # "old"

(* Within the grace period the run retries, or runs out of retries.        *)
Answer401InGrace(f) ==
    /\ Unauthorized(f) /\ InGrace(f)
    /\ Becomes(f, Answered(run[f]))
    /\ UNCHANGED <<files, hist>>

Struck(c) == c >= Strikes

(* Otherwise it counts: the counter matters only up to Strikes.            *)
Answer401(f) ==
    /\ Unauthorized(f) /\ ~InGrace(f)
    /\ LET c == run[f].mem.c401 + 1 IN
          Becomes(f, [IF c >= Strikes THEN [run[f] EXCEPT !.pc = "deleting"]
                      ELSE Answered(run[f])
                      EXCEPT !.mem.c401 = IF c > Strikes THEN Strikes ELSE c,
                             !.mem.reason = @ \/ Struck(c)])
    /\ UNCHANGED <<files, hist>>

(* credStore.Delete: whatever is stored now; it may fail.                  *)
DeleteCredential(f) ==
    /\ run[f].pc = "deleting"
    /\ Becomes(f, Answered(run[f]))
    /\ \/ /\ cred' = 0
          /\ foreign' = (foreign \/ cred \notin {0, run[f].id})
          /\ blind' = (blind \/ cred \notin {0, run[f].id})
       \/ UNCHANGED <<cred, foreign, blind>>
    /\ UNCHANGED <<cfg, st, spool, lock, hooks, unfinished>>

(* commit: what is kept, and what was appended since Drain; the whole file *)
(* if it has become shorter than what was drained.                         *)
AppendedSince(raw) == IF spool >= raw THEN spool - raw ELSE spool

Commit(f) ==
    /\ run[f].pc = "committing"
    /\ spool' = Capped((IF run[f].sent THEN 0 ELSE run[f].raw)
                       + AppendedSince(run[f].raw))
    /\ Becomes(f, [run[f] EXCEPT !.pc = "saving", !.raw = 0, !.sent = FALSE])
    /\ UNCHANGED <<cfg, cred, st, lock, hooks, hist>>

(* state.Save, and the lock goes.                                          *)
SaveState(f) ==
    /\ run[f].pc = "saving"
    /\ st' = run[f].mem
    /\ Becomes(f, NoRun)
    /\ UNCHANGED <<cfg, cred, spool, lock, hooks, hist>>

FlusherDies(f) ==
    /\ run[f].pc # "idle"
    /\ Becomes(f, NoRun)
    /\ UNCHANGED <<files, hist>>

Pair == PairStarts \/ CreateBridge \/ RevokeOld \/ StoreSecret \/ ShowCode
        \/ Polled \/ StoreAgain \/ SaveConfig \/ InstallHooks
Unpair == \/ UnpairStarts \/ RevokeSelf
          \/ \E fails \in BOOLEAN :
                \/ DeleteSecret(fails) \/ DeleteConfig(fails) \/ DeleteState(fails)
                \/ DeleteSpool(fails) \/ DeleteLock(fails)
Flush(f) == OpenLock(f) \/ TryLock(f) \/ LoadConfig(f) \/ GetSecret(f) \/ Drain(f)
            \/ LoadState(f) \/ AnswerOK(f) \/ NoAnswer(f) \/ Answer401InGrace(f)
            \/ Answer401(f) \/ DeleteCredential(f) \/ Commit(f) \/ SaveState(f)
            \/ FlusherDies(f)

Next == \/ Pair \/ Unpair \/ CommandDies \/ HookAppends
        \/ \E f \in Flusher : Flush(f)
        \/ \E i \in Id : Redeem(i) \/ Forget(i) \/ Ages(i)

Spec == Init /\ [][Next]_vars

-----------------------------------------------------------------------------
TypeOK ==
    /\ cfg \in 0..MaxId /\ cred \in 0..MaxId /\ spool \in 0..Cap
    /\ lock \in 0..MaxUnpair /\ hooks \in BOOLEAN
    /\ st \in [c401 : 0..Strikes, reason : BOOLEAN]
    /\ bridge \in [Id -> {"none", "pending", "shown", "active", "gone"}]
    /\ age \in [Id -> {"new", "grace", "old"}]
    /\ \A f \in Flusher :
          /\ run[f].mem \in [c401 : 0..Strikes, reason : BOOLEAN]
          /\ run[f].lock \in 0..lock
          /\ run[f].pc \in {"ready", "drained", "posting", "deleting"}
             => run[f].id \in Id /\ run[f].secret \in Id

(* ERR-04 and its grace period: a run clears the credential only when the  *)
(* relay no longer honours the identity the run itself carries, however    *)
(* late the relay learned of that identity and however many runs the       *)
(* strikes took.                                                           *)
NeverKillsLive ==
    \A f \in Flusher :
        run[f].pc = "deleting" => ~Honours(run[f].id, run[f].secret)

(* pair.go:207-211: between commands, an identity that is configured and   *)
(* active has its secret stored, whatever runs did while pair waited,      *)
(* unless a command was cut short, or said that it could not delete        *)
(* something, or a run with an older identity deleted the secret after the *)
(* second Set.                                                             *)
PairedUsable ==
    /\ cmd.pc = "none" /\ cfg # 0 /\ bridge[cfg] = "active"
    /\ ~foreign /\ ~unfinished
    => cred = cfg

(* SEC-08, BR-09: the relay holds one active identity of this machine, as  *)
(* long as every revoke was answered, no command died with a code out and  *)
(* none failed to read the identity it was to revoke.                      *)
OneIdentity ==
    blind \/ cmd.pc # "none" \/ Cardinality({i \in Id : bridge[i] = "active"}) <= 1

(* flush.go:133, spool.go:193: one flusher runs per user - while the lock  *)
(* file stays.                                                             *)
OneFlusherPerLock ==
    \A f, g \in Flusher :
        Holds(f) /\ Holds(g) /\ run[f].lock = run[g].lock => f = g

-----------------------------------------------------------------------------
(* What the code says and does not keep.                                   *)

(* pair.go:211: a successful pair always ends with a usable credential.    *)
PairEndsUsable == cmd.pc = "hooks" => cred = cmd.new

(* status.go:31: status shows whether AgentPulse is paired.  It prints     *)
(* UnpairedReason before anything else.                                    *)
ReasonIsTrue ==
    /\ cmd.pc = "none" /\ \A f \in Flusher : run[f].pc = "idle"
    /\ st.reason
    => ~Honours(cfg, cred)

(* README.md:152: unpair deletes the local credential and state.           *)
UnpairLeavesNothing ==
    cmd.pc = "none" /\ cfg = 0 /\ ~hooks /\ lock > 0 /\ ~unfinished
    => spool = 0 /\ st = NoState
=============================================================================
