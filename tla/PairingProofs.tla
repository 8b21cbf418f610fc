--------------------------- MODULE PairingProofs ---------------------------
(***************************************************************************)
(* A machine's identity under any number of flush runs, identities and     *)
(* unpairings: no run clears the credential of an identity the relay       *)
(* honours, a pairing that was not cut short is usable and reported as it  *)
(* is, and the relay holds one active identity of the machine.             *)
(*                                                                         *)
(* A run reads config.json and the secret one after the other while pair   *)
(* replaces both, so each property depends on what a run may carry.        *)
(***************************************************************************)
EXTENDS Reports, FiniteSetTheorems, TLAPS

CmdPc == {"none", "create", "revoke", "store", "show", "poll", "again", "save", "hooks",
          "u_revoke", "u_cred", "u_config", "u_state", "u_spool", "u_lock"}
RunPc == {"idle", "opened", "locked", "loaded", "ready", "drained", "posting", "deleting",
          "committing", "saving"}
State == [c401 : Nat, reason : BOOLEAN]
IdOrNone == 0..MaxId
Cmd == [pc : CmdPc, id : IdOrNone, secret : IdOrNone, new : IdOrNone]
Run == [pc : RunPc, lock : Nat, id : IdOrNone, secret : IdOrNone,
        raw : Nat, sent : BOOLEAN, mem : State]

Typed ==
    /\ cfg \in IdOrNone /\ cred \in IdOrNone /\ st \in State /\ spool \in Nat
    /\ bridge \in [Id -> {"none", "pending", "shown", "active", "gone"}]
    /\ cmd \in Cmd
    /\ run \in [Flusher -> Run]
    /\ lock \in Nat
    /\ foreign \in BOOLEAN /\ blind \in BOOLEAN /\ unfinished \in BOOLEAN

Live(i) == i # 0 /\ bridge[i] = "active"
Known(i) == i = 0 \/ bridge[i] \in {"active", "gone"}

(* The identity pair is creating, from its creation to its activation.     *)
Creating == {"revoke", "store", "show"}
Out == {"poll", "again", "save"}
Deleting == {"u_cred", "u_config", "u_state", "u_spool", "u_lock"}

NewIdentity ==
    /\ cmd.pc \in Creating => cmd.new # 0 /\ bridge[cmd.new] = "pending"
    /\ cmd.pc \in Out => cmd.new # 0 /\ bridge[cmd.new] \in {"shown", "active", "gone"}
    /\ cmd.pc \in {"again", "save"} => Known(cmd.new)
    /\ cmd.pc \in Creating \cup Out =>
          cfg # cmd.new /\ \A f \in Flusher : run[f].id # cmd.new

(* Whatever is configured, or was when a run read it, has been active.     *)
OnlyKnown == Known(cfg) /\ \A f \in Flusher : Known(run[f].id)

(* What a command has read, and what it has done so far.                   *)
CommandKnows ==
    /\ cmd.pc \in {"create", "revoke", "u_revoke"} => cmd.id \in {0, cfg}
    /\ cmd.pc \in {"u_config", "u_state", "u_spool", "u_lock"} => cred = 0 \/ unfinished
    /\ cmd.pc \in {"u_state", "u_spool", "u_lock"} => cfg = 0 \/ unfinished
    /\ cmd.pc = "hooks" => ~unfinished

(* What a run carries; a secret that is not its identity's own is not the  *)
(* configured identity's while that one is stored.                         *)
Carries(r) ==
    /\ r.pc \in {"idle", "opened", "locked", "loaded"} => r.secret = 0
    /\ r.pc \in {"loaded", "ready", "drained", "posting", "deleting"} => r.id # 0
    /\ r.pc \in {"ready", "drained", "posting", "deleting"} => r.secret # 0
    /\ cfg # 0 /\ r.id = cfg /\ cred = cfg => r.secret \in {0, cfg}

RunCarries == \A f \in Flusher : Carries(run[f])

(* Where a command is between one complete identity and the next.          *)
Settled == {"none", "create", "revoke", "store", "hooks"}

Stored ==
    /\ cmd.pc \in Settled /\ ~unfinished => cred \in {0, cfg}
    /\ cmd.pc = "save" => cred \in {0, cmd.new}

Usable ==
    /\ cmd.pc \in Settled /\ Live(cfg) /\ ~foreign /\ ~unfinished => cred = cfg
    /\ cmd.pc = "save" /\ Live(cmd.new) /\ ~foreign => cred = cmd.new

(* As long as no identity can have been lost sight of.                     *)
InSight ==
    ~blind =>
        /\ \A i \in Id : Live(i) => i = cfg \/ (cmd.pc \in Out /\ i = cmd.new)
        /\ \A i \in Id : bridge[i] = "shown" => cmd.pc = "poll" /\ i = cmd.new
        /\ Live(cfg) => cred = cfg
        /\ cmd.pc = "save" /\ Live(cmd.new) => cred = cmd.new
        /\ cmd.pc \in {"store", "show"} \cup Out \cup Deleting => ~Live(cfg)

IInv == /\ Typed /\ NewIdentity /\ OnlyKnown /\ CommandKnows /\ RunCarries
        /\ NeverKillsLive /\ Stored /\ Usable /\ InSight

-----------------------------------------------------------------------------
LEMMA InitIInv == Init => IInv
<1> SUFFICES ASSUME Init PROVE IInv
  OBVIOUS
<1>1. Typed
  <2>1. 0 \in IdOrNone /\ NoState \in State
    BY PairingAssumption DEF IdOrNone, NoState, State
  <2>2. NoRun \in Run
    BY <2>1 DEF NoRun, Run, RunPc
  <2>3. cmd \in Cmd
    BY <2>1 DEF Init, NoCmd, Cmd, CmdPc
  <2> QED BY <2>1, <2>2, <2>3 DEF Init, Typed
<1>2. cmd.pc = "none" /\ cfg = 0 /\ cred = 0
  BY DEF Init, NoCmd
<1>3. \A f \in Flusher : run[f].pc = "idle" /\ run[f].id = 0 /\ run[f].secret = 0
  BY DEF Init, NoRun
<1>4. NewIdentity /\ OnlyKnown /\ CommandKnows /\ Stored /\ Usable
  BY <1>2, <1>3 DEF NewIdentity, OnlyKnown, CommandKnows, Stored, Usable, Known, Live,
                    Creating, Out
<1>5. RunCarries /\ NeverKillsLive
  BY <1>3 DEF RunCarries, Carries, NeverKillsLive
<1>6. InSight
  BY <1>2 DEF Init, InSight, Live, Out, Deleting
<1> QED BY <1>1, <1>4, <1>5, <1>6 DEF IInv

(* A step of a run that leaves the identity, the relay and the command     *)
(* alone.                                                                  *)
Clean(f, r) ==
    /\ r \in Run /\ r.id \in {0, cfg, run[f].id} /\ Carries(r)
    /\ r.pc = "deleting" => ~Honours(r.id, r.secret)

LEMMA RunStep ==
    ASSUME IInv, NEW f \in Flusher, NEW r,
           UNCHANGED <<cfg, cred, bridge, cmd, lock, hist>>,
           spool' \in Nat, st' \in State, run' = [run EXCEPT ![f] = r], Clean(f, r)
    PROVE  IInv'
<1>1. run'[f] = r /\ \A g \in Flusher : g # f => run'[g] = run[g]
  BY DEF IInv, Typed
<1>2. Typed'
  BY DEF IInv, Typed, hist, Clean
<1>3. NewIdentity'
  BY <1>1 DEF IInv, NewIdentity, Known, Clean
<1>4. OnlyKnown'
  BY <1>1 DEF IInv, OnlyKnown, Known, Clean
<1>5. RunCarries'
  BY <1>1 DEF IInv, RunCarries, Carries, Clean
<1>6. NeverKillsLive'
  BY <1>1 DEF IInv, NeverKillsLive, Honours, Clean
<1>7. CommandKnows' /\ Stored' /\ Usable' /\ InSight'
  BY DEF IInv, CommandKnows, Stored, Usable, InSight, Live, hist
<1> QED BY <1>2, <1>3, <1>4, <1>5, <1>6, <1>7 DEF IInv

(* What is known of the run that takes the step.                           *)
LEMMA RunFacts ==
    ASSUME IInv, NEW f \in Flusher
    PROVE  /\ cfg \in IdOrNone /\ cred \in IdOrNone /\ st \in State /\ spool \in Nat
           /\ lock \in Nat /\ NoRun \in Run
           /\ run[f] \in Run /\ Clean(f, run[f])
<1>1. 0 \in IdOrNone
  BY PairingAssumption DEF IdOrNone
<1>2. NoRun \in Run
  BY <1>1 DEF NoRun, NoState, Run, RunPc, State
<1>3. run[f] \in Run
  BY DEF IInv, Typed
<1> QED BY <1>2, <1>3 DEF IInv, Typed, RunCarries, NeverKillsLive, Clean

(* A run whose request is over carries nothing any more.                   *)
LEMMA AnsweredRun ==
    ASSUME NEW r \in Run
    PROVE  /\ Answered(r) \in Run /\ Answered(r).pc = "committing"
           /\ Answered(r).id = 0 /\ Answered(r).secret = 0
           /\ Answered(r).mem = r.mem
<1>1. 0 \in IdOrNone
  BY PairingAssumption DEF IdOrNone
<1> QED BY <1>1 DEF Answered, Run, RunPc

LEMMA FlushStep ==
    ASSUME IInv, NEW f \in Flusher, Flush(f), ~DeleteCredential(f)
    PROVE  IInv'
<1> DEFINE r == run[f]
<1>1. /\ cfg \in IdOrNone /\ cred \in IdOrNone /\ st \in State /\ spool \in Nat
      /\ lock \in Nat /\ NoRun \in Run /\ r \in Run /\ Clean(f, r)
  BY RunFacts
<1>2. Clean(f, NoRun)
  BY <1>1 DEF Clean, Carries, NoRun
<1>3. ASSUME OpenLock(f) PROVE IInv'
  <2>1. Clean(f, [NoRun EXCEPT !.pc = "opened", !.lock = lock])
    BY <1>1 DEF Clean, Carries, NoRun, Run, RunPc
  <2> QED BY <1>1, <1>3, <2>1, RunStep DEF OpenLock, Becomes, files, relay
<1>4. ASSUME TryLock(f) PROVE IInv'
  <2>1. Clean(f, [r EXCEPT !.pc = "locked"])
    BY <1>1, <1>4 DEF TryLock, Clean, Carries, Run, RunPc
  <2> QED BY <1>1, <1>2, <1>4, <2>1, RunStep DEF TryLock, Becomes, files, relay
<1>5. ASSUME LoadConfig(f) PROVE IInv'
  <2>1. Clean(f, [r EXCEPT !.pc = "saving", !.mem = st])
    BY <1>1, <1>5 DEF LoadConfig, Clean, Carries, Run, RunPc
  <2>2. ~Missing(cfg) => Clean(f, [r EXCEPT !.pc = "loaded", !.id = cfg])
    BY <1>1, <1>5 DEF LoadConfig, Missing, Clean, Carries, Run, RunPc
  <2>3. PICK i \in {cfg, 0} :
           run' = [run EXCEPT ![f] = IF Missing(i) THEN [r EXCEPT !.pc = "saving", !.mem = st]
                                     ELSE [r EXCEPT !.pc = "loaded", !.id = i]]
    BY <1>5 DEF LoadConfig, Reading, Becomes
  <2> QED BY <1>1, <1>5, <2>1, <2>2, <2>3, RunStep
          DEF LoadConfig, Becomes, Missing, files, relay
<1>6. ASSUME GetSecret(f) PROVE IInv'
  <2>1. Clean(f, [r EXCEPT !.pc = "saving", !.mem = st, !.id = 0])
    BY <1>1, <1>6, PairingAssumption DEF GetSecret, Clean, Carries, Run, RunPc, IdOrNone
  <2>2. ~Missing(cred) => Clean(f, [r EXCEPT !.pc = "ready", !.secret = cred])
    BY <1>1, <1>6 DEF GetSecret, Missing, Clean, Carries, Run, RunPc
  <2>3. PICK s \in {cred, 0} :
           run' = [run EXCEPT ![f] = IF Missing(s)
                                     THEN [r EXCEPT !.pc = "saving", !.mem = st, !.id = 0]
                                     ELSE [r EXCEPT !.pc = "ready", !.secret = s]]
    BY <1>6 DEF GetSecret, Reading, Becomes
  <2> QED BY <1>1, <1>6, <2>1, <2>2, <2>3, RunStep
          DEF GetSecret, Becomes, Missing, files, relay
<1>7. ASSUME Drain(f) PROVE IInv'
  <2>1. Clean(f, [r EXCEPT !.pc = "drained", !.raw = spool])
    BY <1>1, <1>7 DEF Drain, Clean, Carries, Run, RunPc
  <2> QED BY <1>1, <1>2, <1>7, <2>1, RunStep DEF Drain, Becomes, files, relay
<1>8. ASSUME LoadState(f) PROVE IInv'
  <2>1. Clean(f, [r EXCEPT !.pc = "posting", !.mem = st])
    BY <1>1, <1>8 DEF LoadState, Clean, Carries, Run, RunPc
  <2> QED BY <1>1, <1>8, <2>1, RunStep DEF LoadState, Becomes, files, relay
<1>9. ASSUME AnswerOK(f) PROVE IInv'
  <2>1. Clean(f, [Answered(r) EXCEPT !.sent = TRUE, !.mem.c401 = 0])
    BY <1>1, AnsweredRun DEF Clean, Carries, Run, State
  <2> QED BY <1>1, <1>9, <2>1, RunStep DEF AnswerOK, Becomes, files, relay
<1>10. ASSUME NoAnswer(f) \/ Answer401InGrace(f) PROVE IInv'
  <2>1. Clean(f, Answered(r))
    BY <1>1, AnsweredRun DEF Clean, Carries
  <2> QED BY <1>1, <1>10, <2>1, RunStep
          DEF NoAnswer, Answer401InGrace, Becomes, files, relay
<1>11. ASSUME Answer401(f) PROVE IInv'
  <2> DEFINE c == r.mem.c401 + 1
             d == IF c > Strikes THEN Strikes ELSE c
             p == IF c >= Strikes THEN [r EXCEPT !.pc = "deleting"] ELSE Answered(r)
             q == [p EXCEPT !.mem.c401 = d, !.mem.reason = @ \/ Struck(c)]
  <2>1. ~Honours(r.id, r.secret) /\ r.pc = "posting"
    BY <1>11 DEF Answer401, Unauthorized, InGrace
  <2>2. d \in Nat /\ (r.mem.reason \/ Struck(c)) \in BOOLEAN
    BY <1>1, PairingAssumption DEF Run, State, Struck
  <2>3. /\ p \in Run /\ p.mem = r.mem
        /\ \/ p.pc = "deleting" /\ p.id = r.id /\ p.secret = r.secret
           \/ p.pc = "committing" /\ p.id = 0 /\ p.secret = 0
    BY <1>1, AnsweredRun DEF Run, RunPc
  <2>4. run' = [run EXCEPT ![f] = q]
    BY <1>11 DEF Answer401, Becomes
  <2> HIDE DEF p, d
  <2>5. q \in Run /\ q.pc = p.pc /\ q.id = p.id /\ q.secret = p.secret
    BY <1>1, <2>2, <2>3 DEF Run, State
  <2>6. Clean(f, q)
    <3> HIDE DEF q
    <3> QED BY <1>1, <2>1, <2>3, <2>5 DEF Clean, Carries
  <2> QED BY <1>1, <1>11, <2>4, <2>6, RunStep DEF Answer401, Becomes, files, relay
<1>12. ASSUME Commit(f) PROVE IInv'
  <2>1. Clean(f, [r EXCEPT !.pc = "saving", !.raw = 0, !.sent = FALSE])
    BY <1>1, <1>12 DEF Commit, Clean, Carries, Run, RunPc
  <2>2. spool' \in Nat
    BY <1>1, <1>12, PairingAssumption DEF Commit, Capped, AppendedSince, Run
  <2> QED BY <1>1, <1>12, <2>1, <2>2, RunStep DEF Commit, Becomes, files, relay
<1>13. ASSUME SaveState(f) \/ FlusherDies(f) PROVE IInv'
  <2>1. st' \in State
    BY <1>1, <1>13 DEF SaveState, FlusherDies, Becomes, Run, files, relay
  <2> QED BY <1>1, <1>2, <1>13, <2>1, RunStep
          DEF SaveState, FlusherDies, Becomes, files, relay
<1> QED BY <1>3, <1>4, <1>5, <1>6, <1>7, <1>8, <1>9, <1>10, <1>11, <1>12, <1>13
           DEF Flush

-----------------------------------------------------------------------------
(* A run that deletes the credential carries an identity the relay does    *)
(* not honour, so it deletes the configured identity's secret only if that *)
(* one is lost too - or it notices nothing and deletes a newer one.        *)
LEMMA DeleteCredentialStep ==
    ASSUME IInv, NEW f \in Flusher, DeleteCredential(f)
    PROVE  IInv'
<1> DEFINE r == Answered(run[f])
<1>1. /\ run[f].pc = "deleting" /\ run' = [run EXCEPT ![f] = r]
      /\ UNCHANGED <<cfg, st, spool, lock, unfinished, bridge, cmd>>
  BY DEF DeleteCredential, Becomes, relay
<1>2. Clean(f, r)
  BY <1>1, RunFacts, AnsweredRun DEF Clean, Carries
<1>3. CASE UNCHANGED <<cred, foreign, blind>>
  <2> HIDE DEF r
  <2>1. st' \in State /\ spool' \in Nat
    BY <1>1, RunFacts
  <2> QED BY <1>1, <1>2, <1>3, <2>1, RunStep DEF hist
<1>4. CASE /\ cred' = 0
           /\ foreign' = (foreign \/ cred \notin {0, run[f].id})
           /\ blind' = (blind \/ cred \notin {0, run[f].id})
  <2>1. /\ run[f] \in Run /\ run[f].id # 0 /\ run[f].secret # 0
        /\ ~Honours(run[f].id, run[f].secret)
        /\ cfg # 0 /\ run[f].id = cfg /\ cred = cfg => run[f].secret = cfg
    BY <1>1, RunFacts DEF Clean, Carries
  <2>2. Live(cfg) /\ cred = cfg => foreign' /\ blind'
    BY <1>4, <2>1 DEF Live, Honours
  <2>3. cmd.pc \in Out /\ cred = cmd.new => foreign' /\ blind'
    BY <1>4, <2>1 DEF IInv, NewIdentity
  <2>4. run'[f] = r /\ \A g \in Flusher : g # f => run'[g] = run[g]
    BY <1>1 DEF IInv, Typed
  <2>5. r.id = 0 /\ r.pc = "committing" /\ r \in Run
    BY <2>1, AnsweredRun
  <2> HIDE DEF r
  <2>6. Typed'
    BY <1>1, <1>4, <2>1, <2>5, PairingAssumption DEF IInv, Typed, IdOrNone
  <2>7. NewIdentity' /\ OnlyKnown'
    BY <1>1, <2>4, <2>5 DEF IInv, NewIdentity, OnlyKnown, Known
  <2>8. CommandKnows'
    BY <1>1, <1>4 DEF IInv, CommandKnows
  <2>9. RunCarries'
    BY <1>1, <1>4, <2>4, <2>5 DEF IInv, RunCarries, Carries
  <2>10. NeverKillsLive'
    BY <1>1, <2>4, <2>5 DEF IInv, NeverKillsLive, Honours
  <2>11. Stored' /\ Usable'
    BY <1>1, <1>4, <2>2, <2>3 DEF IInv, Typed, Stored, Usable, Live, Out, IdOrNone
  <2>12. InSight'
    BY <1>1, <1>4, <2>2, <2>3 DEF IInv, Typed, InSight, Live, Out, Deleting, IdOrNone
  <2> QED BY <2>6, <2>7, <2>8, <2>9, <2>10, <2>11, <2>12 DEF IInv
<1> QED BY <1>3, <1>4 DEF DeleteCredential

-----------------------------------------------------------------------------
(* The person's commands, the phone and the relay.                         *)

LEMMA Ids ==
    /\ 0 \in IdOrNone /\ Id \subseteq IdOrNone
    /\ 0 \notin Id /\ \A i \in IdOrNone : i # 0 => i \in Id
BY PairingAssumption DEF IdOrNone, Id

(* Nobody but pair's Sets makes the configured identity's secret appear,   *)
(* and nobody revives an identity.                                         *)
LEMMA RunsUnharmed ==
    ASSUME IInv, run' = run,
           \A i \in Id : Known(i) /\ bridge'[i] = "active" => bridge[i] = "active",
           cfg' # 0 /\ cred' = cfg' =>
              \/ cred = cfg /\ cfg' = cfg
              \/ \A f \in Flusher : run[f].id # cfg'
    PROVE  RunCarries' /\ NeverKillsLive'
<1>1. RunCarries'
  BY DEF IInv, RunCarries, Carries
<1>2. NeverKillsLive'
  <2> SUFFICES ASSUME NEW f \in Flusher, run[f].pc = "deleting"
               PROVE  ~Honours(run[f].id, run[f].secret)'
    BY DEF NeverKillsLive
  <2>1. Known(run[f].id) /\ run[f].id \in IdOrNone /\ ~Honours(run[f].id, run[f].secret)
    BY DEF IInv, Typed, OnlyKnown, NeverKillsLive, Run
  <2> QED BY <2>1, Ids DEF Honours
<1> QED BY <1>1, <1>2

LEMMA PairStartsStep == IInv /\ PairStarts => IInv'
<1> SUFFICES ASSUME IInv, PairStarts PROVE IInv'
  OBVIOUS
<1>1. PICK i \in {cfg, 0}, s \in {cred, 0} :
         cmd' = [NoCmd EXCEPT !.pc = "create", !.id = i, !.secret = s]
  BY DEF PairStarts, ReadIdentity, Reading
<1>2. /\ cmd.pc = "none" /\ UNCHANGED <<cfg, cred, st, spool, lock, bridge, run, foreign, blind>>
      /\ unfinished' \in {unfinished, FALSE} /\ unfinished' = unfinished
  BY DEF PairStarts, files, relay, hist
<1>3. i \in IdOrNone /\ s \in IdOrNone
  BY Ids DEF IInv, Typed
<1>4. cmd'.pc = "create" /\ cmd'.id \in {0, cfg} /\ cmd' \in Cmd
  BY <1>1, <1>3, Ids DEF NoCmd, Cmd, CmdPc
<1>5. Typed'
  BY <1>2, <1>4 DEF IInv, Typed
<1>6. NewIdentity' /\ OnlyKnown' /\ CommandKnows'
  BY <1>2, <1>4 DEF IInv, NewIdentity, OnlyKnown, CommandKnows, Known, Creating, Out
<1>7. RunCarries' /\ NeverKillsLive'
  BY <1>2, RunsUnharmed
<1>8. Stored' /\ Usable'
  BY <1>2, <1>4 DEF IInv, Stored, Usable, Live, Settled
<1>9. InSight'
  BY <1>2, <1>4 DEF IInv, InSight, Live, Out, Deleting
<1> QED BY <1>5, <1>6, <1>7, <1>8, <1>9 DEF IInv

LEMMA StoreSecretStep == IInv /\ StoreSecret => IInv'
<1> SUFFICES ASSUME IInv, StoreSecret PROVE IInv'
  OBVIOUS
<1>1. Typed'
  BY DEF IInv, Typed, StoreSecret, Cmd, CmdPc, relay
<1>2. NewIdentity' /\ OnlyKnown' /\ CommandKnows'
  BY DEF IInv, StoreSecret, NewIdentity, OnlyKnown, CommandKnows, Known, Creating,
         Out, relay
<1>3. RunCarries' /\ NeverKillsLive'
  BY RunsUnharmed DEF IInv, StoreSecret, NewIdentity, Creating, relay
<1>4. Stored' /\ Usable'
  BY DEF IInv, StoreSecret, Stored, Usable, Settled
<1>5. InSight'
  BY DEF IInv, StoreSecret, InSight, Live, Out, Deleting, relay
<1> QED BY <1>1, <1>2, <1>3, <1>4, <1>5 DEF IInv

LEMMA ShowCodeStep == IInv /\ ShowCode => IInv'
<1> SUFFICES ASSUME IInv, ShowCode PROVE IInv'
  OBVIOUS
<1>1. Typed'
  BY DEF IInv, Typed, ShowCode, Cmd, CmdPc, files, hist
<1>2. NewIdentity' /\ OnlyKnown' /\ CommandKnows'
  BY Ids
     DEF IInv, Typed, ShowCode, Cmd, NewIdentity, OnlyKnown, CommandKnows, Known,
         Creating, files
<1>3. RunCarries' /\ NeverKillsLive'
  BY RunsUnharmed DEF IInv, ShowCode, files
<1>4. Stored' /\ Usable'
  BY DEF IInv, ShowCode, Stored, Usable, Settled
<1>5. InSight'
  BY DEF IInv, ShowCode, InSight, Live, Out, Deleting, files, hist
<1> QED BY <1>1, <1>2, <1>3, <1>4, <1>5 DEF IInv

LEMMA PolledStep == IInv /\ Polled => IInv'
<1> SUFFICES ASSUME IInv, Polled PROVE IInv'
  OBVIOUS
<1>1. Typed'
  BY DEF IInv, Typed, Polled, Cmd, CmdPc, files, relay, hist
<1>2. NewIdentity' /\ OnlyKnown' /\ CommandKnows'
  BY DEF IInv, Polled, NewIdentity, OnlyKnown, CommandKnows, Known, Creating, Out,
         files, relay
<1>3. RunCarries' /\ NeverKillsLive'
  BY RunsUnharmed DEF IInv, Polled, files, relay
<1>4. Stored' /\ Usable'
  BY DEF IInv, Polled, Stored, Usable, Settled
<1>5. InSight'
  BY DEF IInv, Polled, InSight, Live, Out, Deleting, files, relay, hist
<1> QED BY <1>1, <1>2, <1>3, <1>4, <1>5 DEF IInv

LEMMA SaveConfigStep == IInv /\ SaveConfig => IInv'
<1> SUFFICES ASSUME IInv, SaveConfig PROVE IInv'
  OBVIOUS
<1>1. Typed'
  BY DEF IInv, Typed, SaveConfig, Cmd, CmdPc, relay
<1>2. NewIdentity' /\ OnlyKnown' /\ CommandKnows'
  BY DEF IInv, SaveConfig, NewIdentity, OnlyKnown, CommandKnows, Known, Creating, Out,
         relay
<1>3. RunCarries' /\ NeverKillsLive'
  BY RunsUnharmed DEF IInv, SaveConfig, NewIdentity, Out, relay
<1>4. Stored' /\ Usable'
  BY DEF IInv, SaveConfig, Stored, Usable, Live, relay
<1>5. InSight'
  BY DEF IInv, SaveConfig, InSight, Live, Out, Deleting, relay
<1> QED BY <1>1, <1>2, <1>3, <1>4, <1>5 DEF IInv

LEMMA InstallHooksStep == IInv /\ InstallHooks => IInv'
<1> SUFFICES ASSUME IInv, InstallHooks PROVE IInv'
  OBVIOUS
<1>1. Typed'
  BY Ids DEF IInv, Typed, InstallHooks, NoCmd, Cmd, CmdPc, relay, hist
<1>2. NewIdentity' /\ OnlyKnown' /\ CommandKnows'
  BY DEF IInv, InstallHooks, NoCmd, NewIdentity, OnlyKnown, CommandKnows, Known,
         Creating, Out, relay
<1>3. RunCarries' /\ NeverKillsLive'
  BY RunsUnharmed DEF IInv, InstallHooks, relay
<1>4. Stored' /\ Usable'
  BY DEF IInv, InstallHooks, NoCmd, Stored, Usable, Live, Settled, relay, hist
<1>5. InSight'
  BY DEF IInv, InstallHooks, NoCmd, InSight, Live, Out, Deleting, relay, hist
<1> QED BY <1>1, <1>2, <1>3, <1>4, <1>5 DEF IInv

LEMMA UnpairStartsStep == IInv /\ UnpairStarts => IInv'
<1> SUFFICES ASSUME IInv, UnpairStarts PROVE IInv'
  OBVIOUS
<1>1. PICK i \in {cfg, 0}, s \in {cred, 0} :
         cmd' = [NoCmd EXCEPT !.pc = "u_revoke", !.id = i, !.secret = s]
  BY DEF UnpairStarts, ReadIdentity, Reading
<1>2. /\ cmd.pc = "none" /\ UNCHANGED <<cfg, cred, st, spool, lock, bridge, run, foreign, blind>>
      /\ unfinished' \in {unfinished, FALSE} /\ (unfinished' => unfinished)
  BY DEF UnpairStarts, files, relay, hist
<1>3. i \in IdOrNone /\ s \in IdOrNone
  BY Ids DEF IInv, Typed
<1>4. cmd'.pc = "u_revoke" /\ cmd'.id \in {0, cfg} /\ cmd' \in Cmd
  BY <1>1, <1>3, Ids DEF NoCmd, Cmd, CmdPc
<1>5. Typed'
  BY <1>2, <1>4 DEF IInv, Typed
<1>6. NewIdentity' /\ OnlyKnown' /\ CommandKnows'
  BY <1>2, <1>4 DEF IInv, NewIdentity, OnlyKnown, CommandKnows, Known, Creating, Out
<1>7. RunCarries' /\ NeverKillsLive'
  BY <1>2, RunsUnharmed
<1>8. Stored' /\ Usable'
  BY <1>2, <1>4 DEF IInv, Stored, Usable, Live, Settled
<1>9. InSight'
  BY <1>2, <1>4 DEF IInv, InSight, Live, Out, Deleting
<1> QED BY <1>5, <1>6, <1>7, <1>8, <1>9 DEF IInv

LEMMA DeleteSecretStep ==
    ASSUME IInv, NEW fails \in BOOLEAN, DeleteSecret(fails)
    PROVE  IInv'
<1>1. /\ cmd.pc = "u_cred" /\ cmd' = [cmd EXCEPT !.pc = "u_config"]
      /\ cred' \in {cred, 0} /\ (cred' = 0 \/ unfinished')
      /\ unfinished' \in BOOLEAN /\ (unfinished => unfinished')
      /\ UNCHANGED <<cfg, st, spool, lock, bridge, run, foreign, blind>>
  BY DEF IInv, Typed, DeleteSecret, Deletes, Left, relay
<1>2. cmd'.pc = "u_config" /\ cmd' \in Cmd
  BY <1>1, Ids DEF IInv, Typed, NoCmd, Cmd, CmdPc
<1>3. Typed'
  BY <1>1, <1>2, Ids DEF IInv, Typed
<1>4. NewIdentity' /\ OnlyKnown' /\ CommandKnows'
  BY <1>1, <1>2 DEF IInv, NewIdentity, OnlyKnown, CommandKnows, Known, Creating, Out
<1>5. RunCarries' /\ NeverKillsLive'
  BY <1>1, RunsUnharmed
<1>6. Stored' /\ Usable'
  BY <1>1, <1>2 DEF IInv, CommandKnows, Stored, Usable, Live, Settled
<1>7. InSight'
  BY <1>1, <1>2 DEF IInv, InSight, Live, Out, Deleting
<1> QED BY <1>3, <1>4, <1>5, <1>6, <1>7 DEF IInv

LEMMA DeleteConfigStep ==
    ASSUME IInv, NEW fails \in BOOLEAN, DeleteConfig(fails)
    PROVE  IInv'
<1>1. /\ cmd.pc = "u_config" /\ cmd' = [cmd EXCEPT !.pc = "u_state"]
      /\ cfg' \in {cfg, 0} /\ (cfg' = 0 \/ unfinished')
      /\ unfinished' \in BOOLEAN /\ (unfinished => unfinished')
      /\ UNCHANGED <<cred, st, spool, lock, bridge, run, foreign, blind>>
  BY DEF IInv, Typed, DeleteConfig, Deletes, Left, relay
<1>2. cmd'.pc = "u_state" /\ cmd' \in Cmd
  BY <1>1, Ids DEF IInv, Typed, NoCmd, Cmd, CmdPc
<1>3. Typed'
  BY <1>1, <1>2, Ids DEF IInv, Typed
<1>4. NewIdentity' /\ OnlyKnown' /\ CommandKnows'
  BY <1>1, <1>2 DEF IInv, NewIdentity, OnlyKnown, CommandKnows, Known, Creating, Out
<1>5. RunCarries' /\ NeverKillsLive'
  BY <1>1, RunsUnharmed
<1>6. Stored' /\ Usable'
  BY <1>1, <1>2 DEF IInv, CommandKnows, Stored, Usable, Live, Settled
<1>7. InSight'
  BY <1>1, <1>2 DEF IInv, InSight, Live, Out, Deleting
<1> QED BY <1>3, <1>4, <1>5, <1>6, <1>7 DEF IInv

LEMMA DeleteStateStep ==
    ASSUME IInv, NEW fails \in BOOLEAN, DeleteState(fails)
    PROVE  IInv'
<1>1. /\ cmd.pc = "u_state" /\ cmd' = [cmd EXCEPT !.pc = "u_spool"]
      /\ st' \in {st, NoState}
      /\ unfinished' \in BOOLEAN /\ (unfinished => unfinished')
      /\ UNCHANGED <<cfg, cred, spool, lock, bridge, run, foreign, blind>>
  BY DEF IInv, Typed, DeleteState, Deletes, Left, relay
<1>2. cmd'.pc = "u_spool" /\ cmd' \in Cmd
  BY <1>1, Ids DEF IInv, Typed, NoCmd, Cmd, CmdPc
<1>3. Typed'
  <2>1. NoState \in State
    BY DEF State, NoState
  <2>2. st' \in State
    BY <1>1, <2>1 DEF IInv, Typed
  <2> QED BY <1>1, <1>2, <2>2 DEF IInv, Typed
<1>4. NewIdentity' /\ OnlyKnown' /\ CommandKnows'
  BY <1>1, <1>2 DEF IInv, NewIdentity, OnlyKnown, CommandKnows, Known, Creating, Out
<1>5. RunCarries' /\ NeverKillsLive'
  BY <1>1, RunsUnharmed
<1>6. Stored' /\ Usable'
  BY <1>1, <1>2 DEF IInv, CommandKnows, Stored, Usable, Live, Settled
<1>7. InSight'
  BY <1>1, <1>2 DEF IInv, InSight, Live, Out, Deleting
<1> QED BY <1>3, <1>4, <1>5, <1>6, <1>7 DEF IInv

LEMMA DeleteSpoolStep ==
    ASSUME IInv, NEW fails \in BOOLEAN, DeleteSpool(fails)
    PROVE  IInv'
<1>1. /\ cmd.pc = "u_spool" /\ cmd' = [cmd EXCEPT !.pc = "u_lock"]
      /\ spool' \in {spool, 0}
      /\ unfinished' \in BOOLEAN /\ (unfinished => unfinished')
      /\ UNCHANGED <<cfg, cred, st, lock, bridge, run, foreign, blind>>
  BY DEF IInv, Typed, DeleteSpool, Deletes, Left, relay
<1>2. cmd'.pc = "u_lock" /\ cmd' \in Cmd
  BY <1>1, Ids DEF IInv, Typed, NoCmd, Cmd, CmdPc
<1>3. Typed'
  BY <1>1, <1>2, Ids DEF IInv, Typed
<1>4. NewIdentity' /\ OnlyKnown' /\ CommandKnows'
  BY <1>1, <1>2 DEF IInv, NewIdentity, OnlyKnown, CommandKnows, Known, Creating, Out
<1>5. RunCarries' /\ NeverKillsLive'
  BY <1>1, RunsUnharmed
<1>6. Stored' /\ Usable'
  BY <1>1, <1>2 DEF IInv, CommandKnows, Stored, Usable, Live, Settled
<1>7. InSight'
  BY <1>1, <1>2 DEF IInv, InSight, Live, Out, Deleting
<1> QED BY <1>3, <1>4, <1>5, <1>6, <1>7 DEF IInv

LEMMA DeleteLockStep ==
    ASSUME IInv, NEW fails \in BOOLEAN, DeleteLock(fails)
    PROVE  IInv'
<1>1. /\ cmd.pc = "u_lock" /\ cmd' = NoCmd
      /\ lock' \in {lock, lock + 1}
      /\ unfinished' \in BOOLEAN /\ (unfinished => unfinished')
      /\ UNCHANGED <<cfg, cred, st, spool, bridge, run, foreign, blind>>
  BY DEF IInv, Typed, DeleteLock, Left, relay
<1>2. cmd'.pc = "none" /\ cmd' \in Cmd
  BY <1>1, Ids DEF IInv, Typed, NoCmd, Cmd, CmdPc
<1>3. Typed'
  BY <1>1, <1>2, Ids DEF IInv, Typed
<1>4. NewIdentity' /\ OnlyKnown' /\ CommandKnows'
  BY <1>1, <1>2 DEF IInv, NewIdentity, OnlyKnown, CommandKnows, Known, Creating, Out
<1>5. RunCarries' /\ NeverKillsLive'
  BY <1>1, RunsUnharmed
<1>6. Stored' /\ Usable'
  BY <1>1, <1>2 DEF IInv, CommandKnows, Stored, Usable, Live, Settled
<1>7. InSight'
  BY <1>1, <1>2 DEF IInv, InSight, Live, Out, Deleting
<1> QED BY <1>3, <1>4, <1>5, <1>6, <1>7 DEF IInv

LEMMA CommandDiesStep == IInv /\ CommandDies => IInv'
<1> SUFFICES ASSUME IInv, CommandDies PROVE IInv'
  OBVIOUS
<1>1. Typed'
  BY Ids DEF IInv, Typed, CommandDies, NoCmd, Cmd, CmdPc, files, relay
<1>2. NewIdentity' /\ OnlyKnown' /\ CommandKnows'
  BY DEF IInv, CommandDies, NoCmd, NewIdentity, OnlyKnown, CommandKnows, Known,
         Creating, Out, files, relay
<1>3. RunCarries' /\ NeverKillsLive'
  BY RunsUnharmed DEF IInv, CommandDies, files, relay
<1>4. Stored' /\ Usable'
  BY DEF IInv, CommandDies, NoCmd, CommandKnows, Stored, Usable, Live, Settled, files,
         relay
<1>5. InSight'
  BY DEF IInv, CommandDies, NoCmd, InSight, Live, Out, Deleting, files, relay
<1> QED BY <1>1, <1>2, <1>3, <1>4, <1>5 DEF IInv

(* Revoking: the configured identity dies, or pair cannot know.            *)
LEMMA RevokeStep ==
    ASSUME IInv, RevokeOld \/ RevokeSelf
    PROVE  IInv'
<1> DEFINE next == IF cmd.pc = "revoke" THEN "store" ELSE "u_cred"
<1>1. /\ cmd.pc \in {"revoke", "u_revoke"} /\ cmd' = [NoCmd EXCEPT !.pc = next, !.new = cmd.new]
      /\ cmd \in Cmd /\ cfg \in IdOrNone
      /\ UNCHANGED <<cfg, cred, st, spool, lock, run, foreign, unfinished>>
      /\ \/ /\ Honours(cfg, cmd.secret) /\ blind' = blind
            /\ bridge' = [bridge EXCEPT ![cfg] = "gone"]
         \/ bridge' = bridge /\ blind' = (blind \/ Live(cfg))
  BY DEF RevokeOld, RevokeSelf, RevokeOr, IInv, Typed, CommandKnows, Honours,
         LeftActive, files, relay, Live
<1>2. /\ cmd'.pc = next /\ cmd'.new = cmd.new /\ cmd' \in Cmd
  BY <1>1, Ids DEF NoCmd, Cmd, CmdPc
<1>3. /\ \A i \in Id : \/ bridge'[i] = bridge[i]
                       \/ i = cfg /\ bridge[i] = "active" /\ bridge'[i] = "gone"
      /\ ~blind' => ~blind /\ ~(cfg # 0 /\ bridge'[cfg] = "active")
      /\ bridge' \in [Id -> {"none", "pending", "shown", "active", "gone"}]
      /\ blind' \in BOOLEAN
  <2>1. CASE /\ Honours(cfg, cmd.secret) /\ blind' = blind
             /\ bridge' = [bridge EXCEPT ![cfg] = "gone"]
    <3>1. cfg \in Id /\ bridge[cfg] = "active"
      BY <1>1, <2>1, Ids DEF Honours
    <3>2. bridge'[cfg] = "gone" /\ \A i \in Id : i # cfg => bridge'[i] = bridge[i]
      BY <2>1, <3>1 DEF IInv, Typed
    <3>3. bridge' \in [Id -> {"none", "pending", "shown", "active", "gone"}]
      BY <2>1 DEF IInv, Typed
    <3> QED BY <2>1, <3>1, <3>2, <3>3 DEF IInv, Typed
  <2>2. CASE bridge' = bridge /\ blind' = (blind \/ Live(cfg))
    BY <2>2 DEF IInv, Typed, Live
  <2> QED BY <1>1, <2>1, <2>2
<1>4. Typed'
  BY <1>1, <1>2, <1>3 DEF IInv, Typed
<1>5. NewIdentity' /\ OnlyKnown' /\ CommandKnows'
  BY <1>1, <1>2, <1>3, Ids
     DEF IInv, Typed, Run, Cmd, NewIdentity, OnlyKnown, CommandKnows,
     Known, Creating, Out
<1>6. RunCarries' /\ NeverKillsLive'
  BY <1>1, <1>3, RunsUnharmed
<1>7. Stored' /\ Usable'
  BY <1>1, <1>2, <1>3, Ids DEF IInv, Stored, Usable, Live, Settled, Typed
<1>8. InSight'
  BY <1>1, <1>2, <1>3, Ids DEF IInv, InSight, Live, Out, Deleting
<1> QED BY <1>4, <1>5, <1>6, <1>7, <1>8 DEF IInv

(* The new identity is nobody's yet.  Without a revoke there was nothing   *)
(* to revoke.                                                              *)
LEMMA CreateBridgeStep == IInv /\ CreateBridge => IInv'
<1> SUFFICES ASSUME IInv, CreateBridge PROVE IInv'
  OBVIOUS
<1>1. /\ cmd.pc = "create" /\ cmd \in Cmd /\ cmd.id \in {0, cfg}
      /\ UNCHANGED <<cfg, cred, st, spool, lock, run, foreign, unfinished>>
  <2>1. cmd.pc = "create" /\ UNCHANGED <<files, age, run, foreign, unfinished>>
    BY DEF CreateBridge
  <2> QED BY <2>1 DEF IInv, Typed, CommandKnows, files
<1>2. CASE cmd' = NoCmd /\ UNCHANGED <<bridge, blind>>
  <2>1. cmd'.pc = "none" /\ cmd' \in Cmd
    BY <1>2, Ids DEF NoCmd, Cmd, CmdPc
  <2>2. Typed' /\ NewIdentity' /\ OnlyKnown' /\ CommandKnows'
    BY <1>1, <1>2, <2>1 DEF IInv, Typed, NewIdentity, OnlyKnown, CommandKnows, Known,
                            Creating, Out
  <2>3. RunCarries' /\ NeverKillsLive'
    BY <1>1, <1>2, RunsUnharmed
  <2>4. Stored' /\ Usable' /\ InSight'
    BY <1>1, <1>2, <2>1 DEF IInv, Stored, Usable, InSight, Live, Settled, Out, Deleting
  <2> QED BY <2>2, <2>3, <2>4 DEF IInv
<1>3. ASSUME NEW i \in Id, bridge[i] = "none", bridge' = [bridge EXCEPT ![i] = "pending"],
             cmd' = IF AlreadyPaired THEN [cmd EXCEPT !.pc = "revoke", !.new = i]
                    ELSE [NoCmd EXCEPT !.pc = "store", !.new = i],
             blind' = (blind \/ (LeftActive /\ 0 \in {cmd.id, cmd.secret}))
      PROVE  IInv'
  <2>1. /\ cmd'.pc = (IF AlreadyPaired THEN "revoke" ELSE "store") /\ cmd'.new = i
        /\ (AlreadyPaired => cmd'.id = cmd.id) /\ cmd' \in Cmd
        /\ blind' \in BOOLEAN /\ (blind => blind')
    BY <1>1, <1>3, Ids DEF IInv, Typed, NoCmd, Cmd, CmdPc
  <2>2. /\ bridge'[i] = "pending" /\ \A j \in Id : j # i => bridge'[j] = bridge[j]
        /\ bridge' \in [Id -> {"none", "pending", "shown", "active", "gone"}]
    BY <1>3 DEF IInv, Typed
  <2>3. /\ i # 0 /\ cfg # i /\ \A f \in Flusher : run[f].id # i
        /\ cfg \in IdOrNone /\ \A f \in Flusher : run[f].id \in IdOrNone
    BY <1>3, Ids DEF IInv, OnlyKnown, Known, Typed, Run
  <2>4. Typed'
    BY <1>1, <2>1, <2>2 DEF IInv, Typed
  <2>5. NewIdentity' /\ OnlyKnown' /\ CommandKnows'
    BY <1>1, <2>1, <2>2, <2>3, Ids
       DEF IInv, NewIdentity, OnlyKnown, CommandKnows, Known, Creating, Out
  <2>6. RunCarries' /\ NeverKillsLive'
    BY <1>1, <2>2, RunsUnharmed
  <2>7. Stored' /\ Usable'
    BY <1>1, <2>1, <2>2, <2>3, Ids DEF IInv, Stored, Usable, Live, Settled
  <2>8. ~blind' => ~blind /\ (Live(cfg) => AlreadyPaired)
    BY <1>3 DEF LeftActive, Live, AlreadyPaired
  <2>9. InSight'
    BY <1>1, <2>1, <2>2, <2>3, <2>8, Ids DEF IInv, InSight, Live, Out, Deleting
  <2> QED BY <2>4, <2>5, <2>6, <2>7, <2>9 DEF IInv
<1> QED BY <1>2, <1>3 DEF CreateBridge

LEMMA StoreAgainStep == IInv /\ StoreAgain => IInv'
<1> SUFFICES ASSUME IInv, StoreAgain PROVE IInv'
  OBVIOUS
<1>1. /\ cmd.pc = "again" /\ cmd \in Cmd /\ cmd' = [cmd EXCEPT !.pc = "save"]
      /\ cred' = cmd.new /\ foreign' = FALSE /\ cfg # cmd.new
      /\ UNCHANGED <<cfg, st, spool, lock, bridge, run, blind, unfinished>>
  BY DEF StoreAgain, SecondSecret, IInv, Typed, NewIdentity, Out, relay
<1>2. cmd'.pc = "save" /\ cmd'.new = cmd.new /\ cmd'.id = cmd.id /\ cmd' \in Cmd
      /\ cmd.new \in IdOrNone
  BY <1>1 DEF Cmd, CmdPc
<1>3. Typed'
  BY <1>1, <1>2 DEF IInv, Typed
<1>4. NewIdentity' /\ OnlyKnown' /\ CommandKnows'
  BY <1>1, <1>2 DEF IInv, NewIdentity, OnlyKnown, CommandKnows, Known, Creating, Out
<1>5. RunCarries' /\ NeverKillsLive'
  BY <1>1, RunsUnharmed
<1>6. Stored' /\ Usable' /\ InSight'
  BY <1>1, <1>2 DEF IInv, Stored, Usable, InSight, Live, Settled, Out, Deleting
<1> QED BY <1>3, <1>4, <1>5, <1>6 DEF IInv

(* The phone redeems a code, the relay forgets an identity: nobody who is  *)
(* known becomes active.                                                   *)
LEMMA PhoneStep ==
    ASSUME IInv, NEW i \in Id, Redeem(i) \/ Forget(i)
    PROVE  IInv'
<1>1. UNCHANGED <<cfg, cred, st, spool, lock, cmd, run, foreign, blind, unfinished>>
  BY DEF Redeem, Forget, files, hist
<1>2. /\ bridge' \in [Id -> {"none", "pending", "shown", "active", "gone"}]
      /\ \A j \in Id : bridge'[j] # bridge[j] =>
            \/ bridge[j] = "shown" /\ bridge'[j] = "active"
            \/ bridge[j] \in {"shown", "active"} /\ bridge'[j] = "gone"
  BY DEF Redeem, Forget, IInv, Typed
<1>3. /\ cfg \in IdOrNone /\ cmd.new \in IdOrNone
      /\ \A f \in Flusher : run[f].id \in IdOrNone
  BY DEF IInv, Typed, Cmd, Run
<1>4. Typed'
  BY <1>1, <1>2 DEF IInv, Typed
<1>5. NewIdentity' /\ OnlyKnown' /\ CommandKnows'
  BY <1>1, <1>2, <1>3, Ids
     DEF IInv, NewIdentity, OnlyKnown, CommandKnows, Known, Creating, Out
<1>6. RunCarries' /\ NeverKillsLive'
  BY <1>1, <1>2, Ids, RunsUnharmed DEF Known
<1>7. Stored' /\ Usable'
  BY <1>1, <1>2, <1>3, Ids DEF IInv, Stored, Usable, Live, OnlyKnown, NewIdentity, Known
<1>8. InSight'
  BY <1>1, <1>2, <1>3, Ids DEF IInv, InSight, Live, Out, Deleting, OnlyKnown, NewIdentity, Known
<1> QED BY <1>4, <1>5, <1>6, <1>7, <1>8 DEF IInv

(* Time, and hooks, do not touch any of this.                              *)
LEMMA QuietStep ==
    ASSUME IInv, spool' \in Nat,
           UNCHANGED <<cfg, cred, st, lock, bridge, cmd, run, foreign, blind, unfinished>>
    PROVE  IInv'
BY DEF IInv, Typed, NewIdentity, OnlyKnown, CommandKnows, RunCarries, Carries,
       NeverKillsLive, Honours, Stored, Usable, InSight, Known, Live

-----------------------------------------------------------------------------
(* The inductive invariant.                                                *)
THEOREM PairingInv == Spec => []IInv
<1>1. IInv /\ [Next]_vars => IInv'
  <2> SUFFICES ASSUME IInv, [Next]_vars PROVE IInv'
    OBVIOUS
  <2>1. CASE HookAppends \/ (\E i \in Id : Ages(i)) \/ UNCHANGED vars
    <3>1. spool' \in Nat
      BY <2>1, PairingAssumption DEF IInv, Typed, HookAppends, Capped, Ages, vars, files
    <3> QED BY <2>1, <3>1, QuietStep DEF HookAppends, Ages, vars, files, relay, hist
  <2>2. CASE Pair
    BY <2>2, PairStartsStep, CreateBridgeStep, RevokeStep, StoreSecretStep,
       ShowCodeStep, PolledStep, StoreAgainStep, SaveConfigStep, InstallHooksStep DEF Pair
  <2>3. CASE Unpair
    BY <2>3, UnpairStartsStep, RevokeStep, DeleteSecretStep, DeleteConfigStep,
       DeleteStateStep, DeleteSpoolStep, DeleteLockStep DEF Unpair
  <2>4. ASSUME NEW f \in Flusher, Flush(f) PROVE IInv'
    BY <2>4, FlushStep, DeleteCredentialStep
  <2> QED BY <2>1, <2>2, <2>3, <2>4, CommandDiesStep, PhoneStep DEF Next
<1> QED BY <1>1, InitIInv, PTL DEF Spec

(* ERR-04 and its grace period (flush.go's clearCredential): for any       *)
(* number of runs and identities.                                          *)
THEOREM PairingNeverKillsLive == Spec => []NeverKillsLive
<1>1. IInv => NeverKillsLive
  BY DEF IInv
<1> QED BY <1>1, PairingInv, PTL

(* SEC-08, BR-09: one active identity, while every revoke was answered, no *)
(* command died with a code out and none failed to read the identity it    *)
(* was to revoke.                                                          *)
THEOREM PairingOneIdentity == Spec => []OneIdentity
<1>1. IInv => OneIdentity
  <2> SUFFICES ASSUME IInv, ~blind, cmd.pc = "none"
               PROVE  Cardinality({i \in Id : bridge[i] = "active"}) <= 1
    BY DEF OneIdentity
  <2> DEFINE A == {i \in Id : bridge[i] = "active"}
  <2>1. A \in SUBSET {cfg}
    BY Ids DEF IInv, InSight, Live, Out, Deleting
  <2>2. IsFiniteSet({cfg}) /\ Cardinality({cfg}) = 1
    BY FS_Singleton
  <2>3. IsFiniteSet(A) /\ Cardinality(A) <= 1
    BY <2>1, <2>2, FS_Subset
  <2> QED BY <2>3
<1> QED BY <1>1, PairingInv, PTL

(* Status and doctor agree with each other and with the files, for any     *)
(* answer of the relay, clock, spool and store (status.go, doctor.go).     *)
LEMMA ReportsAgree ==
    ASSUME IInv, cmd.pc = "none", ~unfinished, NEW w \in World
    PROVE  LET checks == RunChecks(w)
           IN  /\ RunStatus(w) = 0 /\ checks[1].finding \in {"file_fallback", "readable"}
                  => cred = cfg
               /\ RunDoctor(w) = 0 /\ RunStatus(w) = 1 /\ ~w.broken
                  => cfg = 0 /\ checks[1].finding \in {"not_paired", "unreadable"}
               /\ RunDoctor(w) = 1 /\ RunStatus(w) = 0
                  => {"skewed", "unusable", "upgrade"} \cap
                     {checks[i].finding : i \in {3, 4, 5}} # {}
<1> DEFINE c == RunChecks(w)
<1>1. cred \in {0, cfg}
  BY DEF IInv, Stored, Settled
<1>2. /\ c[1] = CheckCredentialStore(w.backend, Read(w))
      /\ c[2] = CheckRelayReachability(w.health)
      /\ c[3] = CheckClockSkew(w.health)
      /\ c[4] = CheckSpoolHealth(w.usable, spool)
      /\ c[5] = CheckBridgeVersion(st.reason, w.required)
      /\ DOMAIN c = 1..5
  BY DEF RunChecks
<1> HIDE DEF c
<1>3. w.error \in BOOLEAN /\ w.broken \in BOOLEAN /\ w.health.reachable \in BOOLEAN
  <2>1. w.error \in BOOLEAN /\ w.broken \in BOOLEAN /\ \E a \in HeadAnswers \cup {NoReply} : w.health = Health(a)
    BY DEF World
  <2> QED BY <2>1 DEF Health
<1>4. st.reason \in BOOLEAN
  BY DEF IInv, Typed, State
<1>5. AnyFail(c) <=> \E i \in {1, 2, 3, 4, 5} : c[i].verdict = "FAIL"
  BY <1>2 DEF AnyFail
<1>6. /\ Read(w) \in {"error", "not_found", "secret"}
      /\ Read(w) = "not_found" => cred = 0
      /\ cred = 0 => Read(w) # "secret"
  BY <1>3 DEF Read
<1>7. /\ Read(w) = "not_found" => c[1] = Result("WARN", "not_paired")
      /\ Read(w) = "error" => c[1] = Result("WARN", "unreadable")
      /\ Read(w) = "secret" =>
            c[1] \in {Result("WARN", "file_fallback"), Result("PASS", "readable")}
  BY <1>2 DEF CheckCredentialStore
<1>8. /\ c[1].verdict # "FAIL"
      /\ c[1].finding \in {"file_fallback", "readable"} => Read(w) = "secret"
      /\ cred = 0 => c[1].finding \in {"not_paired", "unreadable"}
  <2>1. CASE Read(w) = "not_found"
    BY <2>1, <1>7 DEF Result
  <2>2. CASE Read(w) = "error"
    BY <2>2, <1>7 DEF Result
  <2>3. CASE Read(w) = "secret"
    BY <2>3, <1>6, <1>7 DEF Result
  <2> QED BY <1>6, <2>1, <2>2, <2>3
<1>9. c[2].verdict = "FAIL" <=> ~w.health.reachable
  BY <1>2, <1>3 DEF CheckRelayReachability, Result
<1>10. c[3].verdict = "FAIL" => c[3].finding = "skewed"
  <2>1. c[3] \in {Result("WARN", "unknown"), Result("FAIL", "skewed"),
                 Result("PASS", "in_step")}
    <3> DEFINE h == w.health
               unknown == ~h.reachable \/ h.date = NoDate
               skewed == \/ h.reachable /\ h.date # NoDate /\ h.date < -SkewLimit
                         \/ h.date > SkewLimit
    <3>1. c[3] = CASE unknown -> Result("WARN", "unknown")
                   [] skewed -> Result("FAIL", "skewed")
                   [] OTHER -> Result("PASS", "in_step")
      BY <1>2 DEF CheckClockSkew
    <3> HIDE DEF h, unknown, skewed
    <3> QED BY <3>1
  <2> QED BY <2>1 DEF Result
<1>11. c[4].verdict = "FAIL" => c[4].finding = "unusable"
  BY <1>2 DEF CheckSpoolHealth, Result
<1>12. /\ st.reason => c[5].verdict = "FAIL"
       /\ ~st.reason /\ c[5].verdict = "FAIL" => c[5].finding = "upgrade"
  BY <1>2 DEF CheckBridgeVersion, Result
<1>13. RunDoctor(w) = IF AnyFail(c) THEN 1 ELSE 0
  BY DEF RunDoctor, c
<1>14. RunStatus(w) = 0 \/ RunStatus(w) = 1
  BY DEF RunStatus
<1>15. RunStatus(w) = 0 <=> ~st.reason /\ ~w.broken /\ cfg # 0 /\ w.health.reachable
  BY DEF RunStatus, Missing
<1>16. RunStatus(w) = 0 /\ c[1].finding \in {"file_fallback", "readable"} => cred = cfg
  <2>1. c[1].finding \in {"file_fallback", "readable"} => cred # 0
    <3>1. c[1].finding \in {"file_fallback", "readable"} =>
             c[1].finding \notin {"not_paired", "unreadable"}
      OBVIOUS
    <3> QED BY <1>8, <3>1
  <2> QED BY <1>1, <2>1
<1>17. ASSUME RunDoctor(w) = 0, RunStatus(w) = 1, ~w.broken
       PROVE  cfg = 0 /\ c[1].finding \in {"not_paired", "unreadable"}
  <2>1. c[2].verdict # "FAIL" /\ c[5].verdict # "FAIL"
    BY <1>5, <1>13, <1>17
  <2>2. w.health.reachable /\ ~st.reason
    <3>1. w.health.reachable
      BY <1>9, <2>1
    <3>2. ~st.reason
      BY <1>12, <2>1
    <3> QED BY <3>1, <3>2
  <2> QED BY <1>1, <1>8, <1>15, <1>17, <2>2
<1>18. ASSUME RunDoctor(w) = 1, RunStatus(w) = 0
       PROVE  {"skewed", "unusable", "upgrade"} \cap {c[i].finding : i \in {3, 4, 5}} # {}
  <2>1. \E i \in {3, 4, 5} : c[i].verdict = "FAIL"
    <3>1. AnyFail(c)
      BY <1>13, <1>18
    <3>2. w.health.reachable
      BY <1>15, <1>18
    <3>3. c[2].verdict # "FAIL"
      BY <1>9, <3>2
    <3> QED BY <1>5, <1>8, <3>1, <3>3
  <2>2. \E i \in {3, 4, 5} : c[i].finding \in {"skewed", "unusable", "upgrade"}
    BY <1>10, <1>11, <1>12, <1>15, <1>18, <2>1
  <2> QED BY <2>2
<1> QED BY <1>16, <1>17, <1>18 DEF c

(* Between commands a pairing is usable, and is reported as it is, unless  *)
(* a command was cut short or said that it could not delete something, or  *)
(* a run with an older identity deleted the secret (pair.go 207-211,       *)
(* status.go:31, BR-14, BR-15).                                            *)
THEOREM PairingUsableAndReported == Spec => []UsableAndReported
<1>1. IInv => PairedUsable
  BY DEF IInv, Usable, Settled, Live, PairedUsable
<1>2. IInv => UsableAndReported
  BY <1>1, ReportsAgree DEF UsableAndReported
<1> QED BY <1>2, PairingInv, PTL
=============================================================================
