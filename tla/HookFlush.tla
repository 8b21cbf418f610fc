----------------------------- MODULE HookFlush ------------------------------
(***************************************************************************)
(* How an event gets from a hook to a flush run: cmd/agentpulse/hook.go    *)
(* spools the event, peeks at flush.lock and starts a detached "agentpulse *)
(* flush" unless the lock is held; flush.go takes the same lock, drains    *)
(* the spool once, sends, commits and exits.  A burst of tool calls runs   *)
(* many of both at once.                                                   *)
(*                                                                         *)
(* Each hook brings one event, named after it, and starts at most one run, *)
(* named after it too.  What is in a batch and in the spool file is        *)
(* modelled in Spool, what the relay answers in Flush.                     *)
(***************************************************************************)
EXTENDS Naturals, Sequences

CONSTANTS Hook

VARIABLES
    hook,     \* the hooks
    run,      \* the flush processes they start
    lock,     \* flush.lock: who holds it, or Free
    spool,    \* the events in the spool
    batch,    \* what each run has drained
    (* history *)
    arrived,  \* the events in the order they were spooled
    seen,     \* those that some run has drained
    late,     \* hooks that found the lock held by a run past its Drain
    failed    \* a process died, could not be started, or had nobody to send to

vars == <<hook, run, lock, spool, batch, arrived, seen, late, failed>>

Free == <<"free">>
HookHolds(h) == <<"hook", h>>
RunHolds(r) == <<"run", r>>

Init ==
    /\ hook = [h \in Hook |-> "idle"]
    /\ run = [h \in Hook |-> "none"]
    /\ lock = Free /\ spool = {} /\ batch = [h \in Hook |-> {}]
    /\ arrived = <<>> /\ seen = {} /\ late = {} /\ failed = FALSE

-----------------------------------------------------------------------------
(* The hook.                                                               *)

HookGoes(h, from, to) == hook[h] = from /\ hook' = [hook EXCEPT ![h] = to]

ClassifyAndSpool(h) ==
    /\ HookGoes(h, "idle", "spooled")
    /\ spool' = spool \cup {h} /\ arrived' = Append(arrived, h)
    /\ UNCHANGED <<run, lock, batch, seen, late, failed>>

PastDrain(r) == run[r] \in {"sending", "unlocking"}

(* TryLock finds the lock held: no spawn.                                  *)
PeeksHeld(h) ==
    /\ HookGoes(h, "spooled", "leaving")
    /\ lock # Free
    /\ late' = late \cup {g \in {h}: \E r \in Hook: lock = RunHolds(r) /\ PastDrain(r)}
    /\ UNCHANGED <<run, lock, spool, batch, arrived, seen, failed>>

(* ... or takes it, for a moment in which nobody else can.                 *)
Bug_PeeksFree(h) ==
    /\ HookGoes(h, "spooled", IF spool = {h} THEN "peeking" ELSE "leaving")
    /\ lock = Free
    /\ lock' = IF spool = {h} THEN HookHolds(h) ELSE Free
    /\ UNCHANGED <<run, spool, batch, arrived, seen, late, failed>>

PeeksFree(h) ==
    /\ HookGoes(h, "spooled", "peeking")
    /\ lock = Free /\ lock' = HookHolds(h)
    /\ UNCHANGED <<run, spool, batch, arrived, seen, late, failed>>

Bug_Unlocks(h) ==
    /\ HookGoes(h, "peeking", "spawning")
    /\ UNCHANGED <<run, lock, spool, batch, arrived, seen, late, failed>>

Unlocks(h) ==
    /\ HookGoes(h, "peeking", "spawning")
    /\ lock' = Free
    /\ UNCHANGED <<run, spool, batch, arrived, seen, late, failed>>

Spawns(h) ==
    /\ HookGoes(h, "spawning", "leaving")
    /\ run' = [run EXCEPT ![h] = "started"]
    /\ UNCHANGED <<lock, spool, batch, arrived, seen, late, failed>>

Bug_GivenBack(holder) == Free

(* The kernel gives back what a process that ends still holds.             *)
GivenBack(holder) == IF lock = holder THEN Free ELSE lock

Leaves(h) ==
    /\ HookGoes(h, "leaving", "done")
    /\ lock' = GivenBack(HookHolds(h))
    /\ UNCHANGED <<run, spool, batch, arrived, seen, late, failed>>

-----------------------------------------------------------------------------
(* The run.                                                                *)

RunGoes(r, from, to) == run[r] = from /\ run' = [run EXCEPT ![r] = to]

(* "If the lock is held, exit 0 immediately and silently."                 *)
FindsHeld(r) ==
    /\ RunGoes(r, "started", "done")
    /\ lock # Free
    /\ UNCHANGED <<hook, lock, spool, batch, arrived, seen, late, failed>>

TakesLock(r) ==
    /\ RunGoes(r, "started", "locked")
    /\ lock = Free /\ lock' = RunHolds(r)
    /\ UNCHANGED <<hook, spool, batch, arrived, seen, late, failed>>

(* Not paired, no credential, no usable relay URL.                         *)
HasNobody(r) ==
    /\ RunGoes(r, "locked", "done")
    /\ lock' = GivenBack(RunHolds(r)) /\ failed' = TRUE
    /\ UNCHANGED <<hook, spool, batch, arrived, seen, late>>

Drains(r) ==
    /\ RunGoes(r, "locked", "sending")
    /\ batch' = [batch EXCEPT ![r] = spool]
    /\ seen' = seen \cup spool
    /\ UNCHANGED <<hook, lock, spool, arrived, late, failed>>

(* The relay has answered for some of the batch; the rest stays.           *)
Commits(r) ==
    /\ RunGoes(r, "sending", "unlocking")
    /\ \E answered \in SUBSET batch[r]: spool' = spool \ answered
    /\ UNCHANGED <<hook, lock, batch, arrived, seen, late, failed>>

Ends(r) ==
    /\ RunGoes(r, "unlocking", "done")
    /\ lock' = GivenBack(RunHolds(r))
    /\ batch' = [batch EXCEPT ![r] = {}]
    /\ UNCHANGED <<hook, spool, arrived, seen, late, failed>>

-----------------------------------------------------------------------------
(* What goes wrong: Claude Code kills a hook at its time-out, the machine  *)
(* has no process to give, a run is killed.                                *)

Alive(p) == p \notin {"idle", "none", "done"}

HookDies(h) ==
    /\ Alive(hook[h]) /\ hook' = [hook EXCEPT ![h] = "done"]
    /\ lock' = GivenBack(HookHolds(h)) /\ failed' = TRUE
    /\ UNCHANGED <<run, spool, batch, arrived, seen, late>>

SpawnFails(h) ==
    /\ HookGoes(h, "spawning", "leaving") /\ failed' = TRUE
    /\ UNCHANGED <<run, lock, spool, batch, arrived, seen, late>>

RunDies(r) ==
    /\ Alive(run[r]) /\ run' = [run EXCEPT ![r] = "done"]
    /\ lock' = GivenBack(RunHolds(r)) /\ failed' = TRUE
    /\ batch' = [batch EXCEPT ![r] = {}]
    /\ UNCHANGED <<hook, spool, arrived, seen, late>>

-----------------------------------------------------------------------------
HookStep(h) ==
    \/ PeeksHeld(h) \/ PeeksFree(h) \/ Unlocks(h)
    \/ Spawns(h) \/ SpawnFails(h) \/ Leaves(h)

RunStep(r) ==
    \/ FindsHeld(r) \/ TakesLock(r) \/ HasNobody(r) \/ Drains(r) \/ Commits(r) \/ Ends(r)

Next ==
    \E h \in Hook:
        \/ ClassifyAndSpool(h) \/ HookStep(h) \/ RunStep(h)
        \/ HookDies(h) \/ RunDies(h)

Spec == Init /\ [][Next]_vars

(* A process that has begun goes on; nothing obliges the agent to start    *)
(* another hook.                                                           *)
FairSpec == Spec /\ \A h \in Hook: WF_vars(HookStep(h)) /\ WF_vars(RunStep(h))

-----------------------------------------------------------------------------
(* Types, and whoever holds the lock is at a step that holds it.           *)
TypeOK ==
    /\ hook \in [Hook -> {"idle", "spooled", "peeking", "spawning", "leaving", "done"}]
    /\ run \in [Hook -> {"none", "started", "locked", "sending", "unlocking", "done"}]
    /\ lock \in {Free} \cup {HookHolds(h) : h \in Hook} \cup {RunHolds(h) : h \in Hook}
    /\ spool \subseteq Hook /\ batch \in [Hook -> SUBSET Hook]
    /\ arrived \in Seq(Hook) /\ seen \subseteq Hook /\ late \subseteq Hook
    /\ failed \in BOOLEAN

Quiet == \A h \in Hook: ~Alive(hook[h]) /\ ~Alive(run[h])

(* hook.go 72-104, "so the event classifyAndSpool just appended actually   *)
(* reaches the relay".  When all is quiet and nothing went wrong, the      *)
(* events that no run has taken up are the last ones spooled, and each of  *)
(* them was spooled by a hook that found a run past its Drain.  However    *)
(* peeks, spawns and runs take the lock from each other, nothing else is   *)
(* left behind, and one hook after the last run takes up all of it.        *)
OnlyLateLeft ==
    Quiet /\ ~failed =>
        \E n \in 0..Len(arrived):
            /\ seen = {arrived[i] : i \in 1..n}
            /\ \A i \in n+1..Len(arrived): arrived[i] \in late

(* Every spooled event is in the end taken up by a run, without any        *)
(* further hook, unless its own hook came late or something went wrong.    *)
TakenUp ==
    \A h \in Hook: hook[h] = "spooled" ~> h \in seen \cup late \/ failed

(* At most one run at a time has drained and not yet committed (BR-03),    *)
(* and a peek never makes a running one lose the lock.                     *)
OneRunSends ==
    \A r \in Hook: run[r] \in {"locked", "sending", "unlocking"} => lock = RunHolds(r)
=============================================================================
