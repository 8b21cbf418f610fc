# agentpulse-bridge in TLA+

agentpulse-bridge runs on a developer's machine. Claude Code calls `agentpulse hook` for every hook event; the
process classifies the event, appends at most one line to a spool file and starts `agentpulse flush`, which posts the
spool to a relay. The person runs `pair`, `unpair`, `projects`, `status` and `doctor`. There is no daemon: every part
is a short-lived process, and all state is in small files that several processes read and write. What is hard to test
is what those processes do to each other's files, and what is left after any of them dies.

All paths below are relative to the repository; `flush.go` and the like are in `cmd/agentpulse/`.

## Inventory

| component | state | operations | used by, shares |
|---|---|---|---|
| spool (`internal/spool`) | `spool.ndjson`, flock on it | Append (evicts at Cap), Drain, commit (rewrite), Depth | hooks append, one flush run drains; Depth has no lock |
| coalesce (`internal/coalesce`) | none | DropStaleActivity | flush, before every send and every commit |
| flush (`flush.go`, `flush_subagent.go`, `internal/relay`) | `state.json`, `flush.lock`, the loop's locals | one run: lock, drain, send loop, commit, save | relay, spool, credential, watch list |
| pair, unpair (`pair.go`, `unpair.go`) | `config.json`, credential, Claude Code settings | create, revoke, store, show, poll, save, install; and the reverse | flush runs at the same time; the phone |
| lock files (`internal/lockfile`) | a file per lock | TryLock, Lock | flush, hook sessions, spool |
| watch list (`internal/watch`, `projects.go`) | `watchlist.json` | Load, Decide, ApplyRelayList, Save | hooks, flush runs, `projects`: whole-file overwrites |
| hook and session classification (`hook_classify.go`, `internal/classify`, `internal/scratch`) | a scratch file per session, its lock | classify, save, delete | hooks of one session |
| hook's flush spawn (`hook.go`) | none | peek at `flush.lock`, start a detached run | other hooks, runs |
| pairing poll (`internal/pair/poll.go`) | none | Poll | pair; the relay and the phone |
| settings merge (`internal/hooks`, `settings.go`, `pair_hooks_only.go`) | Claude Code's `settings.json` | plan (install, uninstall), ask, apply; what is installed | Claude Code and editors |
| credential stores (`internal/cred`) | Keychain, Secret Service or a file | Get, Set with read-back, Delete, choice of the store | pair, unpair, flush runs; child processes |
| doctor and status (`internal/doctor`, `doctor.go`, `status.go`, `relay/health.go`) | none | eight checks with remedies; one report; an exit status each | reads what the others write, asks the relay for its health |
| keep-awake, logging, scrubber, recorder, helpers | see PROJECT.json | | |

What makes each correct:

- spool: bounded, in arrival order, no line lost without a reason, none delivered again after its answer was committed.
- coalesce: only stale activity goes, and each chain's newest line (its cumulative counters) stays.
- flush: every line has its answer or is still in the spool; order; termination; a clear rule for deleting the
  credential; the waits the relay asked for are kept by every later run.
- pair, unpair: a live credential is not killed, a successful pair is usable, the relay holds one identity.
- watch list: never a mix of two relay lists, the six-hour throttle, the phone's change arrives.
- spawn: every event is taken up by some run, or left behind for a known reason; one run at a time.
- poll: what pair says at the end is true; a redemption is not missed; the loop ends.
- settings: nothing of anybody else's is lost, pair registers each hook once, unpair takes all of them away, and doctor's
  verdicts and remedies fit.
- credential stores: a code is shown only with its secret stored; what Set says of a failure is true; unpair clears.
- session: the scratch file and the spool agree: counters, one end for each start, no marker resolved by another helper,
  nothing suppressed that was not just said.

Hard behaviours: hooks interleave with a flush that holds a batch in memory; truncate-then-rewrite and deaths inside
it; retries, partial deliveries and lost answers; counters that span runs; `pair` and `unpair` beside a running flush
(they do not take its lock); whole-file overwrites from old copies. PROJECT.json lists each under `hazards` with its
line and the properties that watch it.

## Modules

    EventQueue <--- implements --- Spool <--- SpoolProofs
    Selection <--- Coalesce <--- Backlog <--- FlushProofs
                            <--- Flush   <--- FlushProofs
    Delivery   <--- implements --- Flush
    Selection <--- Settings <--- Doctor <--- SettingsProofs
    Commands  <--- Settings
    Selection <--- SelectionProofs <--- FlushProofs, SettingsProofs
    HookFlush, WatchList <--- HookStepsProofs
    PairPoll, Credentials <--- PairStepsProofs
    Pairing <--- Reports <--- PairingProofs
    Session <--- SessionProofs

`A <--- B` is "B extends or instantiates A". Pairing is the frame of `pair`: PairPoll refines its step `Polled` and
Credentials its steps `StoreSecret`, `StoreAgain` and `DeleteSecret`; HookFlush is the frame of Spool and Flush. These
are separate modules, each with the neighbours it needs abstracted to what they do to it.

An MC module beside each gives the constants; definitions whose name begins with `Bug_` are plausible mistakes, which
are used only to show that the properties can fail.

**Spool** is `internal/spool`. A line is its number of arrival. `file` is the file, `holder` and `writing` the process
inside a write-back loop and what it has still to write, so truncation and every single `writeLine` are steps that
`Depth` (no lock) and death can come between. `AppendFits`/`AppendEvicts` are Append's two paths, `Drain` and `Commit`
the flusher's, `Answer` whatever the caller decides about the lines it holds (any subsequence may remain). `Commit`
computes `Rewritten` from positions (`rawCount`), as `rewrite` does. `HookDies`, `FlusherDiesWriting` and
`FlusherDiesHolding` also stand for failing writes and for a run that never calls commit. `shifts` counts the evictions
that overlap the current drain, `torn` remembers a hook that died in one. A single write of one line is atomic.

**EventQueue** is what the package promises without files: a bounded FIFO with Put, Take and a lost tail on death.

**Selection** is one operator, `At`, which picks elements of a sequence by their positions: every filtering loop of
coalesce, flush and the settings merge. **Coalesce** is `DropStaleActivity` and `StripSubagents`, which both flush modules
use. **Backlog** applies them again and again to a growing backlog, as a relay's long Retry-After makes the runs do. A
pause of the subagent field may last for a part of that wait (`pausedUntil`; only an answer of the relay begins one, and
no run asks during the wait): then a run takes the field off first, so that a helper's lines join their session's main
chain. `all` is every line ever spooled, less the field where a run has met it in the pause.

**Flush** is `runFlush` with `flush_subagent.go` and `relay.PostEvents`. `run` holds the locals (`cur`, `attempt`, the
budget's deadline, the copy of state.json in `mem`); `st` is the file. Each class of answer is an action (2xx, 400 with
and without a named event, 400 for the subagent field, 401 in and out of the grace period, 429, 5xx, none), each
continuing, sleeping or ending the loop as the code does; then `Commit`, then `SaveState`, with `Crash` anywhere.
`PostEvents` sends chunk after chunk, so any prefix of chunks may be delivered before the answer that counts. A lost
answer is `NoAnswer` after the relay took the chunk. Time is discrete; `RFC3339` cuts what state.json cannot hold.

**Delivery** is what all of that is for, without runs, requests, timers or state.json: a queue delivered at least once,
oldest lines first. Every request carries the oldest lines still to be sent, what is settled is not sent again unless a
process dies before it has written back, and no line is off the disk before it is settled. Flush implements it with
`Pending`: between runs what is on disk, and in a run what is in hand beyond the delivered prefix, with what hooks have
added since Drain.

**Pairing** has one command (`pair` or `unpair`) with a step for each relay call and file change, any number of
flush processes (open the lock file, flock, load config, get secret, drain, load state, one request, delete the
credential, commit, save), the relay's view of every identity and the phone. Each command and run may fail to read
config.json or the secret, which the code takes for there being none (`Reading`), and each of unpair's deletions may fail
while the rest goes on (`Deletes`, `Left`). A lock is the number of the file it is
on, because `unpair` unlinks the path under a running holder. **Reports** adds checks 4 to 8 of doctor and the exit
statuses of doctor and status as operators on Pairing's files and a `World` of everything else they read: the relay's
answer to HEAD /v1/health, the back end, whether the store and config.json can be read, whether the spool is usable, a version the relay has asked for.

**WatchList** has the file and the copies that hooks, the flush run and the `projects` command hold between Load and
Save. `Applied` is ApplyRelayList, `Decide` and `Noted` the two halves of Decide, `New` the key of WatchNewProjects.
A time stamp is only "within the six hours"; `WindowEnds` ends them in every copy.

**Session** has the hooks of one session. A hook stamps its time and reads the subagent switch (`HookStarts`), takes
the lock and loads (`HookLoads`), classifies, saves and at the session's end deletes (`HookSaves`), and spools
(`HookSpools`); it can die before the last. `Classify` and the operators under it are the functions of
`internal/classify`, returning the new scratch and the event; `KeyOf` and `Chained` are `SessionState.chain`. Times are
ages, so the state does not grow with time, and a hook's own age is how long ago it took its stamp. `SweepSees` and
`SweepRemoves` are the flush run's sweep, which does not take the session's lock.

**HookFlush** is `hook.go` and the shell of `runFlush`: each hook spools one event, peeks at `flush.lock`, which means
holding it for a moment, and starts a run or not; each run takes the lock or goes, drains once, commits, and ends. Hooks
and runs can die anywhere, and the kernel gives back their locks. `late` remembers hooks that found a run past its
Drain.

**PairPoll** is `pair.Poll` and what `pair` makes of it. Time is the relay's, the machine's clock is `skew` ahead of it;
a request can time out, be answered late, or be answered before the relay's replicas know of the redemption (`MayLag`);
the machine can be suspended, which ends every assumption on how long anything takes (`slept`).

**Commands** is what a hook's command line is: written by `hookCommand` with its quoting, recognised by `Owner.Owns`,
which splits words as a shell does. A command is a sequence of tokens, and only the characters on which the code
branches are tokens of their own. **Settings** is the file (`members`, the `hooks` member with its events and groups),
`PlanInstall`, `PlanUninstall` and `InstalledCommands` as operators, and the commands in steps: read and plan, ask,
rename. Others edit the file between any two of these. **Doctor** adds checks 1 to 3 as operators on the same state,
with `ShellRuns`, what a shell would really run for a command, beside `CommandBinary`, what doctor thinks it would.

**Credentials** has the platform's store and the file, the Keychain's Set as write and read-back, and children that are
refused, are killed by the bridge's time-out or by somebody else's signal (Ctrl-C goes to the whole foreground group),
or act after that or after their parent has died (`late`). Each process chooses its store; on Linux two processes may
choose differently.

## Runs

| run | question | bounds, and why they are enough |
|---|---|---|
| `spool` | order, depth, settled lines and silent loss under all interleavings; Spool implements EventQueue while no eviction overlaps a flush | 2 hooks, Cap 3, 6 lines, one malformed: evictions can overlap a drain, a commit can overflow the cap, a second drain follows a torn one, and three drained lines can be answered in part while lines are added and evicted |
| `spool_loss` | finding: a line vanishes with no death | one hook suffices |
| `backlog` | what repeated stripping and coalescing may drop | 4 lines, 2 chains and an unreadable line, stale after one tick of three, a pause that ends at any tick: a chain's newest line becomes stale, is superseded and goes, and a helper's line goes over to the main chain in some runs and not in others |
| `flush` | accounting, order, three strikes; Flush implements Delivery | 2 lines, one line per chunk, a plain and two kinds of marked line, two backoff steps, one rate-limit retry, 4 half-second ticks: partial deliveries, strip-and-resend and three runs with a crash between fit |
| `flush_waits` | silence during Retry-After, the subagent pause, termination | ticks of half a second, a Retry-After beyond the maximum and none, 5 ticks for starts |
| `pairing` | which credential may go, what stays usable and unique, and that status and doctor say so | two flush processes, 2 identities, one unpair, one event: pair, re-pair and unpair-then-pair with a run in flight across each, and any reading or deletion failing; two strikes for the code's three (run `flush` has three, and the proofs any number), so that a run's last strike still adds to another run's in state.json; every report in every state, with a relay that is silent, degraded, or off by more than the limit, and a config.json or secret that cannot be read |
| `watch` | no mixed list, one project_seen per window, the phone is heard | one project and New, one hook process over and over, one flush run, one `projects` command, 2 relay versions: each of the three writers can overwrite with a copy from before the others' saves |
| `session` | does the scratch file agree with what was spooled | two hooks at a time and three in all, one chain of its own and two subagents sharing Overflow, windows of one and two ticks, a hook's stamp one tick old: three hooks set, evict or reset, and resolve a marker, or lose an update; event kinds that Classify treats alike are represented by one |
| `settings` | other tools' hooks survive, pair registers, unpair removes, doctor tells the truth | two commands of any kind, two edits by others, two registered events (one optional) and one other, a Homebrew binary known by its link, one known by its path in the Cellar and one whose path needs quoting, each installed after the other; four first files with shared groups, repeated keys, a non-array event, elements that are no groups, an env prefix and commands that only look like the bridge's |
| `poll` | what pair says, what it misses, that it ends | a code of six ticks, polls of one, grace three, a relay two behind, clocks two off either way, a Retry-After within and beyond the deadline, one suspension |
| `hookflush` | one run sends, what is left behind | three hooks with a run each: one peeks while another's run starts and a third's is past its Drain |
| `credentials` | where a secret can be | three identities: pair, pair again and again over what an earlier child does late, with unpair and a struck run between |

The Flush, Spool, Backlog, Session, Settings, HookFlush and PairPoll runs switch deadlock checking off, because the
bounds on lines, hooks, edits and time, or the end of a command, let the system stop; Pairing, Credentials and WatchList
keep it on.

### Fairness

`flush_waits` assumes `WF(Step)` and `WF(Tick)`: a process that can run does, and the clock advances. No answer is
assumed: the request times out (`NoAnswer`), which is the HTTP client's own deadline. `watch` assumes that scheduled
hook and flush steps happen, that a project's main chain keeps firing hooks (so that events let through by Decide are
not a subagent's for ever), that six hours pass, and strong fairness for an answered run that lives to save: a relay
asked again and again answers sometimes, and not every such run is killed. Without the last the phone's change need
not arrive, and nothing in the code claims it would. `poll` assumes that pair runs, time passes and a suspended machine
is woken; every request has its own time-out, so no answer of the relay is assumed. `hookflush` assumes that a process
that has begun goes on (or dies, which is an action of its own and is not assumed away), and no further hook. All other
runs check safety only and assume no fairness.

### Findings

- `spool_loss` (`internal/spool/spool.go:222`). An eviction by Append between Drain and commit moves the lines up
  but the file does not get shorter, so commit takes too few lines for new ones. Each such eviction can cost one line
  that nobody answered. `LossBounded` shows that it is never more than one each, and `NoSilentLoss`, proved for all
  instances, that nothing is lost without such an eviction.

Met while modelling, and visible in the modules, but with no run of their own:

- `flush.go:335`: the third 401 deletes whatever secret is stored. A run that loaded the old identity can get it after
  `pair` stored the new secret the second time; pair.go:210-211 says that the second Set makes a successful pair always
  end with a usable credential. `PairEndsUsable` of Pairing states it, TLC refutes it, and `PairedUsable`, a
  part of `UsableAndReported`, is what remains true.
- `flush.go:334`: UnpairedReason is cleared only by `unpair`, so `status` (status.go:65) reports an unpaired machine after
  a successful `pair` (`ReasonIsTrue` of Pairing).
- `unpair.go:188`: a run in flight across `unpair` writes the spool and state.json back (`UnpairLeavesNothing` of
  Pairing); README.md:152-154 of the repository says that unpair undoes everything.
- `hooks.go:77`: between Plan and Apply the person reads the diff, and Apply renames over what others have written
  meanwhile; `Plan.Before` is not compared again. `ForeignKept` says what the loss is: exactly the edits since the plan.
- `settings.go:108`: the path to register is the one the binary was invoked by only if that is a symlink into Homebrew's
  Cellar. On Linux, for which the formula is built as well (.goreleaser.yaml:28-30), os.Executable gives the resolved path,
  and anywhere a binary can be started from the Cellar: then the versioned path is registered, and the next upgrade
  deletes it. settings.go:84-95 says that a Homebrew install always runs through a symlink and that the hook keeps
  working. `OutlivesUpgrade` of Settings states it, and TLC refutes it in one step of run `settings`' instance. What
  remains true is that doctor sees the broken hook (`DoctorTruth`) and that what it advises mends it (`RemedyWorks`).
- `splice.go:55`: a settings.json of blanks is read by doctor as one without hooks, which advises `pair`, which refuses
  the file.
- `environment.go:36-40` speaks of "one of these two exact forms"; `Owner` also takes commands with an env prefix, a
  bare name or double quotes for the bridge's, and check 1 looks through those (`WrittenForm` of Doctor). A path quoted
  with backslashes it cuts at the blank, and would FAIL over a hook that runs.
- `pair.go:126-134`: a secret or config.json that cannot be read is like none, and `pair` then creates an identity without
  revoking the one the relay holds (`blind` of Pairing). `status` says "not paired" of a config.json that cannot be read,
  where doctor's checks 4 to 8 pass (`broken` of Reports).
- `keychain_darwin.go:299-303`: only the child's own time-out makes Set say that it does not know. A child ended by the
  interrupt that `pair` itself survives (pair.go:63-68) is reported as "storing failed" and may have stored.
- `coalesce.go:9-14` says that a later event of its chain supersedes a dropped line. That event can be a helper's stop,
  which a later run drops too if the relay has rejected the field in between (`flush_subagent.go:60-89`): what Backlog
  shows holds within one wait, where no pause begins.
- `pair_hooks_only.go:72` says that all hooks are registered; if others changed the file between its two readings, that is
  so of those it had found missing (`Promised` of Settings).
- `hook.go:72-104` says that an event just appended reaches the relay; one appended after a run's Drain waits for the next
  hook (`OnlyLateLeft`).
- `poll.go:123`: the grace for a 401 is counted from the code's creation, so a phone that redeems the code when it is
  nearly over is not covered against the relay's lag (`HonestEnd`). `poll.go:140`: the last wait ends at the deadline
  and no request follows, so a redemption in the last round is called expired (`LateRedemption`).
- `secretservice_linux.go:79`: a child that was killed and may still store is reported as "storing failed"; the Keychain's
  Set makes the difference. `keychain_darwin.go:209` says "storing failed" of a secret that was written and whose
  read-back was refused. A late write of an abandoned `pair` overwrites a later one's secret.
- `select.go:46`: a process without secret-tool uses the file. A re-pair then cannot revoke the old identity, and a flush
  run with the other store may collect 401s for a machine that is paired. `unpair` clears the file as well
  (unpair.go:200) but, without secret-tool, not the platform's store.
- `unpair.go:204` removes `flush.lock` under its holder, so two runs can hold a lock each; `flush.go:133` says one
  flusher per user. `OneFlusherPerLock` is what remains true.
- A run whose earlier 400 dropped an event reports `ok` if its last answer is a 2xx (`flush.go:283`), where
  `internal/state/state.go:41` says every event was accepted.
- `projects.go:249-253`: turning keep-awake on or off loads and saves all of config.json, so beside `pair` or `unpair`
  it can write an old bridge_id back (not in a module).
- With two tool calls at once in one chain, the first PostToolUse resolves the chain's marker, whichever call it
  belongs to (`classify.go:409`; `classify.go:304` says only the matching PostToolUse consults it).
- RFC 3339 cuts the fraction of a second from RateLimitedUntil (`flush.go:344`), so the next run may start up to a
  second early (`flush.go:227` says no run contacts the relay). `QuietKept` allows that second.

### Properties with conditions

`NoSilentLoss` and the queue hold while no eviction overlaps a flush; `ArrivalOrder`, `SettledIsFinal` and
`LossBounded` unless a hook died inside an overlapping eviction. `CredentialNeedsThreeStrikes` excludes the crash that
loses a reset of the counter. `OneIdentity` excludes a revoke that was not answered, a command that died with a code
out and one that could not read the identity it was to revoke; `UsableAndReported` a last command that was cut short or
that said what it could not delete, in its first part a run that deleted another identity's secret, and where status and
doctor differ a config.json that cannot be read. `CountersTrue` excludes a hook that died between saving and spooling and a sweep that removed a file
just written, and the other properties of Session the former. `SeenOncePerWindow` excludes a stamp overwritten by an older copy or by a list without the project.
`RegistersAll` expects, when the file changed between the two readings of `--hooks-only`, only the events it had found
missing, `RemedyWorks` excludes a file of blanks,
`HonestEnd` and `LateRedemption` a machine that was suspended and the cases named above, `OnlyLateLeft` and `TakenUp` a
process that died, could not be started or had no credential; `ShownIsStored` a deletion or a late write since the last
Set, `PlainFailureLeavesNothing` the Secret Service, a child ended by somebody else's signal, a refused read-back and pair's
second Set, `UnpairClears` a failed
removal, a late write and a process without the platform's store.
Each condition is a history variable or a field of the state, and the code has no means against the excluded case.

## Proofs

`SpoolProofs` proves, for every set of hooks, every `Cap > 0`, every set of malformed lines and every `MaxLine`
(assumptions `SpoolAssumption` and `ProcAssumption` of Spool):

- `SpoolTypeOK`, `SpoolDepthBounded`, `SpoolArrivalOrder`, `SpoolSettledIsFinal`, `SpoolNoSilentLoss`, each of the form
  `Spec => []P`; all but the first are invariants of the run `spool`.

None is inductive alone, because `Commit` finds the new lines by position while hooks change what is at that position.
`IInv` adds `Numbered` (every line in the file has been numbered) and `InFlight`, which relates the flusher's memory to
the file while a batch is out: the held lines are older than `mark`; unless a hook died evicting, the file has not
become shorter than `rawCount` and everything past it is new; and unless a hook evicted, the first `rawCount` positions
hold exactly lines still held or answered. One lemma per action (`AppendEvictsStep`, `CommitStep`, ...) shows that it
preserves `IInv`; lemmas on `Newest`, `Overflow`, `AppendedSince` and `Picked` say what the sequence operators return.

`SpoolLossBounded` needs more. Lines are lost at a commit, long after the evictions that shifted the
positions, so `LossInv` counts the doomed lines too: those among the first `rawCount` positions that are neither held
nor answered. An eviction dooms at most one, a commit only turns doomed lines into lost ones. `SpoolImplementsQueue`
is the refinement: with `Content`, what the write-back loop will leave, as the queue, appends are
`Put`, a death is `LoseTail` and a commit is `Take`. The last needs `BatchInv` (what the flusher holds is in the file)
and a lemma on sequences: of two increasing ones, the one with fewer elements is picked from the other (`PickedFrom`).

`HookStepsProofs` proves of HookFlush, for every set of hooks and no assumption, `HookFlushOneRunSends` and `HookFlushOnlyLateLeft`.
The first follows from `LockInv`: a process is at a step that holds the lock if and only if the lock names it. The
second is not inductive, since it speaks of quiet states only. `ComingInv` is the argument: until something has failed,
every event not yet drained is late, or its hook has yet to peek, or somebody is on the way to a Drain; and while a
run is past its Drain the last is not needed, so its end leaves only late events. `OrderInv` adds that runs drain
prefixes of the arrivals.

`PairStepsProofs` proves of Credentials, for every number of identities, `CredentialsShownIsStored`,
`CredentialsPlainFailure` and `CredentialsUnpairClears`. `PlainFailureLeavesNothing` is about what is nowhere, which every step of any process could
disturb; `StoreIInv` therefore says where secrets can be: only created identities' secrets are held (`HeldIsCreated`), pair's
first Set writes a secret that is nowhere yet, and between its write and its read-back nothing but the platform's store
can hold it (`FirstSet`), which on macOS is the only store (`KeychainOnly`). `HalfCleared` is the state between unpair's
two removals.

`PairingProofs` proves, for any number of runs, identities and unpairings, `PairingNeverKillsLive`,
`PairingUsableAndReported` and `PairingOneIdentity` (assumption `PairingAssumption`). A run reads config.json and the
secret one after the other, and pair or unpair may replace both in between, so `IInv` says what a run can carry: an
identity that has been active (`OnlyKnown`), never the one being created (`NewIdentity`), and with the configured
identity its own secret while that is stored (`RunCarries`). Then a run that deletes the credential cannot delete that
of an active configured identity unless it carries an older one, which `Usable` and `InSight` need in every phase of a
command. `ReportsAgree` adds status and doctor for any answer of the relay.

`FlushProofs` proves `FlushAccounted`, `FlushThreeStrikes`, `FlushQuietKept`, `FlushNoOvertaking`,
`FlushNoMarkWhilePaused` and `FlushImplementsDelivery` for every budget, backoff schedule, chunk size and bound on waits that `FlushAssumption`
admits, in four invariants, each resting on the one before.

- `IInv`: types, the 401s and the waits. `Counter` is the 401 counter as the answer to the request that is out will
  find it, since a chunk taken before it has reset it; `CountTrue` keeps it at most the relay's strikes, through
  state.json and crashes, and needs that chunks are not empty. `QuietKnown` says who knows until when the relay asked
  for silence: the clock, a sleeping run's timer, a run's memory, or state.json.
- `AInv` adds `Drained`: each line drained is answered for or in hand, and the delivered prefix of what is in hand is
  answered for. removeResolved removes nothing else (`RestKeeps`).
- `OInv` adds `Ordered`, the spool and what is in hand are in the order of arrival and what is in hand was drained, and
  `PauseKnown`, who knows of a pause and that a run inside it has nothing marked in hand. `ChunkCovers` is the argument
  for `NoOvertaking`: a line older than one in the chunk that is out stands before it in the spool (or has been answered
  for), so it was drained too, and is in hand (or answered for), before it, and not in the delivered prefix: in the chunk.
- `DInv` is for the refinement and adds that a run that is about to commit has nothing in hand that was already
  delivered, so its commit writes back what is pending and nothing else. With it each step is a step of Delivery: a
  chunk is the oldest of what is pending (`ChunkOldest`, which needs that what is in hand is older than anything added
  since Drain), what it leaves is the rest (`ChunkLeaves`), a strip changes what a line bears and not which lines there
  are, a death makes the disk what is pending again, and waits and state.json are stuttering steps.

They rest on two lemmas of `SelectionProofs` about `At`: the ranks of the positions picked number them from 1 on
(`Ranks`), so `At` gives all of them, no others, in their order (`AtLines`).

The last part of the module is about Backlog, which it extends too, because the lemmas are the same:
`BacklogNewestKept` and `BacklogRunsCompose`, for any sessions, helpers, window, pause and number of runs. The map the code
builds names the newest line of each chain (`LastIsNewest`, which needs that a set of positions has a greatest), so
which lines coalescing keeps depends on which there are and not on where they are (`KeptLines`, `Live`). `BInv` says
that whatever would be kept of all lines ever spooled is still in the backlog; with that both coalescings of
`RunsCompose` keep the same lines, and lines in order of arrival are determined by which they are (`SameLines`: a
line's place is its number's rank).

Of PairPoll it proves `PairPollHonestEnd`, `PairPollLateRedemption` and `PairPollTypeOK` from `PollAssumption`: `OnTime` bounds how far
a round has got since its request, `Answered` says what an answer meant at the moment the relay gave it.

`HookStepsProofs` proves of WatchList `WatchListWholeList`, `WatchListSeenOnce` and `WatchListTypeOK` for any projects,
hooks and sequence of the relay's lists (assumption `WatchAssumption`). Any of three writers may overwrite the file with its copy, so `Copies` says of the
file and of every copy alike that it is `Faithful` to the relay version it bears: `WholeList` carried by whatever may
yet be saved. `Stamped` ties who was reported in the window to the stamps in the file.

`SessionProofs` proves `SessionTypes` (with the cap on chains), `SessionCountersTrue`, `SessionFinishedWasStarted`,
`SessionOwnMarkers` and `SessionSuppressedWasHeard` for any hooks and helpers, every cap, window and lag (assumptions
`SessionAssumption` and `FiresAssumption`: the names used for the main chain, Overflow and no hook are no helper's or
hook's, and Claude Code fires events that Classify knows). None is inductive, because a hook decides on an event while it
holds the lock, saves the scratch file, and spools later. `Agrees` relates a state to what is spooled (a running
verification is open, a chain remembers its last event, the counters are right); the invariant has it of the file while
nobody holds the lock, of the holder's memory until it saves, and then of the file with the pending event counted in
(`HeardWith`, `OpenWith`, `ToldWith`). Dying hooks and the sweep end it, which is what the conditions of the properties
are. `Classified` and the lemmas before it say once for all events what `Classify` may change (`Follows`): one chain,
one counter, at most one marker, set by the hook's own helper.

`SettingsProofs` proves, for any commands, binaries, registered events, foreign commands and first files:

- `SettingsForeignKept`, `SettingsPairUndone` and `SettingsTypeOK` as invariants, `SettingsRegistersAll` and
  `SettingsUnpairRemovesAll` as properties of every rename; `PairUndone`, like doctor's two, speaks of moments with no
  command under way, which loses nothing: abandoning every command leaves the same file and binary;
- `SettingsDoctorTruth` and `SettingsRemedyWorks`, about doctor's verdicts on every file that is reached.

The merges are selections (`At`) and pointwise maps, so most of the module is about these: selecting from a selection,
selecting what a map leaves unchanged, and a merge of one half of an array followed by one of the other (`AtAt`,
`AtSame`, `AtRanks` of SelectionProofs; from them, that filtering the bridge's commands out of a group, dropping
emptied groups and appending a fresh one leave the selection of foreign commands alone). `PlansAfterPair` carries that
through Decoded, Install, Uninstall and the splice. `IInv` then says what a command in progress carries, because the
plan is made in one step and renamed in a later one: whatever it is about to write has the foreign hooks of the file
it read (`copied`), has each event registered once (`Registers`) or none of the bridge's (`Clears`), and while
`--hooks-only` has only looked, the events it will add are those missing from the file it read. `DoctorTruth` needs no
invariant beyond types: it says that what checks 1 and 2 leave as possible is a working bridge. `RemedyWorks` needs
that the file is one the bridge can read back (`Whole`): then what `pair` would write is readable again, lists the
bridge's own command once per event and no other that it recognises (`AllRegistered`, `InstalledIsListed`), and that
command's path leads to the same file as the one on PATH. Its third part is that comparing versions part by part is
transitive (`NotBelowIsTransitive`). What the text scanners compute enters through five assumptions, and TLC evaluates
them in the run on the model's commands: no foreign command is recognised as the bridge's (`ForeignAssumption`); every
known command is foreign, recognised, or written by a binary of another name (`RecognisedAssumption`); the bridge
recognises its own command, and no other path's command equals it (`OwnAssumption`); the
path that os.Executable gives is the binary's own or that of a link to it (`BinariesAssumption`); check 1 finds in a command that the bridge wrote the
path it was written for, and reads no command with an absolute path otherwise than a shell does (`ReadingAssumption`;
a command quoted by hand in part, `/a\ b/agentpulse hook`, would be one, and is in no file of the model).
`VersionsAssumption` says that the compiled-in baseline has every event, as compat_test.go:142 tests.
`EventsAssumption`, `FilesAssumption` and `MatchersAssumption` are types.

Every inductive invariant was checked by TLC on the run's instance before it was proved.

Every safety property of a passing run is the statement of a theorem. Only model-checked is liveness: PairPoll's
`PollEnds`, WatchList's `RelayReached`, HookFlush's `TakenUp` and Flush's `RunEnds`. Liveness under fairness and
ENABLED are beyond the prover, as is induction over data with the library's induction theorems (they take operators as
parameters), so what a fold computes for every input stays with TLC. No module declares a RECURSIVE operator.

## Not modelled

Text: runner detection, command normalisation, result parsing, the scrubber, the diff shown before settings.json is
written and the bytes of its layout, what doctor and status print beside verdicts and exit statuses. Chunk sizes
in bytes (a chunk is a number of lines). In Pairing a batch is one request and an event a count; in WatchList display
names and the settings that share the file are left out. In Settings a rename that replaces a symbolic link and a byte
order mark are left out; in Credentials the refusal of a secret the Keychain cannot carry, which the relay never issues.
Logging and its rotation, because nothing reads the log, and keep-awake, whose child process is outside the files
modelled here. The recorder and development tools are not part of the product.

## Plan

1. Session, extended: the distinct-file counters, the path without the lock, and the composition with WatchList (an
   event that is classified and then dropped).
2. Chunking by size, log rotation by several processes.
