------------------------------ MODULE Session ------------------------------
(***************************************************************************)
(* cmd/agentpulse/hook_classify.go, internal/classify and internal/scratch *)
(* for one session: each hook process stamps its time, takes the session's *)
(* lock, loads the scratch file, classifies, saves it (and deletes it at   *)
(* the session's end), spools at most one event and lets the lock go.      *)
(* "agentpulse flush" sweeps old scratch files without that lock.          *)
(*                                                                         *)
(* A time is kept as its age in ticks, at most Old.  The project is        *)
(* watched (module WatchList) and the spool below its cap (module Spool).  *)
(***************************************************************************)
EXTENDS Naturals, FiniteSets

CONSTANTS
    Hook,       \* hook processes
    Main,       \* the main chain
    Helper,     \* subagents
    Overflow,   \* the chain of the subagents past the cap
    Nobody,     \* no hook
    Fires,      \* the hooks Claude Code fires: event names, PreToolUse by tool
    MaxChains,  \* maxSubagentChains
    Window,     \* suppressionWindow
    Dedup,      \* permissionDedupWindow
    IdleAge,    \* idleChainAge
    Lag,        \* bound: ticks from a hook's time stamp to its end
    MaxHooks    \* bound: hooks ever fired

ASSUME SessionAssumption ==
    /\ Main \notin Helper /\ Overflow \notin Helper \cup {Main} /\ Nobody \notin Hook
    /\ MaxChains \in Nat /\ Window \in Nat /\ Dedup \in Nat /\ IdleAge \in Nat /\ Lag \in Nat

Agent == Helper \cup {Main}
Key == Agent \cup {Overflow}
Old == IdleAge + Lag
Age == 0..Old

VARIABLES
    scratch,  \* the session's scratch file, NoFile when there is none
    lock,     \* the hook that holds the session's lock, or Nobody
    hook,     \* the hook processes
    aged,     \* the scratch file has not been written for 24 hours
    sweep,    \* whether a flush run has seen it so and is about to remove it
    fired,    \* hooks fired so far
    (* history *)
    heard,    \* per chain, the category and age of its last spooled event
    open,     \* per chain, whether a verification_started is spooled and not finished
    told,     \* verifications and commits spooled since the scratch file began,
              \* or since one that a sweep wrongly removed did
    cut,      \* a hook died between saving and spooling
    swept     \* a scratch file was removed that had been written since

vars == <<scratch, lock, hook, aged, sweep, fired, heard, open, told,
          cut, swept>>
hist == <<heard, open, told, cut, swept>>

NoFile == [none |-> TRUE]
NoMark == [kind |-> "none", by |-> Main]
NewChain == [cat |-> "none", at |-> Old, mark |-> NoMark]

(* NewSessionState.                                                        *)
NewState == [runs |-> 0, commits |-> 0, chains |-> [k \in {Main} |-> NewChain],
             perm |-> Old, label |-> TRUE]

NoEvent == [type |-> "none", key |-> Main, id |-> Main, cat |-> "none"]
IdleHook == [pc |-> "idle", what |-> "none", agent |-> Main, on |-> TRUE,
             age |-> 0, mem |-> NewState, event |-> NoEvent]

Init ==
    /\ scratch = NoFile /\ lock = Nobody /\ aged = FALSE /\ sweep = FALSE
    /\ hook = [h \in Hook |-> IdleHook] /\ fired = 0
    /\ heard = [k \in Key |-> [cat |-> "none", age |-> Old]]
    /\ open = [k \in Agent |-> FALSE] /\ told = [runs |-> 0, commits |-> 0]
    /\ cut = FALSE /\ swept = FALSE

-----------------------------------------------------------------------------
(* Classify.  It works on a scratch s with a hook x whose own time stamp   *)
(* has age x.age; at = x.age therefore means "at = now".                   *)

Since(age, x) == IF age >= x.age THEN age - x.age ELSE 0

(* subagentFor: which chain a hook belongs to.                             *)
ChainID(x) == IF x.on THEN x.agent ELSE Main

(* SessionState.chain: a chain of its own while there is room, idle chains *)
(* go to make room, and past the cap all share Overflow.                   *)
Subagents(s) == DOMAIN s.chains \cap Helper
IdleChains(s, x) == {k \in Subagents(s) : Since(s.chains[k].at, x) >= IdleAge}
Cleared(s, x) ==
    IF Cardinality(Subagents(s)) < MaxChains THEN s
    ELSE [s EXCEPT !.chains =
            [k \in DOMAIN @ \ IdleChains(s, x) |-> @[k]]]
WithKey(s, k) ==
    IF k \in DOMAIN s.chains THEN s
    ELSE [s EXCEPT !.chains =
            [j \in DOMAIN @ \cup {k} |-> IF j = k THEN NewChain ELSE @[j]]]
Fits(s, id) == id \in DOMAIN s.chains \/ Cardinality(Subagents(s)) < MaxChains
Room(s, x) == IF ChainID(x) \in DOMAIN s.chains THEN s ELSE Cleared(s, x)
KeyOf(s, x) == IF Fits(Room(s, x), ChainID(x)) THEN ChainID(x) ELSE Overflow
Chained(s, x) == WithKey(Room(s, x), KeyOf(s, x))

(* buildEvent, and no event.                                               *)
Emit(s, x, k, type, cat) ==
    [state |-> [s EXCEPT !.chains[k].at = x.age],
     event |-> [type |-> type, key |-> k, id |-> ChainID(x), cat |-> cat]]
Quiet(s) == [state |-> s, event |-> NoEvent]

(* activityEvent.                                                          *)
Bug_Activity(s, x, k, cat) ==
    IF s.chains[k].cat = cat THEN Quiet(s)
    ELSE [Emit(s, x, k, "activity", cat) EXCEPT !.state.chains[k].cat = cat]
Activity(s, x, k, cat) ==
    IF s.chains[k].cat = cat /\ Since(s.chains[k].at, x) < Window
    THEN Quiet(s)
    ELSE [Emit(s, x, k, "activity", cat) EXCEPT !.state.chains[k].cat = cat]

(* Overflow is shared, so a marker there could be another subagent's.      *)
Bug_Tracks(k) == TRUE
Tracks(k) == k # Overflow

Marked(s, x, k, kind) ==
    IF Tracks(k) THEN [s EXCEPT !.chains[k].mark = [kind |-> kind, by |-> x.agent]]
    ELSE s

(* classifyPreToolUse: every marker of the chain goes, then one may come.  *)
PreToolUse(s, x, k, tool) ==
    LET none == [s EXCEPT !.chains[k].mark = NoMark] IN
    CASE tool \in {"Read", "Edit", "Other"} -> Activity(none, x, k, tool)
      [] tool = "Ask"  -> Emit(Marked(none, x, k, "ask"), x, k, "needs_input", "none")
      [] tool = "Test" ->
            IF Tracks(k)
            THEN Emit(Marked(none, x, k, "test"), x, k, "verification_started", "none")
            ELSE Activity(none, x, k, "Other")
      [] OTHER         -> Activity(Marked(none, x, k, tool), x, k, "Other")

(* classifyPostToolUse, whatever the tool: it resolves the chain's marker. *)
(* A pull request is an event only if its number is in the output.         *)
Bug_Consumed(s, k) == s
Consumed(s, k) == [s EXCEPT !.chains[k].mark = NoMark]
PostToolUse(s, x, k) ==
    LET kind == s.chains[k].mark.kind
        free == Consumed(s, k)
    IN  CASE ~Tracks(k) \/ kind = "none" -> {Quiet(s)}
          [] kind = "test" ->
                {Emit([free EXCEPT !.runs = @ + 1], x, k, "verification_finished", "none")}
          [] kind = "Commit" ->
                {Emit([free EXCEPT !.commits = @ + 1], x, k, "commit", "none")}
          [] kind = "PR"  -> {Emit(free, x, k, "pr_created", "none"), Quiet(free)}
          [] kind = "ask" -> {Emit(free, x, k, "input_resolved", "none")}

(* classifyMainChainOnly.                                                  *)
Prompted(s) == [s EXCEPT !.label = FALSE]
MainOnly(s, x, what) ==
    CASE what = "UserPromptSubmit" ->
            {Emit(Prompted(s), x, Main, what, IF labels /\ s.label THEN "label" ELSE "none") :
             labels \in BOOLEAN}
      [] what = "Stop" -> {Emit([s EXCEPT !.label = TRUE], x, Main, what, "none")}
      [] OTHER -> {Emit(s, x, Main, what, "none")}

(* classifyNotification: a permission prompt, unless it repeats a request. *)
Notification(s, x, k) ==
    IF Since(s.perm, x) <= Dedup THEN Quiet(s)
    ELSE Emit(s, x, k, "needs_input", "none")

ChainEvents == {"Read", "Edit", "Other", "Ask", "Test", "PR", "Commit",
                "PostToolUse", "PermissionRequest", "Notification"}
MainEvents == {"SessionStart", "UserPromptSubmit", "Stop", "SessionEnd"}
OtherEvents == {"StopFailure", "SubagentStart", "SubagentStop"}

ASSUME FiresAssumption == Fires \subseteq ChainEvents \cup MainEvents \cup OtherEvents

Classify(s, x) ==
    LET id == ChainID(x)
        k  == KeyOf(s, x)
        c  == Chained(s, x)
    IN  CASE x.what \in MainEvents ->
                IF id = Main THEN MainOnly(s, x, x.what) ELSE {Quiet(s)}
          [] x.what = "PostToolUse" -> PostToolUse(c, x, k)
          [] x.what = "PermissionRequest" ->
                {Emit([c EXCEPT !.perm = x.age], x, k, "needs_input", "none")}
          [] x.what = "Notification" -> {Notification(c, x, k)}
          [] x.what = "StopFailure" ->
                {IF x.agent = Main THEN Emit(s, x, Main, "paused", "none") ELSE Quiet(s)}
          [] x.what = "SubagentStart" ->
                {IF id = Main THEN Quiet(s) ELSE Emit(c, x, k, "subagent_start", "none")}
          [] x.what = "SubagentStop" ->
                {IF id = Main THEN Quiet(s)
                 ELSE [state |-> [s EXCEPT !.chains =
                                    [j \in DOMAIN @ \ {id} |-> @[j]]],
                       event |-> [NoEvent EXCEPT !.type = "subagent_stop",
                                                 !.key = id, !.id = id]]}
          [] OTHER -> {PreToolUse(c, x, k, x.what)}

-----------------------------------------------------------------------------
(* Claude Code fires a hook; it reads the clock and, inside a subagent,    *)
(* whether the fallback has switched subagent chains off.                  *)
HookStarts(h) ==
    /\ hook[h].pc = "idle" /\ fired < MaxHooks /\ fired' = fired + 1
    /\ \E what \in Fires, agent \in Agent, on \in BOOLEAN :
          /\ agent = Main => on
          /\ what \in MainEvents => agent = Main
          /\ what \in {"SubagentStart", "SubagentStop"} => agent # Main
          /\ hook' = [hook EXCEPT ![h] = [IdleHook EXCEPT
                        !.pc = "started", !.what = what, !.agent = agent, !.on = on]]
    /\ UNCHANGED <<scratch, lock, aged, sweep, hist>>

Bug_LockFree == TRUE
LockFree == lock = Nobody

(* lockfile.Lock, then scratch.Load.                                       *)
HookLoads(h) ==
    /\ hook[h].pc = "started" /\ LockFree
    /\ lock' = h
    /\ hook' = [hook EXCEPT ![h].pc = "loaded",
                            ![h].mem = IF scratch = NoFile THEN NewState ELSE scratch]
    /\ told' = IF scratch = NoFile /\ ~swept THEN [runs |-> 0, commits |-> 0] ELSE told
    /\ UNCHANGED <<scratch, aged, sweep, fired, heard, open, cut, swept>>

(* Classify, then scratch.Save, and Delete at the session's end.           *)
HookSaves(h) ==
    /\ hook[h].pc = "loaded"
    /\ \E r \in Classify(hook[h].mem, hook[h]) :
          /\ scratch' = IF hook[h].what = "SessionEnd" THEN NoFile ELSE r.state
          /\ hook' = [hook EXCEPT ![h].pc = "saved", ![h].event = r.event,
                                  ![h].mem = NewState]
    /\ aged' = FALSE
    /\ UNCHANGED <<lock, sweep, fired, hist>>

(* spool.Append, and the deferred unlock.                                  *)
HookSpools(h) ==
    /\ hook[h].pc = "saved"
    /\ LET e == hook[h].event IN
          IF e.type = "none" THEN UNCHANGED <<heard, open, told>>
          ELSE
          /\ heard' = [heard EXCEPT ![e.key] =
                          [cat |-> IF e.type = "activity" THEN e.cat ELSE @.cat,
                           age |-> hook[h].age]]
          /\ open' = [open EXCEPT ![e.id] =
                         CASE e.type = "verification_started" -> TRUE
                           [] e.type = "verification_finished" -> FALSE
                           [] OTHER -> @]
          /\ told' = CASE e.type = "verification_finished" -> [told EXCEPT !.runs = @ + 1]
                        [] e.type = "commit" -> [told EXCEPT !.commits = @ + 1]
                        [] OTHER -> told
    /\ hook' = [hook EXCEPT ![h] = IdleHook]
    /\ lock' = Nobody
    /\ UNCHANGED <<scratch, aged, sweep, fired, cut, swept>>

(* A hook is killed (or spool.Append fails) before it has spooled; the     *)
(* kernel drops its lock.  Earlier it has changed nothing.                 *)
HookDies(h) ==
    /\ hook[h].pc = "saved"
    /\ cut' = (cut \/ hook[h].event.type # "none")
    /\ lock' = Nobody
    /\ hook' = [hook EXCEPT ![h] = IdleHook]
    /\ UNCHANGED <<scratch, aged, sweep, fired, heard, open, told, swept>>

-----------------------------------------------------------------------------
(* scratch.Sweep by a flush run: it looks at the time, then removes.       *)
SweepSees ==
    /\ scratch # NoFile /\ aged /\ ~sweep
    /\ sweep' = TRUE
    /\ UNCHANGED <<scratch, lock, hook, aged, fired, hist>>

SweepRemoves ==
    /\ sweep /\ sweep' = FALSE
    /\ scratch' = NoFile
    /\ swept' = (swept \/ (scratch # NoFile /\ ~aged))
    /\ UNCHANGED <<lock, hook, aged, fired, heard, open, told, cut>>

Older(a) == IF a < Old THEN a + 1 ELSE Old
OlderChain(c) == [c EXCEPT !.at = Older(@)]
OlderState(s) ==
    IF s = NoFile THEN s
    ELSE [s EXCEPT !.perm = Older(@), !.chains = [k \in DOMAIN @ |-> OlderChain(@[k])]]

Tick ==
    /\ \A h \in Hook : hook[h].pc # "idle" => hook[h].age < Lag
    /\ scratch' = OlderState(scratch)
    /\ hook' = [h \in Hook |->
                   IF hook[h].pc = "idle" THEN hook[h]
                   ELSE [hook[h] EXCEPT !.age = @ + 1, !.mem = OlderState(@)]]
    /\ heard' = [k \in Key |-> [heard[k] EXCEPT !.age = Older(@)]]
    /\ <<scratch', hook', heard'>> # <<scratch, hook, heard>>
    /\ UNCHANGED <<lock, aged, sweep, fired, open, told, cut, swept>>

(* 24 hours without a hook, so that every other age is past all its uses.  *)
DayPasses ==
    /\ scratch # NoFile /\ ~aged /\ \A h \in Hook : hook[h].pc = "idle"
    /\ scratch = OlderState(scratch)
    /\ aged' = TRUE
    /\ UNCHANGED <<scratch, lock, hook, sweep, fired, hist>>

Next ==
    \/ \E h \in Hook : HookStarts(h) \/ HookLoads(h) \/ HookSaves(h)
                        \/ HookSpools(h) \/ HookDies(h)
    \/ SweepSees \/ SweepRemoves \/ DayPasses
    \/ Tick

Spec == Init /\ [][Next]_vars

-----------------------------------------------------------------------------
(* Types; the map of subagents stays within its cap.                       *)
StateOK(s) ==
    /\ s.runs \in Nat /\ s.commits \in Nat
    /\ s.perm \in Age /\ s.label \in BOOLEAN
    /\ Main \in DOMAIN s.chains /\ DOMAIN s.chains \subseteq Key
    /\ Cardinality(Subagents(s)) <= MaxChains
    /\ \A k \in DOMAIN s.chains : s.chains[k].at \in Age

TypeOK ==
    /\ scratch = NoFile \/ StateOK(scratch)
    /\ lock \in Hook \cup {Nobody}
    /\ \A h \in Hook : StateOK(hook[h].mem) /\ hook[h].age \in 0..Lag

Busy == \E h \in Hook : hook[h].pc \in {"loaded", "saved"}

(* The counters every later event will carry are the events there were:    *)
(* two hooks at once lose no verification or commit, as long as no hook    *)
(* dies before it spools and no sweep removes a file just written.         *)
CountersTrue ==
    scratch # NoFile /\ ~Busy /\ ~cut /\ ~swept =>
        scratch.runs = told.runs /\ scratch.commits = told.commits

Spools(h, type) ==
    /\ hook[h].pc = "saved" /\ hook'[h].pc = "idle" /\ hook[h].event.type = type
    /\ cut' = cut /\ heard' # heard

(* A verification_finished always ends a verification_started of the same  *)
(* chain that nothing has ended yet, unless a hook died before it spooled. *)
FinishedWasStarted ==
    [][\A h \in Hook : Spools(h, "verification_finished") /\ ~cut
          => open[hook[h].event.id]]_vars

(* ADR-005: one subagent's marker is never resolved by another's tool      *)
(* call, also past the cap.                                                *)
OwnMarkers ==
    [][\A h \in Hook :
          /\ hook[h].pc = "loaded" /\ hook'[h].pc = "saved" /\ hook[h].on
          /\ hook'[h].event.type \in {"verification_finished", "commit", "input_resolved"}
          /\ hook'[h].event.key # Main
          => hook[h].mem.chains[hook'[h].event.key].mark.by = hook[h].agent]_vars

(* SPEC 7.2's heartbeat: an activity that is not spooled repeats one of    *)
(* its chain that is, with an event of that chain within the window,       *)
(* unless a hook died before it spooled.                                   *)
SuppressedWasHeard ==
    [][\A h \in Hook :
          LET x == hook[h]
              k == KeyOf(x.mem, x)
          IN  /\ x.pc = "loaded" /\ hook'[h].pc = "saved"
              /\ x.what \in {"Read", "Edit"} /\ hook'[h].event.type = "none" /\ ~cut
              => heard[k].cat = x.what /\ Since(heard[k].age, x) < Window]_vars
=============================================================================
