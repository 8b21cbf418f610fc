----------------------------- MODULE WatchList -----------------------------
(***************************************************************************)
(* internal/watch and its three writers: every hook decides with           *)
(* watchlist.json what to spool, every flush run merges the relay's newer  *)
(* list into it, and "agentpulse projects" edits it.  Each loads the whole *)
(* file and later saves the whole file, with no lock between them.         *)
(*                                                                         *)
(* A list says which projects are known and which are on; the key New      *)
(* stands for WatchNewProjects.  Time is only whether a project was seen   *)
(* within the last ProjectSeenThrottle.                                    *)
(***************************************************************************)
EXTENDS Naturals, Sequences

CONSTANTS
    Project,    \* projects (their key_hash)
    New,        \* the setting for projects not yet known
    Session,    \* sessions, each with one hook process at a time
    MaxVersion, \* bound: changes the relay's list goes through
    MaxCmd      \* bound: runs of the projects command

ASSUME WatchAssumption == New \notin Project /\ MaxCmd \in Nat

Key == Project \cup {New}

VARIABLES
    file,   \* watchlist.json
    fresh,  \* whether the spool holds lines no flush run has drained
    hooks,  \* the hooks
    flush,  \* the flush run
    cmd,    \* the projects command
    cmds,   \* runs of the projects command so far
    relay,  \* the relay's list in all its versions
    (* history *)
    told    \* per project: the project_seen of its current window

watchVars == <<file, fresh, hooks, flush, cmd, cmds, relay, told>>

(* No file: nothing known, and new projects are watched.  edited is a      *)
(* history field: the keys edited here and never taken by the relay.       *)
NoList == [v |-> 0, known |-> {}, on |-> {New}, seen |-> {}, edited |-> {}]

IdleHook == [pc |-> "idle", list |-> NoList, p |-> New]
IdleFlush == [pc |-> "idle", list |-> NoList, done |-> FALSE]
IdleCmd == [pc |-> "idle", list |-> NoList, key |-> New, on |-> FALSE, answer |-> 0]

WatchInit ==
    /\ file = NoList /\ fresh = FALSE
    /\ hooks = [h \in Session |-> IdleHook] /\ flush = IdleFlush /\ cmd = IdleCmd
    /\ cmds = 0 /\ relay = <<>> /\ told = [p \in Project |-> "none"]

-----------------------------------------------------------------------------
(* Decide.                                                                 *)
Watched(l, p) == IF p \in l.known THEN p \in l.on ELSE New \in l.on

Bug_Decide(l, p) ==
    IF Watched(l, p) THEN "spool" ELSE IF p \in l.known THEN "drop" ELSE "seen"
Decide(l, p) ==
    IF Watched(l, p) THEN "spool"
    ELSE IF p \in l.known /\ p \in l.seen THEN "drop" ELSE "seen"

(* The entry Decide records for every decision but drop.                   *)
Bug_Noted(l, p) ==
    [l EXCEPT !.known = @ \cup {p},
              !.on = IF p \notin l.known /\ New \in @ THEN @ \cup {p} ELSE @]
Noted(l, p) ==
    [l EXCEPT !.known = @ \cup {p}, !.seen = @ \cup {p},
              !.on = IF p \notin l.known /\ New \in @ THEN @ \cup {p} ELSE @]

(* ApplyRelayList: whole, only if newer; stamps of listed projects stay.   *)
Bug_Applied(l, v) ==
    IF v > l.v
    THEN [l EXCEPT !.v = v, !.known = @ \cup relay[v].known,
                   !.on = @ \cup relay[v].on, !.edited = {}]
    ELSE l
Applied(l, v) ==
    IF v > l.v
    THEN [v |-> v, known |-> relay[v].known, on |-> relay[v].on,
          seen |-> l.seen \cap relay[v].known, edited |-> {}]
    ELSE l

(* Every save writes the whole file; what it had learned since the writer  *)
(* loaded it is gone.  A stamp that goes is noted as lost for its window.  *)
Save(l) == file' = l

Told(l, p, sends) ==
    IF p \in file.seen \ l.seen \/ told[p] = "lost" THEN "lost"
    ELSE IF ~sends THEN told[p] ELSE IF told[p] = "none" THEN "once" ELSE "twice"

Overwrite(l) ==
    /\ Save(l)
    /\ told' = [q \in Project |-> Told(l, q, FALSE)]

-----------------------------------------------------------------------------
(* A hook: load, decide and save, spool.                                   *)
HookLoads(h, p) ==
    /\ hooks[h].pc = "idle"
    /\ hooks' = [hooks EXCEPT ![h] = [pc |-> "loaded", list |-> file, p |-> p]]
    /\ UNCHANGED <<file, fresh, flush, cmd, cmds, relay, told>>

Decision(h) == Decide(hooks[h].list, hooks[h].p)

(* Nothing is saved or spooled for a dropped event, nor for a subagent's   *)
(* that would become a project_seen.                                       *)
HookDrops(h) ==
    /\ hooks[h].pc = "loaded" /\ Decision(h) \in {"drop", "seen"}
    /\ hooks' = [hooks EXCEPT ![h] = IdleHook]
    /\ UNCHANGED <<file, fresh, flush, cmd, cmds, relay, told>>

HookSaves(h) ==
    /\ hooks[h].pc = "loaded" /\ Decision(h) # "drop"
    /\ LET l == hooks[h].list
           p == hooks[h].p IN
          /\ Save(Noted(l, p))
          /\ told' = [q \in Project |-> Told(l, q, q = p /\ Decision(h) = "seen")]
    /\ hooks' = [hooks EXCEPT ![h] = [IdleHook EXCEPT !.pc = "spooling"]]
    /\ UNCHANGED <<fresh, flush, cmd, cmds, relay>>

HookSpools(h) ==
    /\ hooks[h].pc = "spooling"
    /\ fresh' = TRUE
    /\ hooks' = [hooks EXCEPT ![h] = IdleHook]
    /\ UNCHANGED <<file, flush, cmd, cmds, relay, told>>

-----------------------------------------------------------------------------
(* A flush run: an empty spool ends it before it has asked the relay.      *)
FlushStarts ==
    /\ flush.pc = "idle" /\ fresh
    /\ flush' = [pc |-> "posting", list |-> file, done |-> FALSE]
    /\ fresh' = FALSE
    /\ UNCHANGED <<file, hooks, cmd, cmds, relay, told>>

(* A 2xx carries the relay's current list.                                 *)
FlushAnswered ==
    /\ flush.pc = "posting"
    /\ flush' = [pc |-> "committing", list |-> Applied(flush.list, Len(relay)),
                 done |-> TRUE]
    /\ UNCHANGED <<file, fresh, hooks, cmd, cmds, relay, told>>

FlushFails ==
    /\ flush.pc = "posting"
    /\ flush' = [flush EXCEPT !.pc = "committing"]
    /\ UNCHANGED <<file, fresh, hooks, cmd, cmds, relay, told>>

FlushCommits ==
    /\ flush.pc = "committing"
    /\ fresh' = (fresh \/ ~flush.done)
    /\ flush' = [flush EXCEPT !.pc = "saving"]
    /\ UNCHANGED <<file, hooks, cmd, cmds, relay, told>>

(* watch.Save, whether or not the list has changed.                        *)
FlushSaves ==
    /\ flush.pc = "saving"
    /\ Overwrite(flush.list)
    /\ flush' = IdleFlush
    /\ UNCHANGED <<fresh, hooks, cmd, cmds, relay>>

FlushDies ==
    /\ flush.pc \in {"posting", "committing", "saving"}
    /\ fresh' = (fresh \/ flush.pc # "saving")
    /\ flush' = IdleFlush
    /\ UNCHANGED <<file, hooks, cmd, cmds, relay, told>>

-----------------------------------------------------------------------------
(* agentpulse projects watch, unwatch and watch-new: the relay first, the  *)
(* file after.                                                             *)

Set(S, k, on) == IF on THEN S \cup {k} ELSE S \ {k}

Current == IF relay = <<>> THEN NoList ELSE relay[Len(relay)]

RelaySets(k, on) ==
    /\ Len(relay) < MaxVersion
    /\ LET l == [known |-> Current.known \cup ({k} \cap Project),
                 on |-> Set(Current.on, k, on)] IN
          /\ l # [known |-> Current.known, on |-> Current.on]
          /\ relay' = Append(relay, l)

CmdLoads ==
    /\ cmd.pc = "idle" /\ cmds < MaxCmd /\ cmds' = cmds + 1
    /\ \E k \in file.known \cup {New}, on \in BOOLEAN :
          cmd' = [pc |-> "asking", list |-> file, key |-> k, on |-> on, answer |-> 0]
    /\ UNCHANGED <<file, fresh, hooks, flush, relay, told>>

(* SetWatch: taken and answered, taken with the answer lost, or not taken. *)
CmdAsks ==
    /\ cmd.pc = "asking"
    /\ \/ /\ RelaySets(cmd.key, cmd.on)
          /\ \E a \in {0, Len(relay) + 1} :
                cmd' = [cmd EXCEPT !.pc = "editing", !.answer = a]
       \/ cmd' = [cmd EXCEPT !.pc = "editing"] /\ UNCHANGED relay
    /\ UNCHANGED <<file, fresh, hooks, flush, cmds, told>>

(* The relay's list if it is newer, else an edit of the loaded one.        *)
Edited ==
    IF cmd.answer > cmd.list.v THEN Applied(cmd.list, cmd.answer)
    ELSE [cmd.list EXCEPT !.on = Set(@, cmd.key, cmd.on), !.edited = @ \cup {cmd.key}]

CmdSaves ==
    /\ cmd.pc = "editing"
    /\ Overwrite(Edited)
    /\ cmd' = IdleCmd
    /\ UNCHANGED <<fresh, hooks, flush, cmds, relay>>

-----------------------------------------------------------------------------
(* The phone changes the list.                                             *)
PhoneSets ==
    /\ \E k \in Key, on \in BOOLEAN : RelaySets(k, on)
    /\ UNCHANGED <<file, fresh, hooks, flush, cmd, cmds, told>>

(* Six hours have passed since p was seen, in every copy.                  *)
WindowEnds(p) ==
    /\ p \in file.seen \/ told[p] # "none"
    /\ LET Old(l) == [l EXCEPT !.seen = @ \ {p}] IN
          /\ file' = Old(file)
          /\ hooks' = [h \in Session |-> [hooks[h] EXCEPT !.list = Old(@)]]
          /\ flush' = [flush EXCEPT !.list = Old(@)]
          /\ cmd' = [cmd EXCEPT !.list = Old(@)]
    /\ told' = [told EXCEPT ![p] = "none"]
    /\ UNCHANGED <<fresh, cmds, relay>>

WatchNext ==
    \/ \E h \in Session :
          \/ \E p \in Project : HookLoads(h, p)
          \/ HookDrops(h) \/ HookSaves(h) \/ HookSpools(h)
    \/ FlushStarts \/ FlushAnswered \/ FlushFails \/ FlushCommits \/ FlushSaves
    \/ FlushDies
    \/ CmdLoads \/ CmdAsks \/ CmdSaves
    \/ PhoneSets
    \/ \E p \in Project : WindowEnds(p)

WatchSpec == WatchInit /\ [][WatchNext]_watchVars

(* Processes are scheduled; each project's main chain keeps firing hooks,  *)
(* so the events Decide lets through are not a subagent's for ever; each   *)
(* hook starts a flush run; the six hours pass; and a relay asked again    *)
(* and again sometimes answers a run that then lives to save.              *)
FairWatchSpec ==
    /\ WatchSpec
    /\ \A p \in Project :
          /\ SF_watchVars(\E h \in Session : hooks[h].p = p /\ HookSaves(h))
          /\ WF_watchVars(WindowEnds(p))
    /\ \A h \in Session :
          WF_watchVars((\E p \in Project : HookLoads(h, p))
                    \/ HookDrops(h) \/ HookSaves(h) \/ HookSpools(h))
    /\ WF_watchVars(FlushStarts \/ FlushFails \/ FlushCommits \/ FlushSaves)
    /\ SF_watchVars(FlushAnswered)
    /\ SF_watchVars(flush.done /\ FlushCommits) /\ SF_watchVars(flush.done /\ FlushSaves)

-----------------------------------------------------------------------------
ListOK(l) ==
    /\ l.v \in 0..Len(relay) /\ l.known \subseteq Project
    /\ l.on \subseteq l.known \cup {New} /\ l.seen \subseteq l.known

(* Types; only a known project is on or has a stamp, in every copy, and no *)
(* copy is ahead of the relay.                                             *)
WatchTypeOK ==
    /\ ListOK(file) /\ fresh \in BOOLEAN
    /\ \A h \in Session : ListOK(hooks[h].list)
    /\ ListOK(flush.list) /\ ListOK(cmd.list)
    /\ cmds \in 0..MaxCmd
    /\ told \in [Project -> {"none", "once", "twice", "lost"}]

(* BR-11: the file never mixes two of the relay's lists, whichever writers *)
(* overwrite each other: every project of the list whose version it bears  *)
(* has the relay's setting, but for what was edited here since.            *)
WholeList ==
    file.v > 0 =>
        LET rl == relay[file.v] IN
        /\ rl.known \subseteq file.known
        /\ \A k \in rl.known \cup {New} :
              k \in file.edited \/ (k \in file.on <=> k \in rl.on)

(* BR-10: an unwatched project gives one project_seen in six hours, unless *)
(* two writers overlapped or the relay sent a list without the project.    *)
SeenOncePerWindow == \A p \in Project : told[p] # "twice"

(* Whatever the phone sets reaches the file, also for a project of which   *)
(* every event is dropped: its project_seen is what makes a flush run ask. *)
RelayReached == []<>(file.v = Len(relay))
=============================================================================
