------------------------------ MODULE Settings ------------------------------
(***************************************************************************)
(* Claude Code's settings.json as the bridge edits it: internal/hooks      *)
(* (hooks.go, splice.go, ordered.go, installed.go) and the three commands  *)
(* that use it, "pair" (installHooks), "pair --hooks-only" (runHooksOnly)  *)
(* and "unpair" (removeHooks).  A command reads the file, shows what it    *)
(* would write, asks, and then renames the whole new file over whatever is *)
(* there; people, editors and Claude Code write the same file.             *)
(*                                                                         *)
(* A group's fields other than "hooks" are its matcher; layout is only     *)
(* whether the hooks member is laid out as the bridge lays it out.         *)
(***************************************************************************)
EXTENDS Commands, Selection

CONSTANTS
    Cmd,             \* the bridge's commands, each run once
    Events,          \* claudehooks.BR08Events, in order
    OtherEvents,     \* events the bridge does not register
    Matchers,        \* what groups are for
    Binaries,        \* the bridge as it is installed and started, one after another
    ForeignCommand,  \* what other tools run
    Added,           \* the one of them that edits add
    InitialFiles,    \* the file before the first command
    MaxEdits         \* bound: edits by others

VARIABLES
    file,      \* settings.json
    binary,    \* the installed bridge
    proc,      \* the commands
    (* history *)
    others,    \* what the others have put into the file
    edits      \* edits by others so far

vars == <<file, binary, proc, others, edits>>

-----------------------------------------------------------------------------
(* The file.  hooks lists its events with their arrays of groups.          *)

Shapes == {"absent", "empty", "blank", "broken", "document"}

Document(members, permissions, hooks, laid) ==
    [shape |-> "document", members |-> members, permissions |-> permissions,
     hooks |-> hooks, laid |-> laid]

NoFile == [Document(<<>>, 0, <<>>, "ours") EXCEPT !.shape = "absent"]

(* The empty matcher.                                                      *)
AnyTool == "any"

Group(matcher, commands) ==
    [kind |-> "group", matcher |-> matcher, hooks |-> commands]

Event(name, groups) == [name |-> name, isArray |-> TRUE, groups |-> groups]

Only(s, S) == At(s, {i \in 1..Len(s) : s[i] \in S})
Without(s, S) == At(s, {i \in 1..Len(s) : s[i] \notin S})

(* orderedRawObject: the events, Get, Set on an object that may repeat a   *)
(* key, and UnmarshalJSON, where a repeated key keeps its first place and  *)
(* takes the last value.                                                   *)
Names(hooks) == {hooks[i].name : i \in 1..Len(hooks)}

FirstOf(hooks, i) == \A j \in 1..i - 1 : hooks[j].name # hooks[i].name

LastOf(hooks, name) ==
    CHOOSE i \in 1..Len(hooks) :
        hooks[i].name = name /\ \A j \in i + 1..Len(hooks) : hooks[j].name # name

Decoded(hooks) ==
    At([i \in 1..Len(hooks) |-> hooks[LastOf(hooks, hooks[i].name)]],
       {i \in 1..Len(hooks) : FirstOf(hooks, i)})

GroupsOf(hooks, name) ==
    IF name \in Names(hooks) THEN hooks[LastOf(hooks, name)].groups ELSE <<>>

Set(hooks, event) ==
    IF event.name \in Names(hooks)
    THEN [i \in 1..Len(hooks) |-> IF hooks[i].name = event.name THEN event ELSE hooks[i]]
    ELSE Append(hooks, event)

-----------------------------------------------------------------------------
(* Whose a command is, tabulated once for the paths and commands there are. *)

StablePaths == {StableBinaryPath(b) : b \in Binaries}
Paths == StablePaths \cup {<<>>}

CommandOf == [path \in StablePaths |-> HookCommand(path)]

InEvent(event) == UNION {ToSet(group.hooks) : group \in ToSet(event.groups)}

KnownCommands ==
    ForeignCommand \cup Range(CommandOf) \cup
    UNION {UNION {InEvent(event) : event \in ToSet(f.hooks)} : f \in InitialFiles}

OwnedBy == [path \in Paths |-> {c \in KnownCommands: Owns(path, c)}]

(* A binary that is not called agentpulse is only known to itself.         *)
Unrecognisable(path) ==
    {CommandOf[q] : q \in {r \in StablePaths \ {path}: BaseOf(r) # BinaryName}}

AnyGroup == [kind : {"group", "odd"}, matcher : Matchers, hooks : Seq(KnownCommands)]
AnyEvent == [name : STRING, isArray : BOOLEAN, groups : Seq(AnyGroup)]
AnyFile ==
    [shape : Shapes, members : Seq({"permissions", "hooks"}), permissions : Nat,
     hooks : Seq(AnyEvent), laid : {"ours", "hand"}]

(* A file without content has no members, and the events are in one.       *)
Whole(f) ==
    /\ f \in AnyFile
    /\ f.shape \in {"absent", "empty"} => f.members = <<>> /\ f.permissions = 0
    /\ f.hooks # <<>> => "hooks" \in ToSet(f.members)

ASSUME EventsAssumption ==
    /\ Events \in Seq(STRING) /\ Events # <<>> /\ IsInjective(Events)
    /\ OtherEvents \subseteq STRING

ASSUME FilesAssumption == \A f \in InitialFiles : Whole(f)

ASSUME MatchersAssumption == AnyTool \in Matchers /\ "Bash" \in Matchers

(* A command is another tool's, one that the bridge recognises, or one     *)
(* that a binary of another name wrote; and never two of these.            *)
ASSUME ForeignAssumption ==
    /\ Added \in ForeignCommand
    /\ \A path \in Paths : ForeignCommand \cap OwnedBy[path] = {}

ASSUME RecognisedAssumption ==
    \A path \in Paths :
        KnownCommands \subseteq ForeignCommand \cup OwnedBy[path] \cup Unrecognisable(path)

(* The bridge recognises what it writes, and no other path's command is    *)
(* the same.                                                               *)
ASSUME OwnAssumption ==
    \A path \in StablePaths :
        CommandOf[path] \in OwnedBy[path] /\ CommandOf[path] \notin Unrecognisable(path)

(* What os.Executable gives leads to the binary: it is one of the links to *)
(* it, or (always on Linux) the binary itself.                             *)
ASSUME BinariesAssumption ==
    \A b \in Binaries : b.invoked \in b.links \cup {b.resolved}

-----------------------------------------------------------------------------
(* Merging (hooks.go).                                                     *)

(* filterOwnedHooks: what is left of one element, and whether it goes.     *)
Others(path, group) == Without(group.hooks, OwnedBy[path])

FilterOwnedHooks(path, group) ==
    IF group.kind = "group" /\ Others(path, group) # group.hooks
    THEN Group(group.matcher, Others(path, group))
    ELSE group

Bug_DroppedWholeGroup(path, group) ==
    group.kind = "group" /\ Others(path, group) # group.hooks

DroppedWholeGroup(path, group) ==
    group.kind = "group" /\ Others(path, group) = <<>> /\ group.hooks # <<>>

Kept(path, groups) ==
    At([i \in 1..Len(groups) |-> FilterOwnedHooks(path, groups[i])],
       {i \in 1..Len(groups) : ~DroppedWholeGroup(path, groups[i])})

(* mergeEvent for every event in names that is there: an event that has    *)
(* nothing left is deleted.                                                *)
MergeEvent(path, event, names, wanted) ==
    IF event.name \in names
    THEN Event(event.name, Kept(path, event.groups) \o wanted)
    ELSE event

Bug_Stays(event, names) == TRUE
Stays(event, names) == event.name \in names => event.groups # <<>>

MergeEvents(path, hooks, names, wanted) ==
    LET merged == [i \in 1..Len(hooks) |-> MergeEvent(path, hooks[i], names, wanted)]
    IN  At(merged, {i \in 1..Len(hooks) : Stays(merged[i], names)})

Fresh(path) == <<Group(AnyTool, <<CommandOf[path]>>)>>

(* The events that were not there, as Set appends them.                    *)
NewEvents(path, hooks, names) ==
    LET new == Without(names, Names(hooks))
    IN  [i \in 1..Len(new) |-> Event(new[i], Fresh(path))]

Install(path, hooks, names) ==
    MergeEvents(path, hooks, ToSet(names), Fresh(path)) \o NewEvents(path, hooks, names)

Bug_Uninstall(path, hooks) == MergeEvents(path, hooks, ToSet(Events), <<>>)
Uninstall(path, hooks) == MergeEvents(path, hooks, Names(hooks), <<>>)

(* An event whose value is no array stops the merge of that event.         *)
Readable(hooks, names) ==
    \A i \in 1..Len(hooks): hooks[i].name \in names => hooks[i].isArray

-----------------------------------------------------------------------------
(* Splicing the result into the document (splice.go).                      *)

Membership(members, hooks) ==
    IF hooks = <<>> THEN Without(members, {"hooks"})
    ELSE IF "hooks" \in ToSet(members) THEN members ELSE Append(members, "hooks")

SpliceTopLevelKey(f, hooks) ==
    Document(Membership(f.members, hooks), f.permissions, hooks, "ours")

BuildFromScratch(path, names) ==
    Document(<<"hooks">>, 0, Install(path, <<>>, names), "ours")

Refused == [ok |-> FALSE, after |-> NoFile]

PlanInstall(f, path, names) ==
    LET hooks == Decoded(f.hooks)
    IN  CASE f.shape \in {"absent", "empty"} ->
                [ok |-> TRUE, after |-> BuildFromScratch(path, names)]
          [] f.shape = "document" /\ Readable(hooks, ToSet(names)) ->
                [ok |-> TRUE, after |-> SpliceTopLevelKey(f, Install(path, hooks, names))]
          [] OTHER -> Refused

PlanUninstall(f, path) ==
    LET hooks == Decoded(f.hooks)
    IN  CASE f.shape \in {"absent", "empty"} -> [ok |-> TRUE, after |-> f]
          [] f.shape = "document" /\ Readable(hooks, Names(hooks)) ->
                [ok |-> TRUE, after |-> SpliceTopLevelKey(f, Uninstall(path, hooks))]
          [] OTHER -> Refused

(* The commands in groups that are in S, by their places.                  *)
CommandsIn(groups, S) ==
    LET places == UNION {{<<i, k>> : k \in 1..Len(groups[i].hooks)} :
                           i \in {j \in 1..Len(groups) : groups[j].kind = "group"}}
        Command(at) == groups[at[1]].hooks[at[2]]
    IN  [at \in {x \in places : Command(x) \in S} |-> Command(at)]

(* One command, once.                                                      *)
IsOnly(commands, c) == \E at \in DOMAIN commands : DOMAIN commands = {at} /\ commands[at] = c

(* ownedCommandsInEvent and InstalledCommands (installed.go).              *)
OwnedCommands(path, groups) == CommandsIn(groups, OwnedBy[path])

Inspectable(f) ==
    \/ f.shape \in {"absent", "empty", "blank"}
    \/ f.shape = "document" /\ Readable(Decoded(f.hooks), Names(f.hooks))

InstalledCommands(f, path, name) == OwnedCommands(path, GroupsOf(Decoded(f.hooks), name))

(* What "--hooks-only" finds missing.                                      *)
Bug_Missing(f, path) ==
    At(Events, {i \in 1..Len(Events) : DOMAIN InstalledCommands(f, path, Events[i]) = {}})

Missing(f, path) ==
    At(Events, {i \in 1..Len(Events) :
                  ~IsOnly(InstalledCommands(f, path, Events[i]), CommandOf[path])})

-----------------------------------------------------------------------------
(* The commands.                                                           *)

Idle == [pc |-> "idle", op |-> "none", path |-> <<>>, missing |-> <<>>,
         after |-> NoFile, read |-> NoFile, reread |-> FALSE, copied |-> <<>>]

Done == [Idle EXCEPT !.pc = "done"]

Goes(c, p) == proc' = [proc EXCEPT ![c] = p]

(* The end of planning: nothing to do, refused, or a question.  reread and *)
(* copied are history: the file was not what the command had first read,   *)
(* and what the others had put in when it was read.                        *)
Planned(c, p, plan) ==
    Goes(c, IF plan.ok /\ plan.after # file
            THEN [p EXCEPT !.pc = "asked", !.after = plan.after, !.read = NoFile,
                           !.reread = p.read # file, !.copied = others]
            ELSE Done)

Begins(c, op) ==
    /\ proc[c].pc = "idle"
    /\ UNCHANGED <<file, binary, others, edits>>

PairPlans(c) ==
    LET path == StableBinaryPath(binary)
    IN  /\ Begins(c, "pair")
        /\ Planned(c, [Idle EXCEPT !.op = "pair", !.path = path, !.read = file],
                   PlanInstall(file, path, Events))

(* currentBinaryPath may fail in unpair, which goes on without a path.     *)
UnpairPlans(c) ==
    \E path \in {StableBinaryPath(binary), <<>>}:
        /\ Begins(c, "unpair")
        /\ Planned(c, [Idle EXCEPT !.op = "unpair", !.path = path, !.read = file],
                   PlanUninstall(file, path))

HooksOnlyLooks(c) ==
    LET path == StableBinaryPath(binary)
        missing == Missing(file, path)
    IN  /\ Begins(c, "hooksonly")
        /\ Goes(c, IF Inspectable(file) /\ missing # <<>>
                   THEN [Idle EXCEPT !.pc = "looked", !.op = "hooksonly", !.path = path,
                                     !.missing = missing, !.read = file]
                   ELSE Done)

(* PlanInstall reads the file again.                                       *)
HooksOnlyPlans(c) ==
    /\ proc[c].pc = "looked"
    /\ Planned(c, proc[c], PlanInstall(file, proc[c].path, proc[c].missing))
    /\ UNCHANGED <<file, binary, others, edits>>

(* Plan.Apply: the rename, after a "y".  Plan.Before is not read again.    *)
Apply(c) ==
    /\ proc[c].pc = "asked"
    /\ file' = proc[c].after
    /\ others' = proc[c].copied
    /\ Goes(c, Done)
    /\ UNCHANGED <<binary, edits>>

(* "n", Ctrl-C, or a failure before the rename: a temporary file at most.  *)
Abandons(c) ==
    /\ proc[c].pc \in {"looked", "asked"}
    /\ Goes(c, Done)
    /\ UNCHANGED <<file, binary, others, edits>>

-----------------------------------------------------------------------------
(* The others.  Each edit also records in others what it put in.           *)

(* The hooks of other tools, event by event, and the other member.         *)
Theirs(group) ==
    IF group.kind = "group" THEN Group(group.matcher, Only(group.hooks, ForeignCommand))
    ELSE group

HasTheirs(group) == group.kind = "group" => Theirs(group).hooks # <<>>

ForeignIn(groups) ==
    At([i \in 1..Len(groups) |-> Theirs(groups[i])],
       {i \in 1..Len(groups) : HasTheirs(groups[i])})

ForeignHooks(hooks) ==
    {<<hooks[i].name, ForeignIn(hooks[i].groups)>> :
        i \in {k \in 1..Len(hooks) : ForeignIn(hooks[k].groups) # <<>>}}

Foreign(f) ==
    [permissions |-> f.permissions,
     members |-> Without(f.members, {"hooks"}),
     hooks |-> ForeignHooks(Decoded(f.hooks))]

Edited(new) ==
    /\ edits < MaxEdits
    /\ edits' = edits + 1
    /\ file' = new
    /\ others' = Foreign(new)
    /\ UNCHANGED <<binary, proc>>

Rewritten(f, hooks) == [f EXCEPT !.hooks = hooks, !.laid = "hand"]

(* A group of their own, before or after what is there.                    *)
AddGroup(name) ==
    /\ file.shape = "document"
    /\ \E groups \in {<<Group("Bash", <<Added>>)>> \o GroupsOf(file.hooks, name),
                      GroupsOf(file.hooks, name) \o <<Group("Bash", <<Added>>)>>}:
           Edited([file EXCEPT
                      !.members = IF "hooks" \in ToSet(@) THEN @ ELSE Append(@, "hooks"),
                      !.hooks = Set(@, Event(name, groups)), !.laid = "hand"])

(* An entry in a group that is there, perhaps the bridge's.                *)
Shared(groups, i) == [groups EXCEPT ![i].hooks = Append(@, Added)]

Share(name) ==
    /\ file.shape = "document"
    /\ \E i \in DOMAIN GroupsOf(file.hooks, name):
           LET groups == GroupsOf(file.hooks, name)
           IN  /\ groups[i].kind = "group"
               /\ Edited(Rewritten(file, Set(file.hooks, Event(name, Shared(groups, i)))))

(* One event emptied by hand.                                              *)
ClearEvent(name) ==
    /\ file.shape = "document"
    /\ GroupsOf(file.hooks, name) # <<>>
    /\ Edited(Rewritten(file, Set(file.hooks, Event(name, <<>>))))

EditOther ==
    /\ file.shape = "document"
    /\ Edited([file EXCEPT
                  !.members = IF "permissions" \in ToSet(@) THEN @ ELSE <<"permissions">> \o @,
                  !.permissions = @ + 1])

Break ==
    /\ file.shape = "document"
    /\ Edited([file EXCEPT !.shape = "broken"])

Mend ==
    /\ file.shape = "broken"
    /\ Edited([file EXCEPT !.shape = "document"])

Upgrade ==
    /\ \E b \in Binaries \ {binary}: binary' = b
    /\ UNCHANGED <<file, proc, others, edits>>

-----------------------------------------------------------------------------
Init ==
    /\ file \in InitialFiles
    /\ binary \in Binaries
    /\ proc = [c \in Cmd |-> Idle]
    /\ edits = 0
    /\ others = Foreign(file)

Next ==
    \/ \E c \in Cmd: \/ PairPlans(c) \/ UnpairPlans(c) \/ HooksOnlyLooks(c)
                     \/ HooksOnlyPlans(c) \/ Apply(c) \/ Abandons(c)
    \/ \E name \in ToSet(Events) \cup OtherEvents:
           AddGroup(name) \/ Share(name) \/ ClearEvent(name)
    \/ EditOther \/ Break \/ Mend \/ Upgrade

Spec == Init /\ [][Next]_vars

-----------------------------------------------------------------------------
(* Properties.                                                             *)

(* Types: the file, and what a command is about to rename over it, are     *)
(* files as described above.                                               *)
TypeOK ==
    /\ Whole(file) /\ binary \in Binaries
    /\ DOMAIN proc = Cmd
    /\ \A c \in Cmd: proc[c].pc = "asked" => Whole(proc[c].after)

(* BR-07, "without disturbing anything else the operator has configured":  *)
(* the other tools' hooks, in their order and with their matchers, also    *)
(* when they share a group with the bridge's, and the other members are    *)
(* always those that the last edit put there, or, when an edit came        *)
(* between a command's reading and writing, those the command had read.    *)
ForeignKept == Foreign(file) = others

(* The bridge's hooks that are in the file.                                *)
Bridges(f, path, name) ==
    CommandsIn(GroupsOf(Decoded(f.hooks), name),
               KnownCommands \ (ForeignCommand \cup Unrecognisable(path)))

(* The events a command has registered once it is done: all of them, or,   *)
(* when the file changed between the two readings of --hooks-only, those   *)
(* that it had found missing.                                              *)
Promised(p) == IF p.reread THEN ToSet(p.missing) ELSE ToSet(Events)

(* "pair" and "pair --hooks-only" say that the hooks are registered        *)
(* (settings.go 26-41, pair_hooks_only.go 50-74).  Then each of the events *)
(* above has the bridge's command exactly once, and no older one.          *)
RegistersAll ==
    [][\A c \in Cmd:
          Apply(c) /\ proc[c].op # "unpair" =>
              \A name \in Promised(proc[c]):
                  IsOnly(Bridges(file', proc[c].path, name), CommandOf[proc[c].path])]_vars

(* BR-09: "unpair" leaves none of the bridge's hooks, in any event.        *)
UnpairRemovesAll ==
    [][\A c \in Cmd:
          Apply(c) /\ proc[c].op = "unpair" =>
              \A i \in DOMAIN file'.hooks:
                  DOMAIN Bridges(file', proc[c].path, file'.hooks[i].name) = {}]_vars

(* For properties of the file and the binary alone: any two of these that  *)
(* occur together also do with no command under way.                       *)
BetweenCommands == \A c \in Cmd: proc[c].pc \in {"idle", "done"}

(* Pairing again changes nothing more, and unpairing after it leaves what  *)
(* unpairing before it would have left: pair adds nothing that unpair does *)
(* not take away.                                                          *)
PairUndone == BetweenCommands =>
    \A path \in {StableBinaryPath(binary)}:
        \A installed \in {PlanInstall(file, path, Events)}, removed \in {PlanUninstall(file, path)}:
            file.shape = "document" /\ installed.ok /\ removed.ok =>
                /\ PlanInstall(installed.after, path, Events) = installed
                /\ PlanUninstall(installed.after, path) = removed

-----------------------------------------------------------------------------
(* What the code says and does not keep.                                   *)

(* "A Homebrew install always runs through a symlink ... keeping the       *)
(* symlink path instead means the hook keeps working across an upgrade"    *)
(* (settings.go 84-95): no command is about to register a path inside      *)
(* Homebrew's Cellar.  Refuted where os.Executable gives such a path.      *)
OutlivesUpgrade ==
    \A c \in Cmd: proc[c].pc = "asked" /\ proc[c].op # "unpair" => "Cellar" \notin ToSet(proc[c].path)
=============================================================================
