------------------------------- MODULE Doctor -------------------------------
(***************************************************************************)
(* Checks 1 to 3 of "agentpulse doctor" (internal/doctor: environment.go,  *)
(* claudeversion.go, compat.go): what it says of the hook commands in the  *)
(* settings file that module Settings lets the bridge, its upgrades and    *)
(* other people change, and whether what it advises helps.  Each check     *)
(* looks at the machine as it is and changes nothing.                      *)
(***************************************************************************)
EXTENDS Settings

CONSTANTS
    Optional,        \* claudehooks.IsOptionalEvent
    MinVersion,      \* compat.json: the Claude Code version that has an event
    BaselineVersion,
    ClaudeVersions   \* what "claude --version" may say

Verdicts == {"PASS", "WARN", "FAIL"}

-----------------------------------------------------------------------------
(* The machine.                                                            *)

(* Of all the places the bridge has been, only the present one is there.   *)
OnDisk(path) == path \in binary.links \cup {binary.resolved}

ResolvePath(path) == IF path \in binary.links THEN binary.resolved ELSE path

(* What a shell runs for a hook command of the bridge.                     *)
OwnCommands == UNION Range(OwnedBy)
ShellRuns == [c \in OwnCommands |-> DropEnvPrefix(SplitCommandWords(c))[1]]

-----------------------------------------------------------------------------
(* Check 1: the binaries that the hooks name.                              *)

EscapedQuote == <<"'", "\\", "'", "'">>

StandsAt(command, i, part) ==
    i + Len(part) - 1 <= Len(command) /\ SubSeq(command, i, i + Len(part) - 1) = part

Before(command, token) ==
    LET i == SelectInSeq(command, LAMBDA t: t = token)
    IN  IF i = 0 THEN command ELSE SubSeq(command, 1, i - 1)

(* The path between the single quotes, each '\'' in it standing for a      *)
(* quote; next is the first token not yet read.                            *)
Unquoted(command) ==
    LET Read(s, i) ==
            CASE i # s.next -> s
              [] i = s.next /\ StandsAt(command, i, EscapedQuote) ->
                    [text |-> Append(s.text, "'"), next |-> i + Len(EscapedQuote)]
              [] i = s.next /\ ~StandsAt(command, i, EscapedQuote) /\ command[i] = "'" ->
                    [s EXCEPT !.next = 0]
              [] OTHER -> [text |-> Append(s.text, command[i]), next |-> i + 1]
    IN  FoldLeftDomain(Read, [text |-> <<>>, next |-> 2], command).text

CommandBinary ==
    [c \in OwnCommands |-> IF c[1] = "'" THEN Unquoted(c) ELSE Before(c, " ")]

Registered(f, path) ==
    LET hooks == Decoded(f.hooks)
    IN  UNION {Range(OwnedCommands(path, GroupsOf(hooks, name))) : name \in ToSet(Events)}

BrokenRegisteredBinaries(f, path) ==
    {b \in {CommandBinary[c] : c \in Registered(f, path)} : IsAbs(b) /\ ~OnDisk(b)}

Bug_RegisteredBinaries(f, path) == {CommandBinary[c] : c \in Registered(f, path)}

RegisteredBinaries(f, path) ==
    {ResolvePath(CommandBinary[c]) : c \in Registered(f, path)}

(* The file can be read, which a missing one cannot.                       *)
Legible(f) == f.shape # "absent" /\ Inspectable(f)

(* found is where the shell's PATH has "agentpulse", or nothing.           *)
CheckBinaryOnPath(f, path, found) ==
    CASE Legible(f) /\ BrokenRegisteredBinaries(f, path) # {} -> "FAIL"
      [] /\ Legible(f) /\ BrokenRegisteredBinaries(f, path) = {} /\ found # <<>>
         /\ RegisteredBinaries(f, path) = {ResolvePath(found)} -> "PASS"
      [] OTHER -> "WARN"

-----------------------------------------------------------------------------
(* Check 2: the hooks that are registered.                                 *)

MissingEvents(f, path) ==
    {name \in ToSet(Events) : DOMAIN InstalledCommands(f, path, name) = {}}

Bug_OnlyOptionalEvents(names) == names \cap Optional # {}

OnlyOptionalEvents(names) == names \subseteq Optional

CheckSettingsFile(f, path) ==
    CASE ~Legible(f) -> "FAIL"
      [] Legible(f) /\ MissingEvents(f, path) = {} -> "PASS"
      [] /\ Legible(f) /\ MissingEvents(f, path) # {}
         /\ OnlyOptionalEvents(MissingEvents(f, path)) -> "WARN"
      [] OTHER -> "FAIL"

-----------------------------------------------------------------------------
(* Check 3: Claude Code's version, three numbers.                          *)

Unknown == <<>>

Below(a, b) ==
    \E i \in DOMAIN b: a[i] < b[i] /\ \A j \in 1..i - 1: a[j] = b[j]

UnsupportedEvents(version) == {name \in DOMAIN MinVersion: Below(version, MinVersion[name])}

CheckClaudeVersion(version) ==
    IF version # Unknown /\ UnsupportedEvents(version) = {} THEN "PASS" ELSE "WARN"

-----------------------------------------------------------------------------
(* The constants.                                                          *)

(* Check 1 finds the path in a command that the bridge writes, and no      *)
(* command with an absolute path is quoted by hand in a third form, one    *)
(* that a shell reads as another path than check 1 does.                   *)
ASSUME ReadingAssumption ==
    /\ \A path \in StablePaths : CommandBinary[CommandOf[path]] = path
    /\ \A c \in OwnCommands : IsAbs(CommandBinary[c]) => ShellRuns[c] = CommandBinary[c]

(* parseVersion's results; the baseline has every event.                   *)
Version == [1..3 -> Nat]

ASSUME VersionsAssumption ==
    /\ ClaudeVersions \ {Unknown} \subseteq Version
    /\ BaselineVersion \in Version /\ UnsupportedEvents(BaselineVersion) = {}
    /\ \A name \in DOMAIN MinVersion : MinVersion[name] \in Version

-----------------------------------------------------------------------------
(* Properties.                                                             *)

(* The commands in one of the two forms that commandBinary is written for.    *)
WrittenForm ==
    {c \in OwnCommands : IsAbs(CommandBinary[c]) /\ HookCommand(CommandBinary[c]) = c}

CouldBeFound == {<<>>} \cup {p \in binary.links \cup {binary.resolved} : BaseOf(p) = BinaryName}

(* When neither check 1 nor check 2 FAILs, every event that the bridge     *)
(* cannot do without has a command of the bridge, and what the shell runs  *)
(* for it is there; and check 1 FAILs only over a command that cannot run  *)
(* (environment.go 105-162, 197-252).  Commands in neither of the two      *)
(* forms the bridge writes are looked through by check 1.                  *)
DoctorTruth == BetweenCommands =>
    \A path \in {StableBinaryPath(binary), <<>>}: \A found \in CouldBeFound:
        LET first == CheckBinaryOnPath(file, path, found)
            second == CheckSettingsFile(file, path)
        IN  /\ "FAIL" \notin {first, second} =>
                  \A name \in ToSet(Events) \ Optional:
                      LET commands == Range(InstalledCommands(file, path, name))
                      IN  /\ commands # {}
                          /\ \A c \in commands: c \in WrittenForm => OnDisk(ShellRuns[c])
            /\ first = "FAIL" => \E c \in Registered(file, path): ~OnDisk(ShellRuns[c])

UpgradeHelps ==
    \A v \in ClaudeVersions \ {Unknown}:
        ~Below(v, BaselineVersion) => CheckClaudeVersion(v) = "PASS"

(* What doctor advises helps: after "pair --hooks-only" (check 1's remedy, *)
(* and check 2's when only optional hooks are missing) and after "pair"    *)
(* (check 2's) both checks are content with a file that they could read,   *)
(* if the bridge is on PATH at all; and an upgrade of Claude Code to the   *)
(* version named contents check 3.  A file of blanks is the exception:     *)
(* check 2 reads it as one without hooks, and "pair" refuses it.           *)
RemedyWorks ==
    /\ UpgradeHelps
    /\ BetweenCommands /\ Legible(file) /\ file.shape # "blank" =>
          \A path \in {StableBinaryPath(binary)}, found \in CouldBeFound:
          \A first \in {CheckBinaryOnPath(file, path, found)}, second \in {CheckSettingsFile(file, path)}:
          \A advised \in (IF first = "FAIL" \/ second = "WARN" THEN {Missing(file, path)} ELSE {})
                          \cup (IF second = "FAIL" THEN {Events} ELSE {}):
          \A plan \in {PlanInstall(file, path, advised)}:
              /\ plan.ok
              /\ CheckSettingsFile(plan.after, path) = "PASS"
              /\ CheckBinaryOnPath(plan.after, path, found) =
                     (IF found = <<>> THEN "WARN" ELSE "PASS")
=============================================================================
