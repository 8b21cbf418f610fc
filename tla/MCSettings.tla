----------------------------- MODULE MCSettings -----------------------------
(* Settings and the checks of doctor that read it, with two registered     *)
(* events and one that is not, a Homebrew binary in two versions, known by *)
(* its link in one and by its own path in the other (as on Linux, or when  *)
(* it is started from the Cellar), and one that goes by another name and   *)
(* lies below a directory with a blank and a quote.                        *)
EXTENDS Doctor, TLC

MCEvents == <<"PreToolUse", "SubagentStop">>

(* compat.json's two minimum versions.                                     *)
MCMinVersion == ("PreToolUse" :> <<2, 1, 261>>) @@ ("SubagentStop" :> <<2, 1, 283>>)
MCBaseline == <<2, 1, 283>>
MCClaudeVersions ==
    {Unknown, <<2, 1, 9>>, <<2, 1, 261>>, <<2, 1, 283>>, <<2, 2, 0>>, <<3, 0, 0>>}

Brew == <<"/", "brew", "/", "bin", "/", "agentpulse">>
CellarOf(version) ==
    <<"/", "brew", "/", "Cellar", "/", "agentpulse", "/", version, "/", "bin", "/", "agentpulse">>
OBrien == <<"/", "O", "'", "Brien", " ", "x", "/", "ap">>

MCBinaries ==
    {[invoked |-> Brew, resolved |-> CellarOf("1"), links |-> {Brew}],
     [invoked |-> CellarOf("2"), resolved |-> CellarOf("2"), links |-> {Brew}],
     [invoked |-> OBrien, resolved |-> OBrien, links |-> {}]}

(* Another program's name that contains the bridge's, and an unpaired quote. *)
Wrapper == <<"/", "opt", "/", "my-agentpulse-wrapper", " ", "hook">>
Unpaired == <<"say", " ", "'", "/", "agentpulse", " ", "hook">>
MCForeign == {Wrapper, Unpaired}

Recorder == <<"env", " ", "AGENTPULSE_RECORD_DIR=", "/", "tmp", " ">> \o HookCommand(Brew)
Bare == <<"agentpulse", " ", "hook">>

Odd == [kind |-> "odd", matcher |-> AnyTool, hooks |-> <<>>]

MCInitialFiles ==
    {NoFile,
     [NoFile EXCEPT !.shape = "blank"],
     Document(<<"hooks", "permissions">>, 1,
              <<Event("PreCompact", <<Group(AnyTool, <<Bare, Unpaired>>)>>),
                Event("SubagentStop", <<Odd, Group(AnyTool, <<Recorder>>)>>)>>, "hand"),
     Document(<<"permissions", "hooks">>, 1,
              <<Event("SubagentStop", <<Group("Bash", <<Wrapper>>)>>),
                [name |-> "PreCompact", isArray |-> FALSE, groups |-> <<>>],
                Event("SubagentStop", <<Group(AnyTool, <<Wrapper, HookCommand(CellarOf("0"))>>)>>)>>, "hand")}

SettingsSymmetry == Permutations(Cmd)
=============================================================================
