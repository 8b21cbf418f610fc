------------------------------ MODULE Commands ------------------------------
(***************************************************************************)
(* How the bridge writes its hook command into Claude Code's settings and  *)
(* recognises it there again: cmd/agentpulse/settings.go (the path and its *)
(* shell quoting) and internal/hooks/owner.go (splitting a command line    *)
(* into words and deciding whose it is).                                   *)
(*                                                                         *)
(* A text is a sequence of tokens: a run of plain characters, or a single  *)
(* character that matters here, "/", " ", a quote or a backslash.          *)
(***************************************************************************)
EXTENDS Naturals, SequencesExt

Quotes == {"'", "\""}
Special == Quotes \cup {" ", "\\"}
OurVariables == {"AGENTPULSE_RECORD_DIR="}
BinaryName == <<"agentpulse">>

-----------------------------------------------------------------------------
(* Writing (settings.go).                                                  *)

(* A single quote cannot stand inside single quotes: close, escape, reopen. *)
EscapedInQuotes(token) ==
    IF token = "'" THEN <<"'", "\\", "'", "'">> ELSE <<token>>

ShellQuoteSingle(text) ==
    <<"'">> \o FlattenSeq([i \in DOMAIN text |-> EscapedInQuotes(text[i])]) \o <<"'">>

ShellQuoteIfNeeded(text) ==
    IF ToSet(text) \cap Special = {} THEN text ELSE ShellQuoteSingle(text)

HookCommand(path) == ShellQuoteIfNeeded(path) \o <<" ", "hook">>

-----------------------------------------------------------------------------
(* Paths.                                                                  *)

LastSlash(text) == SelectLastInSeq(text, LAMBDA token: token = "/")
BaseOf(text) == SubSeq(text, LastSlash(text) + 1, Len(text))
DirOf(text) == SubSeq(text, 1, LastSlash(text) - 1)
IsAbs(text) == text # <<>> /\ text[1] = "/"

(* .../Cellar/<name>/<version>/bin/<name>                                  *)
IsHomebrewCellarPath(resolved, name) ==
    LET binDir == DirOf(resolved)
        formulaDir == DirOf(DirOf(binDir))
    IN  /\ BaseOf(resolved) = name
        /\ BaseOf(binDir) = <<"bin">>
        /\ BaseOf(formulaDir) = name
        /\ BaseOf(DirOf(formulaDir)) = <<"Cellar">>

(* The path to write when os.Executable gives b.invoked, whose symlinks    *)
(* lead to b.resolved.                                                     *)
StableBinaryPath(b) ==
    IF b.resolved # b.invoked /\ IsHomebrewCellarPath(b.resolved, BaseOf(b.invoked))
    THEN b.invoked
    ELSE b.resolved

-----------------------------------------------------------------------------
(* Reading (owner.go).                                                     *)

NoQuote == ""
ScanStart == [words |-> <<>>, word |-> <<>>, inWord |-> FALSE,
              quote |-> NoQuote, escaped |-> FALSE]

WordEnds(s) ==
    IF s.inWord
    THEN [s EXCEPT !.words = Append(@, s.word), !.word = <<>>, !.inWord = FALSE]
    ELSE s

Adds(s, token) == [s EXCEPT !.word = Append(@, token), !.inWord = TRUE]

Scan(s, token) ==
    CASE s.quote # NoQuote ->
            IF token = s.quote THEN [s EXCEPT !.quote = NoQuote] ELSE Adds(s, token)
      [] s.quote = NoQuote /\ s.escaped -> [Adds(s, token) EXCEPT !.escaped = FALSE]
      [] s.quote = NoQuote /\ ~s.escaped /\ token = "\\" -> [s EXCEPT !.escaped = TRUE]
      [] s.quote = NoQuote /\ ~s.escaped /\ token \in Quotes ->
            [s EXCEPT !.quote = token, !.inWord = TRUE]
      [] s.quote = NoQuote /\ ~s.escaped /\ token = " " -> WordEnds(s)
      [] OTHER -> Adds(s, token)

SplitCommandWords(command) == WordEnds(FoldLeft(Scan, ScanStart, command)).words

IsOurAssignment(word) == word # <<>> /\ word[1] \in OurVariables

DropEnvPrefix(words) ==
    IF words = <<>> \/ words[1] # <<"env">>
    THEN words
    ELSE LET rest == SelectInSeq(Tail(words), LAMBDA w: ~IsOurAssignment(w))
         IN  CASE rest = 1 -> words
               [] rest = 0 -> IF Len(words) = 1 THEN words ELSE <<>>
               [] OTHER -> SubSeq(words, rest + 1, Len(words))

(* Whether the bridge whose own path is path takes command for its own; an *)
(* empty path is one it could not find out.                                *)
Owns(path, command) ==
    LET words == DropEnvPrefix(SplitCommandWords(command))
    IN  /\ Len(words) >= 2
        /\ words[2] = <<"hook">>
        /\ \/ path # <<>> /\ words[1] = path
           \/ words[1] = BinaryName
           \/ IsAbs(words[1]) /\ BaseOf(words[1]) = BinaryName
=============================================================================
