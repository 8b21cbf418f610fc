------------------------------- MODULE Spool -------------------------------
(***************************************************************************)
(* internal/spool: the newline-delimited file in which "agentpulse hook"   *)
(* processes leave events and from which "agentpulse flush" takes them.    *)
(*                                                                         *)
(* A line is the number of its arrival: the n-th line ever passed to       *)
(* Append is n.  The file is held under flock for the whole of Append's    *)
(* and rewrite's bodies; the two that replace the content truncate it and  *)
(* write the lines back one at a time, so a process that dies (or whose    *)
(* write fails) in between leaves a shorter file.  Depth reads the file    *)
(* with no lock and so sees every intermediate content.                    *)
(*                                                                         *)
(* At most one flusher drains at a time: flush.lock, module Pairing.       *)
(***************************************************************************)
EXTENDS Integers, Sequences, FiniteSets

CONSTANTS
    Hook,       \* the hook processes
    Flusher,    \* the flush process that holds flush.lock
    NoProc,     \* nobody
    Cap,        \* spool.Cap (500 in the code)
    Malformed,  \* the lines that are not valid JSON or exceed maxLineBytes
    MaxLine     \* bound: at most this many lines are ever appended

ASSUME SpoolAssumption ==
    /\ Cap \in Nat \ {0}
    /\ MaxLine \in Nat
    /\ Malformed \subseteq Nat

ASSUME ProcAssumption ==
    /\ Flusher \notin Hook
    /\ NoProc \notin Hook \cup {Flusher}

VARIABLES
    file,      \* the lines in the file, oldest first
    holder,    \* the process inside Append's or rewrite's write-back loop
    writing,   \* the lines that process still has to write
    next,      \* the number of the next line
    pc,        \* the flusher: "idle", "drained" (batch in memory), "committing"
    rawCount,  \* Drain's count of raw lines, captured by the commit closure
    cur,       \* the drained lines that have no answer yet (commit's keep)
    (* history *)
    done,      \* lines answered, or discarded as malformed, since Drain
    settled,   \* lines whose answer reached a commit
    evicted,   \* lines given up because the file was at Cap
    crashLost, \* lines a dying process did not write back
    mark,      \* the value of next when Drain ran
    shifts,    \* evictions by Append between a Drain and its commit
    torn       \* a hook died inside such an eviction

vars == <<file, holder, writing, next, pc, rawCount, cur,
          done, settled, evicted, crashLost, mark, shifts, torn>>
flushVars == <<pc, rawCount, cur, done, settled, mark>>

Elems(s) == {s[i] : i \in 1..Len(s)}

(* The increasing selections of k positions out of 1..n, and the           *)
(* subsequence such a selection picks.                                     *)
Picks(n) ==
    UNION {{h \in [1..k -> 1..n] : \A i, j \in 1..k : i < j => h[i] < h[j]} :
           k \in 0..n}
Picked(s, h) == [j \in DOMAIN h |-> s[h[j]]]

(* The last k lines of s, and what is cut off before them.                 *)
Newest(s, k)   == IF Len(s) <= k THEN s ELSE SubSeq(s, Len(s) - k + 1, Len(s))
Overflow(s, k) == IF Len(s) <= k THEN <<>> ELSE SubSeq(s, 1, Len(s) - k)

-----------------------------------------------------------------------------
Init ==
    /\ file = <<>> /\ holder = NoProc /\ writing = <<>> /\ next = 1
    /\ pc = "idle" /\ rawCount = 0 /\ cur = <<>> /\ done = {}
    /\ settled = {} /\ evicted = {} /\ crashLost = {}
    /\ mark = 1 /\ shifts = 0 /\ torn = FALSE

(* Append below Cap: one write at the end of the file.                     *)
AppendFits ==
    /\ holder = NoProc /\ next <= MaxLine
    /\ Len(file) < Cap
    /\ file' = Append(file, next)
    /\ next' = next + 1
    /\ UNCHANGED <<holder, writing, flushVars, evicted, crashLost, shifts, torn>>

(* The lines Append's eviction path keeps of a full file.                  *)
Bug_EvictKeepsCap(s)  == Newest(s, Cap)
Bug_EvictsNewest(s)   == SubSeq(s, 1, Cap - 1)
EvictKeep(s) == Newest(s, Cap - 1)

(* Append at Cap: keep the last Cap-1 lines, truncate, write back.         *)
AppendEvicts(h) ==
    /\ holder = NoProc /\ next <= MaxLine
    /\ Len(file) >= Cap
    /\ file' = <<>>
    /\ writing' = Append(EvictKeep(file), next)
    /\ evicted' = evicted \cup (Elems(file) \ Elems(EvictKeep(file)))
    /\ holder' = h
    /\ next' = next + 1
    /\ shifts' = IF pc = "drained" THEN shifts + 1 ELSE shifts
    /\ UNCHANGED <<flushVars, crashLost, torn>>

(* One writeLine of the write-back loop of Append or rewrite.              *)
WriteLine ==
    /\ writing # <<>>
    /\ file' = Append(file, Head(writing))
    /\ writing' = Tail(writing)
    /\ UNCHANGED <<holder, next, flushVars, evicted, crashLost, shifts, torn>>

(* Where the flusher is once process p has left the loop.                  *)
Returned(p) == IF p = Flusher THEN "idle" ELSE pc

(* The loop is over: the deferred unlock, and commit returns.              *)
Unlock ==
    /\ holder # NoProc /\ writing = <<>>
    /\ holder' = NoProc
    /\ pc' = Returned(holder)
    /\ UNCHANGED <<file, writing, next, rawCount, cur, done, settled, mark,
                   evicted, crashLost, shifts, torn>>

(* Drain: the valid lines, in order, and how many raw lines there were.    *)
(* The file is left as it is.                                              *)
Drain ==
    /\ pc = "idle" /\ holder = NoProc
    /\ \E h \in Picks(Len(file)) :
          /\ {h[j] : j \in DOMAIN h} =
                {i \in 1..Len(file) : file[i] \notin Malformed}
          /\ cur' = Picked(file, h)
    /\ rawCount' = Len(file)
    /\ done' = Elems(file) \cap Malformed
    /\ mark' = next
    /\ pc' = "drained"
    /\ UNCHANGED <<file, holder, writing, next, settled, evicted, crashLost,
                   shifts, torn>>

(* The caller has an answer for some of the lines it holds, or drops them  *)
(* (coalescing, a permanent rejection): any subsequence may remain.        *)
Answer ==
    /\ pc = "drained"
    /\ \E h \in Picks(Len(cur)) :
          /\ cur' = Picked(cur, h)
          /\ done' = done \cup (Elems(cur) \ Elems(Picked(cur, h)))
    /\ UNCHANGED <<file, holder, writing, next, pc, rawCount, settled, mark,
                   evicted, crashLost, shifts, torn>>

(* What rewrite makes of the current content: keep, then what it takes for *)
(* the lines added since Drain.                                            *)
Bug_OffByOne(current)    == SubSeq(current, rawCount + 2, Len(current))
Bug_KeepsAll(current)    == current
Bug_IgnoresNew(current)  == <<>>
AppendedSince(current) ==
    IF Len(current) >= rawCount
    THEN SubSeq(current, rawCount + 1, Len(current))
    ELSE current
Bug_NewFirst(keep, current) == AppendedSince(current) \o keep
Rewritten(keep, current) == keep \o AppendedSince(current)

(* commit must be called exactly once for each Drain.                      *)
MayCommit == pc = "drained"

(* commit: read, truncate, start writing back.                             *)
Commit ==
    /\ MayCommit /\ holder = NoProc
    /\ LET final == Rewritten(cur, file) IN
          /\ writing' = Newest(final, Cap)
          /\ evicted' = evicted \cup Elems(Overflow(final, Cap))
    /\ file' = <<>>
    /\ holder' = Flusher
    /\ pc' = "committing"
    /\ settled' = settled \cup done
    /\ UNCHANGED <<next, rawCount, cur, done, mark, crashLost, shifts, torn>>

(* A hook is killed, or its write fails, inside the write-back loop; the   *)
(* kernel drops its flock.                                                 *)
HookDies ==
    /\ holder \in Hook
    /\ crashLost' = crashLost \cup Elems(writing)
    /\ torn' = (torn \/ pc = "drained")
    /\ holder' = NoProc /\ writing' = <<>>
    /\ UNCHANGED <<file, next, flushVars, evicted, shifts>>

(* The flusher is killed (or never calls commit) between Drain and commit. *)
FlusherDiesHolding ==
    /\ pc = "drained"
    /\ pc' = "idle"
    /\ UNCHANGED <<file, holder, writing, next, rawCount, cur, done, settled,
                   mark, evicted, crashLost, shifts, torn>>

(* The flusher is killed inside rewrite's write-back loop.                 *)
FlusherDiesWriting ==
    /\ holder = Flusher
    /\ crashLost' = crashLost \cup Elems(writing)
    /\ holder' = NoProc /\ writing' = <<>>
    /\ pc' = "idle"
    /\ UNCHANGED <<file, next, rawCount, cur, done, settled, mark, evicted,
                   shifts, torn>>

Next ==
    \/ AppendFits
    \/ \E h \in Hook : AppendEvicts(h)
    \/ WriteLine
    \/ Unlock
    \/ Drain
    \/ Answer
    \/ Commit
    \/ HookDies
    \/ FlusherDiesHolding
    \/ FlusherDiesWriting

Spec == Init /\ [][Next]_vars

-----------------------------------------------------------------------------
(* Types; only the process inside the write-back loop has lines to write,  *)
(* and commit has returned exactly when the flusher has left that loop.    *)
TypeOK ==
    /\ file \in Seq(Nat) /\ writing \in Seq(Nat) /\ cur \in Seq(Nat)
    /\ holder \in Hook \cup {Flusher, NoProc}
    /\ pc \in {"idle", "drained", "committing"}
    /\ next \in Nat \ {0} /\ mark \in Nat /\ rawCount \in Nat /\ shifts \in Nat
    /\ done \subseteq Nat /\ settled \subseteq Nat
    /\ evicted \subseteq Nat /\ crashLost \subseteq Nat
    /\ torn \in BOOLEAN
    /\ holder = NoProc => writing = <<>>
    /\ holder = Flusher <=> pc = "committing"

Increasing(s) == \A i, j \in 1..Len(s) : i < j => s[i] < s[j]

(* The content as the process inside the write-back loop will leave it.    *)
Content == file \o writing

(* BR-03: the spool never holds more than Cap lines, not even half-way     *)
(* through a write-back, which is what an unlocked Depth can see.          *)
DepthBounded == Len(Content) <= Cap

(* Events stay in arrival order and none is in the file twice, whatever is *)
(* appended, evicted or killed, as long as no hook dies inside an eviction *)
(* that overlaps a flush (then rewrite cannot tell old lines from new      *)
(* ones, keeps both, and says so).                                         *)
ArrivalOrder == ~torn => Increasing(Content)

(* A line whose answer reached a commit is never offered to a flush again. *)
SettledIsFinal == ~torn => settled \cap Elems(Content) = {}

(* The lines that have gone without an answer, an eviction or a crash.     *)
Accepted == 1..(next - 1)
Silent == Accepted \ (Elems(Content) \cup settled \cup evicted \cup crashLost)

(* NFR-08 while no eviction overlaps a flush: a line that is no longer in  *)
(* the file was answered, was the oldest of a full file, or was being      *)
(* written back by a process that died.                                    *)
NoSilentLoss == shifts = 0 => Silent = {}

(* NFR-08 as rewrite's comments state it: the lines a concurrent Append    *)
(* adds during a flush survive the commit, evictions or not, while no      *)
(* process dies.                                                           *)
NothingSilentlyLost == crashLost = {} /\ ~torn => Silent = {}

(* What an eviction during a flush costs: at most one line each, provided  *)
(* the hook completes it.                                                  *)
LossBounded == ~torn => Cardinality(Silent) <= shifts

-----------------------------------------------------------------------------
(* As long as no eviction by a hook overlaps a flush, the spool is the     *)
(* queue: it starts as one, and every step that is not the first of these  *)
(* evictions, or later, is a step of the queue.                            *)
Queue == INSTANCE EventQueue WITH queue <- Content
QueueSpec == Queue!Init /\ [][shifts' = 0 => [Queue!Next]_(Queue!vars)]_vars
=============================================================================
