--------------------------- MODULE SessionProofs ---------------------------
(***************************************************************************)
(* What the hooks of one session keep in its scratch file, for any number  *)
(* of hooks and subagents, every cap on their chains and every window.     *)
(*                                                                         *)
(* The lock makes one hook at a time the scratch file's owner, but the     *)
(* event it has decided on is spooled after the file is saved, and a sweep *)
(* takes no lock.  So the invariant follows the state through its stations:*)
(* the file while nobody holds the lock, a holder's memory until it saves, *)
(* and then the file together with the event that is still to be spooled.  *)
(***************************************************************************)
EXTENDS Session, FiniteSetTheorems, TLAPS

Cats == {"none", "Read", "Edit", "Other"}
Mark == [kind : {"none", "ask", "test", "Commit", "PR"}, by : Agent]
Chain == [cat : Cats, at : Age, mark : Mark]
State == [runs : Nat, commits : Nat, chains : UNION {[D -> Chain] : D \in SUBSET Key},
          perm : Age, label : BOOLEAN]
Types == {"none", "activity", "needs_input", "verification_started",
          "verification_finished", "commit", "pr_created", "input_resolved", "paused",
          "subagent_start", "subagent_stop"} \cup MainEvents
Event == {e \in [type : Types, key : Key, id : Agent, cat : Cats \cup {"label"}] :
             e.type = "activity" => e.cat \in Cats}
Hooks == [pc : {"idle", "started", "loaded", "saved"},
          what : Fires \cup {"none"}, agent : Agent, on : BOOLEAN, age : 0..Lag,
          mem : State, event : Event]

(* A mark in a subagent's chain is that subagent's own, Overflow has none, *)
(* and the chains of subagents are within their cap.                       *)
OwnMark(k, mark) == mark.kind # "none" => k # Overflow /\ (k # Main => mark.by = k)
Marks(s) == \A k \in DOMAIN s.chains : OwnMark(k, s.chains[k].mark)
GoodState(s) ==
    /\ s \in State /\ Main \in DOMAIN s.chains /\ Marks(s)
    /\ IsFiniteSet(Subagents(s)) /\ Cardinality(Subagents(s)) <= MaxChains

(* What is spooled and counted once event e of age a is spooled as well.   *)
HeardWith(e, a) ==
    IF e.type = "none" THEN heard
    ELSE [heard EXCEPT ![e.key] =
             [cat |-> IF e.type = "activity" THEN e.cat ELSE @.cat, age |-> a]]
OpenWith(e) ==
    [open EXCEPT ![e.id] = CASE e.type = "verification_started" -> TRUE
                             [] e.type = "verification_finished" -> FALSE
                             [] OTHER -> @]
ToldWith(e) ==
    CASE e.type = "verification_finished" -> [told EXCEPT !.runs = @ + 1]
      [] e.type = "commit" -> [told EXCEPT !.commits = @ + 1]
      [] OTHER -> told

(* State s agrees with what is spooled: its running verifications are      *)
(* open, its chains remember their last events, its counters are right.    *)
Agrees(s, h, o, t) ==
    /\ \A k \in DOMAIN s.chains : s.chains[k].mark.kind = "test" => o[k]
    /\ \A k \in DOMAIN s.chains : s.chains[k].cat # "none" =>
          h[k] = [cat |-> s.chains[k].cat, age |-> s.chains[k].at]
    /\ ~swept => s.runs = t.runs /\ s.commits = t.commits

HookOK(x) == /\ x \in Hooks /\ GoodState(x.mem)
             /\ x.pc # "idle" =>
                   /\ x.what \in Fires
                   /\ x.what \in MainEvents => x.agent = Main
                   /\ x.agent = Main => x.on
                   /\ x.what \in {"SubagentStart", "SubagentStop"} => x.agent # Main

Typed ==
    /\ scratch = NoFile \/ GoodState(scratch)
    /\ lock \in Hook \cup {Nobody} /\ aged \in BOOLEAN /\ sweep \in BOOLEAN
    /\ DOMAIN hook = Hook /\ \A h \in Hook : HookOK(hook[h])
    /\ heard \in [Key -> [cat : Cats, age : Age]] /\ open \in [Agent -> BOOLEAN]
    /\ told \in [runs : Nat, commits : Nat] /\ cut \in BOOLEAN /\ swept \in BOOLEAN

Owner == \A h \in Hook : hook[h].pc \in {"loaded", "saved"} <=> lock = h

Free == lock = Nobody /\ scratch # NoFile /\ ~cut => Agrees(scratch, heard, open, told)
Loaded(x) == x.pc = "loaded" /\ ~cut => Agrees(x.mem, heard, open, told)
Saved(x) ==
    x.pc = "saved" /\ ~cut =>
        /\ x.event.type = "verification_finished" => open[x.event.id]
        /\ scratch # NoFile => Agrees(scratch, HeardWith(x.event, x.age), OpenWith(x.event),
                                      ToldWith(x.event))

IInv == Typed /\ Owner /\ Free /\ \A h \in Hook : Loaded(hook[h]) /\ Saved(hook[h])

-----------------------------------------------------------------------------
(* The operators on states.                                                *)

LEMMA Constants ==
    /\ Main \in Agent /\ Main \in Key /\ Overflow \in Key /\ Overflow \notin Agent
    /\ Agent \subseteq Key /\ Helper \subseteq Agent
    /\ Old \in Nat /\ Lag \in 0..Old /\ 0..Lag \subseteq Age /\ Old \in Age
BY SessionAssumption DEF Agent, Key, Old, Age

(* What a state's fields are.                                              *)
LEMMA StateFields ==
    ASSUME NEW s \in State
    PROVE  /\ s.runs \in Nat /\ s.commits \in Nat /\ s.perm \in Age /\ s.label \in BOOLEAN
           /\ DOMAIN s.chains \subseteq Key /\ s.chains \in [DOMAIN s.chains -> Chain]
           /\ s # NoFile
<1>1. PICK D \in SUBSET Key : s.chains \in [D -> Chain]
  BY DEF State
<1>2. s # NoFile
  <2>1. "runs" \in DOMAIN s
    BY DEF State
  <2>2. "runs" \notin DOMAIN NoFile
    BY DEF NoFile
  <2> QED BY <2>1, <2>2
<1> QED BY <1>1, <1>2 DEF State

LEMMA NewFields == NewChain \in Chain /\ NewChain.mark.kind = "none" /\ NewChain.cat = "none"
BY Constants DEF NewChain, Chain, Cats, Mark, NoMark

LEMMA NewStateGood == GoodState(NewState)
<1>1. NewState.chains = [k \in {Main} |-> NewChain] /\ DOMAIN NewState.chains = {Main}
  BY DEF NewState
<1>2. NewState \in State
  <2> DEFINE m == [k \in {Main} |-> NewChain]
  <2>1. {Main} \in SUBSET Key /\ m \in [{Main} -> Chain]
    BY NewFields, Constants
  <2>2. m \in UNION {[D -> Chain] : D \in SUBSET Key}
    BY <2>1
  <2> HIDE DEF m
  <2> QED BY <2>2, Constants DEF NewState, State, m
<1>3. Subagents(NewState) = {}
  BY <1>1, SessionAssumption DEF Subagents
<1>4. IsFiniteSet(Subagents(NewState)) /\ Cardinality(Subagents(NewState)) <= MaxChains
  BY <1>3, FS_EmptySet, SessionAssumption
<1>5. Marks(NewState)
  BY <1>1, NewFields DEF Marks, OwnMark
<1> QED BY <1>1, <1>2, <1>4, <1>5 DEF GoodState

(* A state with the same scalars and other chains.                         *)
LEMMA WithChains ==
    ASSUME NEW s \in State, NEW D \in SUBSET Key, NEW m \in [D -> Chain],
           NEW t, t = [s EXCEPT !.chains = m]
    PROVE  /\ t \in State /\ t.chains = m /\ t.runs = s.runs /\ t.commits = s.commits
           /\ t.perm = s.perm /\ t.label = s.label
BY DEF State

(* Chains that are dropped.                                                *)
Without(s, S) == [s EXCEPT !.chains = [k \in DOMAIN @ \ S |-> @[k]]]

LEMMA Dropped ==
    ASSUME NEW s, GoodState(s), NEW S \in SUBSET Helper
    PROVE  /\ GoodState(Without(s, S)) /\ Without(s, S).runs = s.runs
           /\ Without(s, S).commits = s.commits
           /\ DOMAIN Without(s, S).chains = DOMAIN s.chains \ S
           /\ \A k \in DOMAIN Without(s, S).chains : Without(s, S).chains[k] = s.chains[k]
<1> DEFINE m == [k \in DOMAIN s.chains \ S |-> s.chains[k]]
           t == [s EXCEPT !.chains = m]
<1>1. s \in State /\ Main \in DOMAIN s.chains /\ Main \notin S
  BY SessionAssumption DEF GoodState
<1>2. /\ DOMAIN s.chains \ S \subseteq Key /\ m \in [DOMAIN s.chains \ S -> Chain]
      /\ DOMAIN m = DOMAIN s.chains \ S /\ \A k \in DOMAIN m : m[k] = s.chains[k]
  BY <1>1, StateFields
<1> HIDE DEF m
<1>3. /\ t \in State /\ t.chains = m /\ t.runs = s.runs /\ t.commits = s.commits
      /\ t.perm = s.perm /\ t.label = s.label
  BY <1>1, <1>2, WithChains
<1> HIDE DEF t
<1>4. Subagents(t) \subseteq Subagents(s)
  BY <1>2, <1>3 DEF Subagents
<1>5. IsFiniteSet(Subagents(t)) /\ Cardinality(Subagents(t)) <= Cardinality(Subagents(s))
  BY <1>4, FS_Subset DEF GoodState
<1>6. Cardinality(Subagents(t)) <= MaxChains
  BY <1>5, FS_CardinalityType, SessionAssumption DEF GoodState
<1>7. Marks(t)
  BY <1>2, <1>3 DEF GoodState, Marks
<1>8. Without(s, S) = t
  BY DEF Without, t, m
<1> QED BY <1>1, <1>2, <1>3, <1>5, <1>6, <1>7, <1>8 DEF GoodState

(* Only chain k has another value: whoever writes answers for its mark.    *)
Edits(s, t, k) ==
    /\ t \in State /\ DOMAIN t.chains = DOMAIN s.chains
    /\ \A j \in DOMAIN s.chains : j # k => t.chains[j] = s.chains[j]

LEMMA EditGood ==
    ASSUME NEW s, GoodState(s), NEW k \in DOMAIN s.chains, NEW t, Edits(s, t, k),
           OwnMark(k, t.chains[k].mark)
    PROVE  GoodState(t)
<1>1. Subagents(t) = Subagents(s)
  BY DEF Subagents, Edits
<1>2. Marks(t)
  BY DEF Marks, GoodState, Edits
<1> QED BY <1>1, <1>2 DEF GoodState, Edits

(* A chain's fields, written one at a time.                                *)
SetMark(s, k, M) == [s EXCEPT !.chains[k].mark = M]
SetAt(s, k, a) == [s EXCEPT !.chains[k].at = a]
SetCat(s, k, cat) == [s EXCEPT !.chains[k].cat = cat]

LEMMA WriteMark ==
    ASSUME NEW s \in State, NEW k \in DOMAIN s.chains, NEW M \in Mark
    PROVE  LET t == SetMark(s, k, M) IN
           /\ Edits(s, t, k) /\ t.runs = s.runs /\ t.commits = s.commits
           /\ t.chains[k].mark = M /\ t.chains[k].cat = s.chains[k].cat
           /\ t.chains[k].at = s.chains[k].at
<1> DEFINE t == SetMark(s, k, M)
           n == [s.chains[k] EXCEPT !.mark = M]
           m == [s.chains EXCEPT ![k] = n]
<1>1. DOMAIN s.chains \in SUBSET Key /\ s.chains \in [DOMAIN s.chains -> Chain]
  BY StateFields
<1>2. n \in Chain /\ n.mark = M /\ n.cat = s.chains[k].cat /\ n.at = s.chains[k].at
  BY <1>1 DEF Chain
<1> HIDE DEF n
<1>3. m \in [DOMAIN s.chains -> Chain] /\ m[k] = n
      /\ \A j \in DOMAIN s.chains : j # k => m[j] = s.chains[j]
  BY <1>1, <1>2
<1>4. t = [s EXCEPT !.chains = m]
  BY DEF n, SetMark
<1> HIDE DEF m, t
<1>5. t \in State /\ t.chains = m /\ t.runs = s.runs /\ t.commits = s.commits
  BY <1>1, <1>3, <1>4, WithChains
<1> QED BY <1>1, <1>2, <1>3, <1>5 DEF Edits, t

LEMMA WriteAt ==
    ASSUME NEW s \in State, NEW k \in DOMAIN s.chains, NEW a \in Age
    PROVE  LET t == SetAt(s, k, a) IN
           /\ Edits(s, t, k) /\ t.runs = s.runs /\ t.commits = s.commits
           /\ t.chains[k].at = a /\ t.chains[k].cat = s.chains[k].cat
           /\ t.chains[k].mark = s.chains[k].mark
<1> DEFINE t == SetAt(s, k, a)
           n == [s.chains[k] EXCEPT !.at = a]
           m == [s.chains EXCEPT ![k] = n]
<1>1. DOMAIN s.chains \in SUBSET Key /\ s.chains \in [DOMAIN s.chains -> Chain]
  BY StateFields
<1>2. n \in Chain /\ n.at = a /\ n.cat = s.chains[k].cat /\ n.mark = s.chains[k].mark
  BY <1>1 DEF Chain
<1> HIDE DEF n
<1>3. m \in [DOMAIN s.chains -> Chain] /\ m[k] = n
      /\ \A j \in DOMAIN s.chains : j # k => m[j] = s.chains[j]
  BY <1>1, <1>2
<1>4. t = [s EXCEPT !.chains = m]
  BY DEF n, SetAt
<1> HIDE DEF m, t
<1>5. t \in State /\ t.chains = m /\ t.runs = s.runs /\ t.commits = s.commits
  BY <1>1, <1>3, <1>4, WithChains
<1> QED BY <1>1, <1>2, <1>3, <1>5 DEF Edits, t

LEMMA WriteCat ==
    ASSUME NEW s \in State, NEW k \in DOMAIN s.chains, NEW cat \in Cats
    PROVE  LET t == SetCat(s, k, cat) IN
           /\ Edits(s, t, k) /\ t.runs = s.runs /\ t.commits = s.commits
           /\ t.chains[k].cat = cat /\ t.chains[k].at = s.chains[k].at
           /\ t.chains[k].mark = s.chains[k].mark
<1> DEFINE t == SetCat(s, k, cat)
           n == [s.chains[k] EXCEPT !.cat = cat]
           m == [s.chains EXCEPT ![k] = n]
<1>1. DOMAIN s.chains \in SUBSET Key /\ s.chains \in [DOMAIN s.chains -> Chain]
  BY StateFields
<1>2. n \in Chain /\ n.cat = cat /\ n.at = s.chains[k].at /\ n.mark = s.chains[k].mark
  BY <1>1 DEF Chain
<1> HIDE DEF n
<1>3. m \in [DOMAIN s.chains -> Chain] /\ m[k] = n
      /\ \A j \in DOMAIN s.chains : j # k => m[j] = s.chains[j]
  BY <1>1, <1>2
<1>4. t = [s EXCEPT !.chains = m]
  BY DEF n, SetCat
<1> HIDE DEF m, t
<1>5. t \in State /\ t.chains = m /\ t.runs = s.runs /\ t.commits = s.commits
  BY <1>1, <1>3, <1>4, WithChains
<1> QED BY <1>1, <1>2, <1>3, <1>5 DEF Edits, t

(* A state's own fields.                                                   *)
LEMMA WriteScalars ==
    ASSUME NEW s \in State, NEW runs \in Nat, NEW commits \in Nat, NEW perm \in Age,
           NEW label \in BOOLEAN, NEW k
    PROVE  /\ Edits(s, [s EXCEPT !.runs = runs], k)
           /\ Edits(s, [s EXCEPT !.commits = commits], k)
           /\ Edits(s, [s EXCEPT !.perm = perm], k)
           /\ Edits(s, [s EXCEPT !.label = label], k)
BY DEF Edits, State

(* The fields of a hook that a classification reads.                       *)
LEMMA ChainIDs ==
    ASSUME NEW x, HookOK(x)
    PROVE  /\ ChainID(x) \in Agent /\ x.agent \in Agent /\ x.age \in 0..Lag /\ x.age \in Age
           /\ x.on \in BOOLEAN
           /\ ChainID(x) # Main => ChainID(x) = x.agent
BY Constants DEF HookOK, Hooks, ChainID

(* c has the chains that s has, and chain k, which may be new.             *)
From(s, c, k) ==
    /\ GoodState(c) /\ k \in DOMAIN c.chains
    /\ c.runs = s.runs /\ c.commits = s.commits
    /\ \A j \in DOMAIN c.chains :
          \/ j \in DOMAIN s.chains /\ c.chains[j] = s.chains[j]
          \/ j = k /\ c.chains[j] = NewChain

(* SessionState.chain: the chain a hook works on is its own or Overflow,   *)
(* as it was or new; the others are as they were.                          *)
LEMMA ChainedFrom ==
    ASSUME NEW s, GoodState(s), NEW x, HookOK(x)
    PROVE  From(s, Chained(s, x), KeyOf(s, x)) /\ KeyOf(s, x) \in {ChainID(x), Overflow}
<1> DEFINE id == ChainID(x)
           k == KeyOf(s, x)
           r == Room(s, x)
<1>1. id \in Agent /\ k \in {id, Overflow} /\ k \in Key
  BY ChainIDs, Constants DEF KeyOf
<1>2. /\ GoodState(r) /\ r.runs = s.runs /\ r.commits = s.commits
      /\ DOMAIN r.chains \subseteq DOMAIN s.chains
      /\ \A j \in DOMAIN r.chains : r.chains[j] = s.chains[j]
  <2>1. CASE r = s
    BY <2>1
  <2>2. CASE r = [s EXCEPT !.chains = [j \in DOMAIN @ \ IdleChains(s, x) |-> @[j]]]
    <3>1. IdleChains(s, x) \in SUBSET Helper /\ r = Without(s, IdleChains(s, x))
      BY <2>2 DEF IdleChains, Subagents, Without
    <3> HIDE DEF r
    <3> QED BY <3>1, Dropped
  <2> QED BY <2>1, <2>2 DEF Room, Cleared
<1>3. k \notin DOMAIN r.chains => k \notin Helper \/ Cardinality(Subagents(r)) < MaxChains
  BY Constants DEF KeyOf, Fits
<1>4. Chained(s, x) = WithKey(r, k)
  BY DEF Chained
<1> HIDE DEF r, k, id
<1>5. CASE k \in DOMAIN r.chains
  BY <1>1, <1>2, <1>4, <1>5 DEF From, WithKey, k, id
<1>6. CASE k \notin DOMAIN r.chains
  <2> DEFINE D == DOMAIN r.chains \cup {k}
             m == [j \in D |-> IF j = k THEN NewChain ELSE r.chains[j]]
             c == [r EXCEPT !.chains = m]
  <2>1. r \in State /\ D \in SUBSET Key
    BY <1>1, <1>2, StateFields DEF GoodState
  <2>2. m \in [D -> Chain] /\ DOMAIN m = D
        /\ \A j \in D : m[j] = IF j = k THEN NewChain ELSE r.chains[j]
    BY <2>1, NewFields, StateFields
  <2>3. Chained(s, x) = c
    BY <1>4, <1>6 DEF WithKey
  <2> HIDE DEF m
  <2>4. c \in State /\ c.chains = m /\ c.runs = r.runs /\ c.commits = r.commits
    BY <2>1, <2>2, WithChains
  <2> HIDE DEF c
  <2>5. Main \in DOMAIN c.chains /\ Marks(c)
    BY <1>2, <2>2, <2>4, NewFields DEF GoodState, Marks, OwnMark
  <2>6. IsFiniteSet(Subagents(c)) /\ Cardinality(Subagents(c)) <= MaxChains
    <3>1. CASE k \in Helper
      <4>1. Subagents(c) = Subagents(r) \cup {k} /\ k \notin Subagents(r)
        BY <1>6, <2>2, <2>4, <3>1 DEF Subagents
      <4>2. IsFiniteSet(Subagents(r)) /\ Cardinality(Subagents(r)) \in Nat
        BY <1>2, FS_CardinalityType DEF GoodState
      <4>3. IsFiniteSet(Subagents(c)) /\ Cardinality(Subagents(c)) = Cardinality(Subagents(r)) + 1
        BY <4>1, <4>2, FS_AddElement
      <4> QED BY <1>3, <1>6, <3>1, <4>2, <4>3, SessionAssumption
    <3>2. CASE k \notin Helper
      <4>1. Subagents(c) = Subagents(r)
        BY <2>2, <2>4, <3>2 DEF Subagents
      <4> QED BY <1>2, <4>1 DEF GoodState
    <3> QED BY <3>1, <3>2
  <2>7. GoodState(c)
    BY <2>4, <2>5, <2>6 DEF GoodState
  <2> QED BY <1>1, <1>2, <1>6, <2>2, <2>3, <2>4, <2>7 DEF From, k, id
<1> QED BY <1>5, <1>6

-----------------------------------------------------------------------------
(* Classify.                                                               *)

Counts(s, r) ==
    /\ r.state.runs = s.runs + IF r.event.type = "verification_finished" THEN 1 ELSE 0
    /\ r.state.commits = s.commits + IF r.event.type = "commit" THEN 1 ELSE 0

Resolving == {"verification_finished", "commit", "input_resolved"}

(* What hook x makes of state c in chain k.                                *)
Turned(c, x, k, r) ==
    LET n == r.state.chains[k]
        o == c.chains[k]
        e == r.event
    IN  /\ Edits(c, r.state, k) /\ e \in Event /\ Counts(c, r)
        /\ OwnMark(k, n.mark)
        /\ e.type = "none" => n.cat = o.cat /\ n.at = o.at
        /\ e.type # "none" =>
              /\ e.key = k /\ e.id = ChainID(x) /\ n.at = x.age
              /\ n.cat = IF e.type = "activity" THEN e.cat ELSE o.cat
        /\ n.mark.kind = "test" =>
              \/ e.type = "verification_started"
              \/ e.type # "verification_finished" /\ o.mark.kind = "test"
        /\ e.type = "verification_finished" => o.mark.kind = "test"
        /\ e.type = "verification_started" => k # Overflow
        /\ e.type \in Resolving => k # Overflow /\ o.mark.kind # "none"

(* Chain k of the state r is left with, told by that of s and the event.   *)
Follows(s, x, r, k) ==
    LET n == r.state.chains[k]
        o == s.chains[k]
        e == r.event
    IN  /\ n.mark.kind = "test" =>
              \/ e.type = "verification_started" /\ e.id = k
              \/ /\ k \in DOMAIN s.chains /\ o.mark.kind = "test"
                 /\ ~(e.type = "verification_finished" /\ e.id = k)
        /\ n.cat # "none" =>
              IF e.type # "none" /\ k = e.key
              THEN /\ n.at = x.age
                   /\ IF e.type = "activity" THEN n.cat = e.cat
                      ELSE k \in DOMAIN s.chains /\ n.cat = o.cat
              ELSE k \in DOMAIN s.chains /\ n.cat = o.cat /\ n.at = o.at

(* What a classification does, whatever the hook.                          *)
Result(s, x, r) ==
    /\ GoodState(r.state) /\ r.event \in Event /\ Counts(s, r)
    /\ \A k \in DOMAIN r.state.chains : Follows(s, x, r, k)
    /\ r.event.type = "verification_finished" =>
          r.event.id \in DOMAIN s.chains /\ s.chains[r.event.id].mark.kind = "test"
    /\ r.event.type \in Resolving =>
          /\ r.event.key = ChainID(x) /\ r.event.key \in DOMAIN s.chains
          /\ s.chains[r.event.key].mark.kind # "none"

LEMMA TurnedResult ==
    ASSUME NEW s, GoodState(s), NEW x, HookOK(x), NEW c, NEW k,
           From(s, c, k), k \in {ChainID(x), Overflow}, NEW r, Turned(c, x, k, r)
    PROVE  Result(s, x, r)
<1>1. /\ Edits(c, r.state, k) /\ GoodState(c) /\ k \in DOMAIN c.chains
      /\ DOMAIN r.state.chains = DOMAIN c.chains
  BY DEF Turned, Edits, From
<1>2. GoodState(r.state)
  BY <1>1, EditGood DEF Turned
<1>3. r.event \in Event /\ Counts(s, r)
  BY DEF Turned, Counts, From
<1>4. ASSUME NEW j \in DOMAIN r.state.chains PROVE Follows(s, x, r, j)
  <2>1. j # k => /\ r.state.chains[j] = s.chains[j] /\ j \in DOMAIN s.chains
                 /\ r.event.type # "none" => j # r.event.key
                 /\ r.event.type = "verification_finished" => r.event.id # j
    BY <1>1 DEF Edits, From, Turned, Resolving
  <2>2. CASE j # k
    BY <2>1, <2>2 DEF Follows
  <2>3. CASE j = k
    <3>1. \/ k \in DOMAIN s.chains /\ c.chains[k] = s.chains[k]
          \/ c.chains[k].mark.kind = "none" /\ c.chains[k].cat = "none"
      BY <1>1, NewFields DEF From
    <3> QED BY <2>3, <3>1 DEF Follows, Turned
  <2> QED BY <2>2, <2>3
<1>5. r.event.type \in Resolving =>
         /\ k = ChainID(x) /\ r.event.key = k /\ r.event.id = k
         /\ k \in DOMAIN s.chains /\ s.chains[k] = c.chains[k]
         /\ s.chains[k].mark.kind # "none"
  BY <1>1, NewFields DEF Turned, From, Resolving
<1> QED BY <1>2, <1>3, <1>4, <1>5 DEF Result, Resolving, Turned

(* The chain as the classification finds it, but for its mark.             *)
Based(c, p, k) ==
    /\ Edits(c, p, k) /\ OwnMark(k, p.chains[k].mark)
    /\ p.chains[k].cat = c.chains[k].cat /\ p.chains[k].at = c.chains[k].at

LEMMA EmitTurned ==
    ASSUME NEW c, GoodState(c), NEW x, HookOK(x), NEW k \in DOMAIN c.chains,
           k \in {ChainID(x), Overflow}, NEW p, Based(c, p, k),
           NEW type \in Types \ {"none", "activity"}, NEW cat \in Cats \cup {"label"},
           p.runs = c.runs + IF type = "verification_finished" THEN 1 ELSE 0,
           p.commits = c.commits + IF type = "commit" THEN 1 ELSE 0,
           p.chains[k].mark.kind = "test" => \/ type = "verification_started"
                                             \/ /\ type # "verification_finished"
                                                /\ c.chains[k].mark.kind = "test",
           type = "verification_finished" => c.chains[k].mark.kind = "test",
           type = "verification_started" => k # Overflow,
           type \in Resolving => k # Overflow /\ c.chains[k].mark.kind # "none"
    PROVE  Turned(c, x, k, Emit(p, x, k, type, cat))
<1> DEFINE t == SetAt(p, k, x.age)
           r == Emit(p, x, k, type, cat)
<1>1. /\ r.state = t /\ r.event = [type |-> type, key |-> k, id |-> ChainID(x), cat |-> cat]
  BY DEF Emit, SetAt
<1>2. x.age \in Age /\ ChainID(x) \in Agent /\ k \in Key
  BY ChainIDs, Constants
<1>3. r.event \in Event
  BY <1>1, <1>2 DEF Event
<1>4. p \in State /\ k \in DOMAIN p.chains
  BY DEF Based, Edits
<1>5. /\ Edits(p, t, k) /\ t.runs = p.runs /\ t.commits = p.commits
      /\ t.chains[k].at = x.age /\ t.chains[k].cat = p.chains[k].cat
      /\ t.chains[k].mark = p.chains[k].mark
  BY <1>2, <1>4, WriteAt
<1> HIDE DEF t, r
<1>6. Edits(c, t, k)
  BY <1>5 DEF Edits, Based
<1> QED BY <1>1, <1>3, <1>5, <1>6 DEF Turned, Based, Counts, r

LEMMA ActivityTurned ==
    ASSUME NEW c, GoodState(c), NEW x, HookOK(x), NEW k \in DOMAIN c.chains,
           k \in {ChainID(x), Overflow}, NEW p, Based(c, p, k),
           NEW cat \in Cats, p.runs = c.runs, p.commits = c.commits,
           p.chains[k].mark.kind # "test"
    PROVE  LET r == Activity(p, x, k, cat) IN
           /\ Turned(c, x, k, r)
           /\ r.event.type = "none" =>
                 c.chains[k].cat = cat /\ Since(c.chains[k].at, x) < Window
<1> DEFINE r == Activity(p, x, k, cat)
<1>1. c \in State /\ c.runs \in Nat /\ c.commits \in Nat
  BY StateFields DEF GoodState
<1>2. CASE p.chains[k].cat = cat /\ Since(p.chains[k].at, x) < Window
  <2>1. r.state = p /\ r.event = NoEvent
    BY <1>2 DEF Activity, Quiet
  <2>2. NoEvent \in Event /\ NoEvent.type = "none"
    BY Constants DEF NoEvent, Event, Types, Cats
  <2> HIDE DEF r
  <2> QED BY <1>1, <1>2, <2>1, <2>2 DEF Turned, Based, Counts, Resolving, r
<1>3. CASE ~(p.chains[k].cat = cat /\ Since(p.chains[k].at, x) < Window)
  <2> DEFINE q == SetAt(p, k, x.age)
             t == SetCat(q, k, cat)
  <2>1. /\ r.state = t
        /\ r.event = [type |-> "activity", key |-> k, id |-> ChainID(x), cat |-> cat]
    BY <1>3 DEF Activity, Emit, SetAt, SetCat
  <2>2. x.age \in Age /\ ChainID(x) \in Agent /\ k \in Key
    BY ChainIDs, Constants
  <2>3. r.event \in Event
    BY <2>1, <2>2 DEF Event, Types
  <2>4. p \in State /\ k \in DOMAIN p.chains
    BY DEF Based, Edits
  <2>5. /\ Edits(p, q, k) /\ q.runs = p.runs /\ q.commits = p.commits
        /\ q.chains[k].at = x.age /\ q.chains[k].mark = p.chains[k].mark
    BY <2>2, <2>4, WriteAt
  <2> HIDE DEF q
  <2>6. q \in State /\ k \in DOMAIN q.chains
    BY <2>4, <2>5 DEF Edits
  <2>7. /\ Edits(q, t, k) /\ t.runs = q.runs /\ t.commits = q.commits
        /\ t.chains[k].at = x.age /\ t.chains[k].mark = p.chains[k].mark
        /\ t.chains[k].cat = cat
    BY <2>5, <2>6, WriteCat
  <2> HIDE DEF t, r
  <2>8. Edits(c, t, k)
    BY <2>5, <2>7 DEF Edits, Based
  <2> QED BY <1>1, <2>1, <2>3, <2>5, <2>7, <2>8 DEF Turned, Based, Counts, Resolving, r
<1> QED BY <1>2, <1>3

(* A chain rid of its mark, and marked again by a hook whose own it is.    *)
LEMMA MarksBased ==
    ASSUME NEW c, GoodState(c), NEW x, HookOK(x), NEW k \in DOMAIN c.chains,
           k \in {ChainID(x), Overflow}
    PROVE  LET none == [c EXCEPT !.chains[k].mark = NoMark] IN
           /\ Based(c, none, k) /\ none.runs = c.runs /\ none.commits = c.commits
           /\ none.chains[k].mark.kind = "none"
           /\ \A kind \in {"ask", "test", "Commit", "PR"} :
                 LET p == Marked(none, x, k, kind) IN
                 /\ Based(c, p, k) /\ p.runs = c.runs /\ p.commits = c.commits
                 /\ p.chains[k].mark.kind \in {"none", kind}
<1> DEFINE none == SetMark(c, k, NoMark)
<1>1. c \in State /\ NoMark \in Mark /\ NoMark.kind = "none"
  BY Constants DEF GoodState, NoMark, Mark
<1>2. /\ Edits(c, none, k) /\ none.runs = c.runs /\ none.commits = c.commits
      /\ none.chains[k].mark = NoMark
      /\ none.chains[k].cat = c.chains[k].cat /\ none.chains[k].at = c.chains[k].at
  BY <1>1, WriteMark
<1>3. none = [c EXCEPT !.chains[k].mark = NoMark]
  BY DEF SetMark
<1> HIDE DEF none
<1>4. Based(c, none, k)
  BY <1>1, <1>2 DEF Based, OwnMark
<1>5. ASSUME NEW kind \in {"ask", "test", "Commit", "PR"}
      PROVE  LET p == Marked(none, x, k, kind) IN
             /\ Based(c, p, k) /\ p.runs = c.runs /\ p.commits = c.commits
             /\ p.chains[k].mark.kind \in {"none", kind}
  <2>1. CASE ~Tracks(k)
    BY <1>1, <1>2, <1>4, <2>1 DEF Marked
  <2>2. CASE Tracks(k)
    <3> DEFINE M == [kind |-> kind, by |-> x.agent]
               p == SetMark(none, k, M)
    <3>1. M \in Mark /\ M.kind = kind /\ M.by = x.agent
      BY ChainIDs DEF Mark
    <3>2. none \in State /\ k \in DOMAIN none.chains
      BY <1>2 DEF Edits
    <3>3. Marked(none, x, k, kind) = p
      BY <2>2 DEF Marked, SetMark
    <3> HIDE DEF M
    <3>4. /\ Edits(none, p, k) /\ p.runs = none.runs /\ p.commits = none.commits
          /\ p.chains[k].mark = M /\ p.chains[k].cat = none.chains[k].cat
          /\ p.chains[k].at = none.chains[k].at
      BY <3>1, <3>2, WriteMark
    <3> HIDE DEF p
    <3>5. OwnMark(k, M)
      BY <2>2, <3>1, ChainIDs DEF OwnMark, Tracks
    <3> QED BY <1>2, <3>1, <3>3, <3>4, <3>5 DEF Based, Edits
  <2> QED BY <2>1, <2>2
<1> QED BY <1>2, <1>1, <1>3, <1>4, <1>5

Tools == {"Read", "Edit", "Other", "Ask", "Test", "PR", "Commit"}

LEMMA PreTurned ==
    ASSUME NEW c, GoodState(c), NEW x, HookOK(x), NEW k \in DOMAIN c.chains,
           k \in {ChainID(x), Overflow}, NEW tool \in Tools
    PROVE  LET r == PreToolUse(c, x, k, tool) IN
           /\ Turned(c, x, k, r)
           /\ tool \in {"Read", "Edit"} /\ r.event.type = "none" =>
                 c.chains[k].cat = tool /\ Since(c.chains[k].at, x) < Window
<1> DEFINE none == [c EXCEPT !.chains[k].mark = NoMark]
<1>1. /\ Based(c, none, k) /\ none.runs = c.runs /\ none.commits = c.commits
      /\ none.chains[k].mark.kind = "none"
      /\ \A kind \in {"ask", "test", "Commit", "PR"} :
            LET p == Marked(none, x, k, kind) IN
            /\ Based(c, p, k) /\ p.runs = c.runs /\ p.commits = c.commits
            /\ p.chains[k].mark.kind \in {"none", kind}
  BY MarksBased
<1>2. c.runs \in Nat /\ c.commits \in Nat
  BY StateFields DEF GoodState
<1> HIDE DEF none
<1>3. CASE tool \in {"Read", "Edit", "Other"}
  <2>1. PreToolUse(c, x, k, tool) = Activity(none, x, k, tool)
    BY <1>3 DEF PreToolUse, none
  <2> QED BY <1>1, <1>3, <2>1, ActivityTurned DEF Cats
<1>4. CASE tool = "Ask"
  <2>1. PreToolUse(c, x, k, tool) = Emit(Marked(none, x, k, "ask"), x, k, "needs_input", "none")
    BY <1>4 DEF PreToolUse, none
  <2> QED BY <1>1, <1>2, <1>4, <2>1, EmitTurned DEF Cats, Types, Resolving
<1>5. CASE tool = "Test"
  <2>1. CASE Tracks(k)
    <3>1. PreToolUse(c, x, k, tool)
          = Emit(Marked(none, x, k, "test"), x, k, "verification_started", "none")
      BY <1>5, <2>1 DEF PreToolUse, none
    <3> QED BY <1>1, <1>2, <1>5, <2>1, <3>1, EmitTurned DEF Cats, Types, Resolving, Tracks
  <2>2. CASE ~Tracks(k)
    <3>1. PreToolUse(c, x, k, tool) = Activity(none, x, k, "Other")
      BY <1>5, <2>2 DEF PreToolUse, none
    <3> QED BY <1>1, <1>5, <3>1, ActivityTurned DEF Cats
  <2> QED BY <2>1, <2>2
<1>6. CASE tool \in {"PR", "Commit"}
  <2>1. PreToolUse(c, x, k, tool) = Activity(Marked(none, x, k, tool), x, k, "Other")
    BY <1>6 DEF PreToolUse, none
  <2> QED BY <1>1, <1>6, <2>1, ActivityTurned DEF Cats
<1> QED BY <1>3, <1>4, <1>5, <1>6 DEF Tools

LEMMA PostTurned ==
    ASSUME NEW c, GoodState(c), NEW x, HookOK(x), NEW k \in DOMAIN c.chains,
           k \in {ChainID(x), Overflow}, NEW r \in PostToolUse(c, x, k)
    PROVE  Turned(c, x, k, r)
<1> DEFINE free == [c EXCEPT !.chains[k].mark = NoMark]
           kind == c.chains[k].mark.kind
<1>1. /\ Based(c, free, k) /\ free.runs = c.runs /\ free.commits = c.commits
      /\ free.chains[k].mark.kind = "none"
  BY MarksBased
<1>2. /\ c \in State /\ c.runs \in Nat /\ c.commits \in Nat /\ c.chains[k] \in Chain
      /\ free \in State /\ DOMAIN free.chains = DOMAIN c.chains
  BY <1>1, StateFields DEF GoodState, Based, Edits
<1>3. kind \in {"none", "ask", "test", "Commit", "PR"}
  BY <1>2 DEF Chain, Mark
<1>4. Consumed(c, k) = free
  BY DEF Consumed
<1> HIDE DEF free
<1>5. ASSUME NEW p \in State, p.chains = free.chains PROVE Based(c, p, k)
  BY <1>1, <1>5 DEF Based, Edits
<1>6. CASE r = Quiet(c) /\ (~Tracks(k) \/ kind = "none")
  BY <1>2, <1>6, Constants
     DEF Turned, Quiet, Counts, NoEvent, Event, Types, Cats, Resolving, Edits, GoodState,
         Marks
<1>7. CASE r = Quiet(free)
  BY <1>1, <1>2, <1>7, Constants
     DEF Turned, Quiet, Counts, NoEvent, Event, Types, Cats, Resolving, Based
<1>8. CASE Tracks(k) /\ kind = "test"
  <2> DEFINE p == [free EXCEPT !.runs = @ + 1]
  <2>1. r = Emit(p, x, k, "verification_finished", "none")
    BY <1>4, <1>8 DEF PostToolUse
  <2>2. p \in State /\ p.chains = free.chains /\ p.runs = c.runs + 1 /\ p.commits = c.commits
    BY <1>1, <1>2 DEF State
  <2> HIDE DEF p
  <2> QED BY <1>1, <1>2, <1>5, <1>8, <2>1, <2>2, EmitTurned DEF Cats, Types, Resolving, Tracks
<1>9. CASE Tracks(k) /\ kind = "Commit"
  <2> DEFINE p == [free EXCEPT !.commits = @ + 1]
  <2>1. r = Emit(p, x, k, "commit", "none")
    BY <1>4, <1>9 DEF PostToolUse
  <2>2. p \in State /\ p.chains = free.chains /\ p.runs = c.runs /\ p.commits = c.commits + 1
    BY <1>1, <1>2 DEF State
  <2> HIDE DEF p
  <2> QED BY <1>1, <1>2, <1>5, <1>9, <2>1, <2>2, EmitTurned DEF Cats, Types, Resolving, Tracks
<1>10. CASE Tracks(k) /\ kind = "PR" /\ r = Emit(free, x, k, "pr_created", "none")
  BY <1>1, <1>2, <1>10, EmitTurned DEF Cats, Types, Resolving, Tracks
<1>11. CASE Tracks(k) /\ kind = "ask" /\ r = Emit(free, x, k, "input_resolved", "none")
  BY <1>1, <1>2, <1>11, EmitTurned DEF Cats, Types, Resolving, Tracks
<1>12. CASE ~Tracks(k) \/ kind = "none"
  <2>1. r = Quiet(c)
    <3>1. ~Tracks(k) => kind = "none"
      BY <1>2 DEF GoodState, Marks, OwnMark, Tracks
    <3> QED BY <1>12, <3>1 DEF PostToolUse
  <2> QED BY <1>6, <1>12, <2>1
<1>13. CASE Tracks(k) /\ kind = "PR"
  <2>1. r = Emit(free, x, k, "pr_created", "none") \/ r = Quiet(free)
    BY <1>4, <1>13 DEF PostToolUse
  <2> QED BY <1>7, <1>10, <1>13, <2>1
<1>14. CASE Tracks(k) /\ kind = "ask"
  <2>1. r = Emit(free, x, k, "input_resolved", "none")
    BY <1>4, <1>14 DEF PostToolUse
  <2> QED BY <1>11, <1>14, <2>1
<1> QED BY <1>3, <1>8, <1>9, <1>12, <1>13, <1>14

(* An event whose chain keeps its mark, and no event.                      *)
LEMMA PlainTurned ==
    ASSUME NEW c, GoodState(c), NEW x, HookOK(x), NEW k \in DOMAIN c.chains,
           k \in {ChainID(x), Overflow}, NEW p, Edits(c, p, k), p.chains = c.chains,
           p.runs = c.runs, p.commits = c.commits,
           NEW type \in Types \ ({"none", "activity", "verification_started"} \cup Resolving),
           NEW cat \in Cats \cup {"label"}
    PROVE  Turned(c, x, k, Emit(p, x, k, type, cat))
<1>1. c.runs \in Nat /\ c.commits \in Nat /\ OwnMark(k, c.chains[k].mark)
  BY StateFields DEF GoodState, Marks
<1>2. Based(c, p, k)
  BY <1>1 DEF Based
<1> QED BY <1>1, <1>2, EmitTurned DEF Resolving

LEMMA QuietTurned ==
    ASSUME NEW c, GoodState(c), NEW x, NEW k \in DOMAIN c.chains
    PROVE  Turned(c, x, k, Quiet(c))
<1>1. c \in State /\ c.runs \in Nat /\ c.commits \in Nat /\ OwnMark(k, c.chains[k].mark)
  BY StateFields DEF GoodState, Marks
<1>2. NoEvent \in Event /\ NoEvent.type = "none"
  BY Constants DEF NoEvent, Event, Types, Cats
<1> QED BY <1>1, <1>2 DEF Turned, Quiet, Counts, Resolving, Edits

(* A subagent's end takes its chain away.                                  *)
LEMMA StopResult ==
    ASSUME NEW s, GoodState(s), NEW x, HookOK(x), ChainID(x) # Main
    PROVE  LET id == ChainID(x) IN
           Result(s, x, [state |-> [s EXCEPT !.chains = [j \in DOMAIN @ \ {id} |-> @[j]]],
                         event |-> [NoEvent EXCEPT !.type = "subagent_stop",
                                                   !.key = id, !.id = id]])
<1> DEFINE id == ChainID(x)
           t == Without(s, {id})
           e == [NoEvent EXCEPT !.type = "subagent_stop", !.key = id, !.id = id]
           r == [state |-> t, event |-> e]
<1>1. id \in Helper /\ id \in Agent /\ id \in Key
  BY ChainIDs, Constants DEF Agent
<1>2. /\ GoodState(t) /\ t.runs = s.runs /\ t.commits = s.commits
      /\ DOMAIN t.chains = DOMAIN s.chains \ {id}
      /\ \A k \in DOMAIN t.chains : t.chains[k] = s.chains[k]
  BY <1>1, Dropped
<1>3. e \in Event /\ e.type = "subagent_stop" /\ e.key = id /\ e.id = id
  BY <1>1 DEF NoEvent, Event, Types, Cats
<1>4. s.runs \in Nat /\ s.commits \in Nat
  BY StateFields DEF GoodState
<1>5. r = [state |-> [s EXCEPT !.chains = [j \in DOMAIN @ \ {id} |-> @[j]]], event |-> e]
  BY DEF Without
<1> HIDE DEF t, e
<1>6. Result(s, x, r)
  BY <1>2, <1>3, <1>4 DEF Result, Counts, Follows, Resolving
<1> QED BY <1>5, <1>6 DEF e

(* Every classification of every hook.                                     *)
LEMMA Classified ==
    ASSUME NEW s, GoodState(s), NEW x, HookOK(x), x.pc # "idle", NEW r \in Classify(s, x)
    PROVE  Result(s, x, r)
<1> DEFINE k == KeyOf(s, x)
           c == Chained(s, x)
           id == ChainID(x)
<1>1. From(s, c, k) /\ k \in {id, Overflow} /\ GoodState(c) /\ k \in DOMAIN c.chains
  BY ChainedFrom DEF From
<1>2. Turned(c, x, k, r) => Result(s, x, r)
  BY <1>1, TurnedResult
<1>3. Turned(s, x, Main, r) /\ id = Main => Result(s, x, r)
  <2>1. From(s, s, Main)
    BY DEF From, GoodState
  <2> QED BY <2>1, TurnedResult
<1>4. Result(s, x, Quiet(s))
  <2>1. /\ Quiet(s).state = s /\ Quiet(s).event = NoEvent /\ NoEvent.type = "none"
        /\ NoEvent \in Event
    BY Constants DEF Quiet, NoEvent, Event, Types, Cats
  <2>2. s.runs \in Nat /\ s.commits \in Nat
    BY StateFields DEF GoodState
  <2> QED BY <2>1, <2>2 DEF Result, Counts, Follows, Resolving
<1>5. s \in State /\ c \in State /\ Main \in DOMAIN s.chains
  BY <1>1 DEF GoodState
<1>6. Turned(s, x, Main, Quiet(s)) /\ Turned(c, x, k, Quiet(c))
  BY <1>1, <1>5, QuietTurned
<1>7. x.what \in Tools \cup {"PostToolUse", "PermissionRequest", "Notification"}
                 \cup MainEvents \cup OtherEvents
  BY FiresAssumption DEF HookOK, ChainEvents, Tools
<1> HIDE DEF k, c, id
<1>8. CASE x.what \in MainEvents
  <2>1. CASE id = Main /\ r \in MainOnly(s, x, x.what)
    <3>1. PICK p \in {s, [s EXCEPT !.label = TRUE], [s EXCEPT !.label = FALSE]} :
             \E cat \in {"none", "label"} : r = Emit(p, x, Main, x.what, cat)
      <4>1. CASE x.what = "UserPromptSubmit"
        BY <2>1, <4>1 DEF MainOnly, Prompted
      <4>2. CASE x.what # "UserPromptSubmit"
        BY <2>1, <4>2 DEF MainOnly
      <4> QED BY <4>1, <4>2
    <3>4. PICK cat \in {"none", "label"} : r = Emit(p, x, Main, x.what, cat)
      BY <3>1
    <3>2. p \in State /\ p.chains = s.chains /\ p.runs = s.runs /\ p.commits = s.commits
      BY <1>5, <3>1 DEF State
    <3>3. Edits(s, p, Main) /\ cat \in Cats \cup {"label"}
      BY <3>2 DEF Edits, Cats
    <3>5. Turned(s, x, Main, r)
      BY <1>5, <1>8, <2>1, <3>2, <3>3, <3>4, PlainTurned DEF id, Types, MainEvents, Resolving
    <3> QED BY <1>3, <2>1, <3>5
  <2>2. CASE id # Main /\ r = Quiet(s)
    BY <1>4, <2>2
  <2>3. Classify(s, x) = IF id = Main THEN MainOnly(s, x, x.what) ELSE {Quiet(s)}
    BY <1>8 DEF Classify, MainEvents, id
  <2> QED BY <2>1, <2>2, <2>3
<1>9. CASE x.what = "PostToolUse"
  <2>1. r \in PostToolUse(c, x, k)
    BY <1>9 DEF Classify, k, c, MainEvents
  <2> QED BY <1>1, <1>2, <2>1, PostTurned DEF id
<1>10. CASE x.what = "PermissionRequest"
  <2>1. r = Emit([c EXCEPT !.perm = x.age], x, k, "needs_input", "none")
    BY <1>10 DEF Classify, k, c, MainEvents
  <2> DEFINE p == [c EXCEPT !.perm = x.age]
  <2>2. p \in State /\ p.chains = c.chains /\ p.runs = c.runs /\ p.commits = c.commits
    BY <1>5, ChainIDs DEF State
  <2>3. Edits(c, p, k)
    BY <2>2 DEF Edits
  <2>4. Turned(c, x, k, Emit(p, x, k, "needs_input", "none"))
    <3> HIDE DEF p
    <3> QED BY <1>1, <2>2, <2>3, PlainTurned DEF id, Types, Cats, Resolving, MainEvents
  <2> QED BY <1>2, <2>1, <2>4
<1>11. CASE x.what = "Notification"
  <2>1. r = Quiet(c) \/ r = Emit(c, x, k, "needs_input", "none")
    BY <1>11 DEF Classify, Notification, k, c, MainEvents
  <2>2. Edits(c, c, k)
    BY <1>5 DEF Edits
  <2>3. Turned(c, x, k, Emit(c, x, k, "needs_input", "none"))
    BY <1>1, <2>2, PlainTurned DEF id, Types, Cats, Resolving, MainEvents
  <2> QED BY <1>2, <1>6, <2>1, <2>3
<1>12. CASE x.what = "StopFailure"
  <2>1. r = Quiet(s) \/ (r = Emit(s, x, Main, "paused", "none") /\ x.agent = Main)
    BY <1>12 DEF Classify, MainEvents
  <2>2. Edits(s, s, Main)
    BY <1>5 DEF Edits
  <2>3. x.agent = Main => id = Main
    BY DEF id, ChainID
  <2>4. id = Main => Turned(s, x, Main, Emit(s, x, Main, "paused", "none"))
    BY <1>5, <2>2, PlainTurned DEF id, Types, Cats, Resolving, MainEvents
  <2> QED BY <1>3, <1>4, <2>1, <2>3, <2>4
<1>13. CASE x.what = "SubagentStart"
  <2>1. r = Quiet(s) \/ r = Emit(c, x, k, "subagent_start", "none")
    BY <1>13 DEF Classify, k, c, MainEvents
  <2>2. Edits(c, c, k)
    BY <1>5 DEF Edits
  <2>3. Turned(c, x, k, Emit(c, x, k, "subagent_start", "none"))
    BY <1>1, <2>2, PlainTurned DEF id, Types, Cats, Resolving, MainEvents
  <2> QED BY <1>2, <1>4, <2>1, <2>3
<1>14. CASE x.what = "SubagentStop"
  <2>1. \/ r = Quiet(s)
        \/ id # Main /\ r = [state |-> [s EXCEPT !.chains = [j \in DOMAIN @ \ {id} |-> @[j]]],
                             event |-> [NoEvent EXCEPT !.type = "subagent_stop",
                                                       !.key = id, !.id = id]]
    BY <1>14 DEF Classify, id, MainEvents
  <2> QED BY <1>4, <2>1, StopResult DEF id
<1>15. CASE x.what \in Tools
  <2>1. r = PreToolUse(c, x, k, x.what)
    BY <1>15 DEF Classify, k, c, MainEvents, Tools
  <2> QED BY <1>1, <1>2, <1>15, <2>1, PreTurned DEF id
<1> QED BY <1>7, <1>8, <1>9, <1>10, <1>11, <1>12, <1>13, <1>14, <1>15 DEF OtherEvents

(* An activity that is not spooled repeats its chain's last one.           *)
LEMMA Suppressed ==
    ASSUME NEW s, GoodState(s), NEW x, HookOK(x), x.what \in {"Read", "Edit"},
           NEW r \in Classify(s, x), r.event.type = "none"
    PROVE  LET k == KeyOf(s, x) IN
           /\ k \in DOMAIN s.chains /\ s.chains[k].cat = x.what
           /\ Since(s.chains[k].at, x) < Window
<1> DEFINE k == KeyOf(s, x)
           c == Chained(s, x)
<1>1. From(s, c, k) /\ k \in {ChainID(x), Overflow} /\ GoodState(c) /\ k \in DOMAIN c.chains
  BY ChainedFrom DEF From
<1>2. r = PreToolUse(c, x, k, x.what)
  BY DEF Classify, MainEvents
<1> HIDE DEF k, c
<1>3. c.chains[k].cat = x.what /\ Since(c.chains[k].at, x) < Window
  BY <1>1, <1>2, PreTurned DEF Tools
<1>4. c.chains[k].cat # "none"
  BY <1>3
<1>5. k \in DOMAIN s.chains /\ c.chains[k] = s.chains[k]
  BY <1>1, <1>4, NewFields DEF From
<1> QED BY <1>3, <1>5 DEF k

-----------------------------------------------------------------------------
(* The passing of time.                                                    *)

LEMMA OlderAge == \A a \in Age : Older(a) \in Age
BY Constants DEF Older, Age

LEMMA OlderGood ==
    ASSUME NEW s, GoodState(s)
    PROVE  LET t == OlderState(s) IN
           /\ GoodState(t) /\ t.runs = s.runs /\ t.commits = s.commits
           /\ DOMAIN t.chains = DOMAIN s.chains
           /\ \A k \in DOMAIN s.chains :
                 /\ t.chains[k].at = Older(s.chains[k].at)
                 /\ t.chains[k].cat = s.chains[k].cat /\ t.chains[k].mark = s.chains[k].mark
<1> DEFINE m == [k \in DOMAIN s.chains |-> OlderChain(s.chains[k])]
           t == [s EXCEPT !.perm = Older(@), !.chains = m]
<1>1. s \in State /\ s # NoFile /\ s.perm \in Age /\ DOMAIN s.chains \in SUBSET Key
      /\ s.chains \in [DOMAIN s.chains -> Chain]
  BY StateFields DEF GoodState
<1>2. ASSUME NEW k \in DOMAIN s.chains
      PROVE  /\ m[k] \in Chain /\ m[k].at = Older(s.chains[k].at)
             /\ m[k].cat = s.chains[k].cat /\ m[k].mark = s.chains[k].mark
  BY <1>1, OlderAge DEF Chain, OlderChain
<1>3. m \in [DOMAIN s.chains -> Chain] /\ DOMAIN m = DOMAIN s.chains
  BY <1>2
<1>4. OlderState(s) = t
  BY <1>1 DEF OlderState
<1> HIDE DEF m
<1>5. m \in UNION {[D -> Chain] : D \in SUBSET Key} /\ Older(s.perm) \in Age
  BY <1>1, <1>3, OlderAge
<1>6. t \in State /\ t.chains = m /\ t.runs = s.runs /\ t.commits = s.commits
  BY <1>1, <1>5 DEF State
<1> HIDE DEF t
<1>7. Subagents(t) = Subagents(s)
  BY <1>3, <1>6 DEF Subagents
<1>8. Marks(t)
  BY <1>2, <1>3, <1>6 DEF GoodState, Marks
<1>9. GoodState(t)
  BY <1>3, <1>6, <1>7, <1>8 DEF GoodState
<1> QED BY <1>2, <1>3, <1>4, <1>6, <1>9

(* A state and what is heard grow older together.                          *)
OlderHeard(h) == [k \in Key |-> [h[k] EXCEPT !.age = Older(@)]]

LEMMA OlderAgrees ==
    ASSUME NEW s, GoodState(s), NEW h, NEW o, NEW t, Agrees(s, h, o, t)
    PROVE  Agrees(OlderState(s), OlderHeard(h), o, t)
<1> DEFINE u == OlderState(s)
<1>1. /\ u.runs = s.runs /\ u.commits = s.commits /\ DOMAIN u.chains = DOMAIN s.chains
      /\ \A k \in DOMAIN s.chains :
            /\ u.chains[k].at = Older(s.chains[k].at)
            /\ u.chains[k].cat = s.chains[k].cat /\ u.chains[k].mark = s.chains[k].mark
  BY OlderGood
<1>2. DOMAIN s.chains \subseteq Key
  BY StateFields DEF GoodState
<1> HIDE DEF u
<1>3. ASSUME NEW k \in DOMAIN s.chains, s.chains[k].cat # "none"
      PROVE  OlderHeard(h)[k] = [cat |-> s.chains[k].cat, age |-> Older(s.chains[k].at)]
  <2>1. h[k] = [cat |-> s.chains[k].cat, age |-> s.chains[k].at]
    BY <1>3 DEF Agrees
  <2> QED BY <1>2, <2>1 DEF OlderHeard
<1> QED BY <1>1, <1>3 DEF Agrees, u

(* To add an event and to grow older commute while a hook may still age.   *)
LEMMA OlderHeardWith ==
    ASSUME NEW e \in Event, NEW a \in 0..Lag, a < Lag,
           heard \in [Key -> [cat : Cats, age : Age]], heard' = OlderHeard(heard)
    PROVE  HeardWith(e, a + 1)' = OlderHeard(HeardWith(e, a))
<1>1. Older(a) = a + 1 /\ e.key \in Key
  BY Constants DEF Older, Age, Old, Event
<1>2. CASE e.type = "none"
  BY <1>2 DEF HeardWith
<1>3. CASE e.type # "none"
  <2> DEFINE n(h, b) == [cat |-> IF e.type = "activity" THEN e.cat ELSE h[e.key].cat, age |-> b]
  <2>1. HeardWith(e, a) = [heard EXCEPT ![e.key] = n(heard, a)]
        /\ HeardWith(e, a + 1)' = [heard' EXCEPT ![e.key] = n(heard', a + 1)]
    BY <1>3 DEF HeardWith
  <2>2. heard'[e.key].cat = heard[e.key].cat
    BY <1>1 DEF OlderHeard
  <2>3. ASSUME NEW k \in Key
        PROVE  HeardWith(e, a + 1)'[k] = OlderHeard(HeardWith(e, a))[k]
    <3>1. CASE k = e.key
      <4>1. /\ HeardWith(e, a)[k] = n(heard, a)
            /\ HeardWith(e, a + 1)'[k] = n(heard', a + 1)
        BY <1>1, <2>1, <3>1 DEF OlderHeard
      <4>2. n(heard', a + 1) = [n(heard, a) EXCEPT !.age = Older(@)]
        BY <1>1, <2>2
      <4> HIDE DEF n
      <4> QED BY <4>1, <4>2 DEF OlderHeard
    <3>2. CASE k # e.key
      BY <1>1, <2>1, <3>2 DEF OlderHeard
    <3> QED BY <3>1, <3>2
  <2>4. /\ HeardWith(e, a + 1)' = [k \in Key |-> HeardWith(e, a + 1)'[k]]
        /\ OlderHeard(HeardWith(e, a)) = [k \in Key |-> OlderHeard(HeardWith(e, a))[k]]
    BY <2>1 DEF OlderHeard
  <2> QED BY <2>3, <2>4
<1> QED BY <1>2, <1>3

-----------------------------------------------------------------------------
(* The steps.                                                              *)

LEMMA IdleGood == HookOK(IdleHook) /\ IdleHook.pc = "idle" /\ NoEvent \in Event
<1>1. NoEvent \in Event
  BY Constants DEF NoEvent, Event, Types, Cats
<1>2. IdleHook \in Hooks
  BY <1>1, Constants, NewStateGood DEF IdleHook, Hooks, GoodState
<1> QED BY <1>1, <1>2, NewStateGood DEF HookOK, IdleHook

LEMMA InitIInv == Init => IInv
<1> SUFFICES ASSUME Init PROVE IInv
  OBVIOUS
<1>1. Typed
  BY IdleGood, Constants DEF Init, Typed, Cats
<1> QED BY <1>1, IdleGood, SessionAssumption DEF Init, IInv, Owner, Free, Loaded, Saved

(* A new session's state agrees with a scratch file's beginning.           *)
LEMMA NewAgrees ==
    ASSUME NEW h, NEW o, NEW t, ~swept => t = [runs |-> 0, commits |-> 0]
    PROVE  Agrees(NewState, h, o, t)
<1>1. NewState.chains = [k \in {Main} |-> NewChain] /\ DOMAIN NewState.chains = {Main}
      /\ NewState.runs = 0 /\ NewState.commits = 0
  BY DEF NewState
<1>2. ~swept => t.runs = 0 /\ t.commits = 0
  OBVIOUS
<1> QED BY <1>1, <1>2, NewFields DEF Agrees

(* A hook that has not changed, and nothing it is judged by.               *)
LEMMA Untouched ==
    ASSUME UNCHANGED <<scratch, heard, open, told, cut, swept>>, NEW g \in Hook,
           hook'[g] = hook[g], Loaded(hook[g]), Saved(hook[g])
    PROVE  Loaded(hook[g])' /\ Saved(hook[g])'
<1>1. Loaded(hook[g])'
  BY DEF Loaded, Agrees
<1>2. ASSUME NEW e
      PROVE  /\ HeardWith(e, hook[g].age)' = HeardWith(e, hook[g].age)
             /\ OpenWith(e)' = OpenWith(e) /\ ToldWith(e)' = ToldWith(e)
  BY DEF HeardWith, OpenWith, ToldWith
<1>3. Saved(hook[g])'
  BY <1>2 DEF Saved, Agrees
<1> QED BY <1>1, <1>3

LEMMA HookStartsStep == ASSUME IInv, NEW h \in Hook, HookStarts(h) PROVE IInv'
<1>1. UNCHANGED <<scratch, lock, aged, sweep, hist>>
  BY DEF HookStarts
<1>2. PICK what \in Fires, agent \in Agent, on \in BOOLEAN :
         /\ agent = Main => on
         /\ what \in MainEvents => agent = Main
         /\ what \in {"SubagentStart", "SubagentStop"} => agent # Main
         /\ hook' = [hook EXCEPT ![h] = [IdleHook EXCEPT
                        !.pc = "started", !.what = what, !.agent = agent, !.on = on]]
  BY DEF HookStarts
<1> DEFINE x == [IdleHook EXCEPT !.pc = "started", !.what = what, !.agent = agent, !.on = on]
<1>3. x \in Hooks /\ x.pc = "started" /\ x.what = what /\ x.agent = agent /\ x.on = on
      /\ x.mem = NewState
  BY IdleGood DEF HookOK, Hooks, IdleHook
<1>4. HookOK(x)
  BY <1>2, <1>3, NewStateGood DEF HookOK
<1>5. hook' = [hook EXCEPT ![h] = x] /\ hook[h].pc = "idle"
  BY <1>2 DEF HookStarts
<1> HIDE DEF x
<1>6. /\ DOMAIN hook' = Hook /\ hook'[h] = x /\ \A g \in Hook \ {h} : hook'[g] = hook[g]
  BY <1>5 DEF IInv, Typed
<1>7. Typed'
  BY <1>1, <1>4, <1>6 DEF IInv, Typed, hist
<1>8. Owner'
  BY <1>1, <1>3, <1>5, <1>6 DEF IInv, Owner
<1>9. \A g \in Hook : Loaded(hook[g])' /\ Saved(hook[g])'
  BY <1>1, <1>3, <1>6, Untouched DEF IInv, Loaded, Saved, hist
<1>10. Free'
  BY <1>1 DEF IInv, Free, Agrees, hist
<1> QED BY <1>7, <1>8, <1>9, <1>10 DEF IInv

LEMMA HookLoadsStep == ASSUME IInv, NEW h \in Hook, HookLoads(h) PROVE IInv'
<1> DEFINE m == IF scratch = NoFile THEN NewState ELSE scratch
           x == [hook[h] EXCEPT !.pc = "loaded", !.mem = m]
<1>1. /\ UNCHANGED <<scratch, aged, sweep, heard, open, cut, swept>>
      /\ hook[h].pc = "started" /\ lock = Nobody /\ lock' = h
      /\ hook' = [hook EXCEPT ![h] = x]
      /\ told' = IF scratch = NoFile /\ ~swept THEN [runs |-> 0, commits |-> 0] ELSE told
  BY DEF HookLoads, LockFree
<1>2. GoodState(m)
  BY NewStateGood DEF IInv, Typed
<1>3. ~cut => Agrees(m, heard, open, told')
  <2>1. CASE scratch = NoFile
    BY <1>1, <2>1, NewAgrees
  <2>2. CASE scratch # NoFile
    BY <1>1, <2>2 DEF IInv, Free
  <2> QED BY <2>1, <2>2
<1> HIDE DEF m
<1>4. /\ HookOK(x) /\ x.pc = "loaded" /\ x.mem = m
  BY <1>1, <1>2 DEF IInv, Typed, HookOK, Hooks, GoodState
<1> HIDE DEF x
<1>5. /\ DOMAIN hook' = Hook /\ hook'[h] = x /\ \A g \in Hook \ {h} : hook'[g] = hook[g]
  BY <1>1 DEF IInv, Typed
<1>6. told' \in [runs : Nat, commits : Nat]
  BY <1>1 DEF IInv, Typed
<1>7. Typed'
  BY <1>1, <1>4, <1>5, <1>6 DEF IInv, Typed
<1>8. \A g \in Hook \ {h} : hook[g].pc \notin {"loaded", "saved"}
  BY <1>1, SessionAssumption DEF IInv, Owner
<1>9. Owner'
  BY <1>1, <1>4, <1>5, <1>8 DEF Owner
<1>10. Free'
  BY <1>1, SessionAssumption DEF Free
<1>11. \A g \in Hook : Loaded(hook[g])' /\ Saved(hook[g])'
  BY <1>1, <1>3, <1>4, <1>5, <1>8 DEF Loaded, Saved, Agrees
<1> QED BY <1>7, <1>9, <1>10, <1>11 DEF IInv

(* The state a hook saves agrees with what is spooled once its own event   *)
(* is; a verification it has seen finish is still open.                    *)
LEMMA ResultAgrees ==
    ASSUME Typed, NEW s, GoodState(s), NEW x, NEW r, Result(s, x, r),
           Agrees(s, heard, open, told), x.age \in Age
    PROVE  /\ Agrees(r.state, HeardWith(r.event, x.age), OpenWith(r.event), ToldWith(r.event))
           /\ r.event.type = "verification_finished" => open[r.event.id]
<1> DEFINE t == r.state
           e == r.event
<1>1. /\ e \in Event /\ e.key \in Key /\ e.id \in Agent /\ GoodState(t) /\ Counts(s, r)
      /\ DOMAIN t.chains \subseteq Key
  BY StateFields DEF Result, Event, GoodState
<1>2. e.type = "verification_finished" => open[e.id]
  BY DEF Result, Agrees
<1>3. /\ heard \in [Key -> [cat : Cats, age : Age]] /\ open \in [Agent -> BOOLEAN]
      /\ told \in [runs : Nat, commits : Nat]
  BY DEF Typed
<1>4. ASSUME NEW k \in DOMAIN t.chains PROVE Follows(s, x, r, k) /\ k \in Key
  BY <1>1 DEF Result
<1> HIDE DEF t, e
<1>5. ASSUME NEW k \in DOMAIN t.chains, t.chains[k].mark.kind = "test"
      PROVE  OpenWith(e)[k]
  <2>1. k \in Agent
    BY <1>1, <1>4, <1>5 DEF GoodState, Marks, OwnMark, Key
  <2>2. CASE e.type = "verification_started" /\ e.id = k
    BY <1>3, <2>1, <2>2 DEF OpenWith
  <2>3. CASE /\ open[k] /\ ~(e.type = "verification_finished" /\ e.id = k)
    BY <1>1, <1>3, <2>1, <2>3 DEF OpenWith
  <2> QED BY <1>4, <1>5, <2>2, <2>3 DEF Follows, Agrees, t, e
<1>6. ASSUME NEW k \in DOMAIN t.chains, t.chains[k].cat # "none"
      PROVE  HeardWith(e, x.age)[k] = [cat |-> t.chains[k].cat, age |-> t.chains[k].at]
  <2>1. k \in DOMAIN s.chains /\ s.chains[k].cat # "none" =>
           heard[k] = [cat |-> s.chains[k].cat, age |-> s.chains[k].at]
    BY DEF Agrees
  <2>2. CASE e.type # "none" /\ k = e.key
    <3>1. HeardWith(e, x.age)[k]
          = [cat |-> IF e.type = "activity" THEN e.cat ELSE heard[k].cat, age |-> x.age]
      BY <1>1, <1>3, <2>2 DEF HeardWith
    <3>2. /\ t.chains[k].at = x.age
          /\ IF e.type = "activity" THEN t.chains[k].cat = e.cat
             ELSE k \in DOMAIN s.chains /\ t.chains[k].cat = s.chains[k].cat
      BY <1>4, <1>6, <2>2 DEF Follows, t, e
    <3>3. e.type # "activity" => heard[k].cat = t.chains[k].cat
      BY <1>6, <2>1, <3>2
    <3> QED BY <3>1, <3>2, <3>3
  <2>3. CASE ~(e.type # "none" /\ k = e.key)
    <3>1. HeardWith(e, x.age)[k] = heard[k]
      BY <1>1, <1>3, <1>4, <2>3 DEF HeardWith
    <3>2. /\ k \in DOMAIN s.chains /\ t.chains[k].cat = s.chains[k].cat
          /\ t.chains[k].at = s.chains[k].at
      BY <1>4, <1>6, <2>3 DEF Follows, t, e
    <3> QED BY <1>6, <2>1, <3>1, <3>2
  <2> QED BY <2>2, <2>3
<1>7. ~swept => t.runs = ToldWith(e).runs /\ t.commits = ToldWith(e).commits
  <2>1. ~swept => s.runs = told.runs /\ s.commits = told.commits
    BY DEF Agrees
  <2>2. /\ t.runs = s.runs + IF e.type = "verification_finished" THEN 1 ELSE 0
        /\ t.commits = s.commits + IF e.type = "commit" THEN 1 ELSE 0
    BY <1>1 DEF Counts, t, e
  <2>3. s.runs \in Nat /\ s.commits \in Nat
    BY StateFields DEF GoodState
  <2> QED BY <1>3, <2>1, <2>2, <2>3 DEF ToldWith
<1> QED BY <1>2, <1>5, <1>6, <1>7 DEF Agrees, t, e

LEMMA HookSavesStep == ASSUME IInv, NEW h \in Hook, HookSaves(h) PROVE IInv'
<1> DEFINE s == hook[h].mem
<1>1. PICK r \in Classify(s, hook[h]) :
         /\ scratch' = IF hook[h].what = "SessionEnd" THEN NoFile ELSE r.state
         /\ hook' = [hook EXCEPT ![h].pc = "saved", ![h].event = r.event,
                                 ![h].mem = NewState]
  BY DEF HookSaves
<1>2. /\ UNCHANGED <<lock, sweep, heard, open, told, cut, swept>> /\ aged' = FALSE
      /\ hook[h].pc = "loaded"
  BY DEF HookSaves, hist
<1>3. HookOK(hook[h]) /\ GoodState(s) /\ Typed /\ hook[h] \in Hooks
  BY DEF IInv, Typed, HookOK
<1>4. Result(s, hook[h], r)
  BY <1>1, <1>2, <1>3, Classified
<1>5. PICK x : x = [hook[h] EXCEPT !.pc = "saved", !.event = r.event, !.mem = NewState]
  OBVIOUS
<1>6. x \in Hooks /\ x.pc = "saved" /\ x.event = r.event /\ x.mem = NewState
      /\ x.age = hook[h].age /\ x.what = hook[h].what /\ x.agent = hook[h].agent
      /\ x.on = hook[h].on
  BY <1>5, <1>3, <1>4, NewStateGood DEF Hooks, Result, GoodState
<1>7. HookOK(x)
  BY <1>2, <1>3, <1>6, NewStateGood DEF HookOK
<1>8. hook' = [hook EXCEPT ![h] = x]
  BY <1>5, <1>1
<1> HIDE DEF s
<1>9. /\ DOMAIN hook' = Hook /\ hook'[h] = x /\ \A g \in Hook \ {h} : hook'[g] = hook[g]
  BY <1>8 DEF IInv, Typed
<1>10. Typed'
  BY <1>1, <1>2, <1>4, <1>7, <1>9 DEF IInv, Typed, Result
<1>11. \A g \in Hook \ {h} : hook[g].pc \notin {"loaded", "saved"}
  BY <1>2 DEF IInv, Owner
<1>12. Owner' /\ lock' = h
  BY <1>2, <1>6, <1>9, <1>11 DEF IInv, Owner
<1>13. Free'
  BY <1>12, SessionAssumption DEF Free
<1>14. ~cut => /\ Agrees(r.state, HeardWith(r.event, x.age), OpenWith(r.event),
                         ToldWith(r.event))
               /\ r.event.type = "verification_finished" => open[r.event.id]
  <2>1. ~cut => Agrees(s, heard, open, told)
    BY <1>2 DEF IInv, Loaded, s
  <2>2. hook[h].age \in Age
    BY <1>3, ChainIDs
  <2> QED BY <1>3, <1>4, <1>6, <2>1, <2>2, ResultAgrees
<1>15. Loaded(x)' /\ Saved(x)'
  <2>1. /\ HeardWith(r.event, x.age)' = HeardWith(r.event, x.age)
        /\ OpenWith(r.event)' = OpenWith(r.event) /\ ToldWith(r.event)' = ToldWith(r.event)
    BY <1>2 DEF HeardWith, OpenWith, ToldWith
  <2>2. Agrees(r.state, HeardWith(r.event, x.age), OpenWith(r.event), ToldWith(r.event))'
        <=> Agrees(r.state, HeardWith(r.event, x.age), OpenWith(r.event), ToldWith(r.event))
    BY <1>2, <2>1 DEF Agrees
  <2> QED BY <1>1, <1>2, <1>6, <1>14, <2>1, <2>2 DEF Loaded, Saved
<1>16. ASSUME NEW g \in Hook PROVE Loaded(hook[g])' /\ Saved(hook[g])'
  <2>1. CASE g = h
    BY <1>9, <1>15, <2>1 DEF Loaded, Saved
  <2>2. CASE g # h
    BY <1>9, <1>11, <2>2 DEF Loaded, Saved
  <2> QED BY <2>1, <2>2
<1> QED BY <1>10, <1>12, <1>13, <1>16 DEF IInv

(* The lock let go: no hook is in the middle of its work any more.         *)
LEMMA Released ==
    ASSUME IInv, NEW h \in Hook, hook[h].pc = "saved", lock' = Nobody,
           hook' = [hook EXCEPT ![h] = IdleHook]
    PROVE  /\ Owner' /\ lock = h /\ DOMAIN hook' = Hook
           /\ \A g \in Hook : HookOK(hook'[g]) /\ hook'[g].pc \notin {"loaded", "saved"}
<1>1. lock = h /\ \A g \in Hook \ {h} : hook[g].pc \notin {"loaded", "saved"}
  BY DEF IInv, Owner
<1>2. /\ DOMAIN hook' = Hook /\ hook'[h] = IdleHook
      /\ \A g \in Hook \ {h} : hook'[g] = hook[g]
  BY DEF IInv, Typed
<1>3. \A g \in Hook : HookOK(hook'[g]) /\ hook'[g].pc \notin {"loaded", "saved"}
  BY <1>1, <1>2, IdleGood DEF IInv, Typed
<1> QED BY <1>1, <1>2, <1>3, SessionAssumption DEF Owner

LEMMA HookSpoolsStep == ASSUME IInv, NEW h \in Hook, HookSpools(h) PROVE IInv'
<1>1. PICK e : e = hook[h].event
  OBVIOUS
<1>2. PICK a : a = hook[h].age
  OBVIOUS
<1>3. /\ hook[h].pc = "saved" /\ hook' = [hook EXCEPT ![h] = IdleHook] /\ lock' = Nobody
      /\ UNCHANGED <<scratch, aged, sweep, cut, swept>>
  BY DEF HookSpools
<1>4. HookOK(hook[h]) /\ hook[h] \in Hooks /\ e \in Event /\ a \in Age /\ Typed
  BY <1>1, <1>2, ChainIDs DEF IInv, Typed, HookOK, Hooks
<1>5. heard' = HeardWith(e, a) /\ open' = OpenWith(e) /\ told' = ToldWith(e)
  <2>1. CASE e.type = "none"
    <3>1. OpenWith(e) = open /\ ToldWith(e) = told /\ HeardWith(e, a) = heard
      BY <1>4, <2>1 DEF OpenWith, ToldWith, HeardWith, Typed
    <3> QED BY <1>1, <2>1, <3>1 DEF HookSpools
  <2>2. CASE e.type # "none"
    BY <1>1, <1>2, <2>2 DEF HookSpools, HeardWith, OpenWith, ToldWith
  <2> QED BY <2>1, <2>2
<1>6. /\ heard' \in [Key -> [cat : Cats, age : Age]] /\ open' \in [Agent -> BOOLEAN]
      /\ told' \in [runs : Nat, commits : Nat]
  <2>1. e.key \in Key /\ e.id \in Agent
    BY <1>4 DEF Event
  <2>2. heard' \in [Key -> [cat : Cats, age : Age]]
    <3>1. e.type = "activity" => e.cat \in Cats
      BY <1>4 DEF Event
    <3> QED BY <1>4, <1>5, <2>1, <3>1 DEF HeardWith, Typed
  <2>3. open' \in [Agent -> BOOLEAN]
    BY <1>4, <1>5, <2>1 DEF OpenWith, Typed
  <2>4. told' \in [runs : Nat, commits : Nat]
    BY <1>4, <1>5 DEF ToldWith, Typed
  <2> QED BY <2>2, <2>3, <2>4
<1>7. /\ Owner' /\ lock = h /\ DOMAIN hook' = Hook
      /\ \A g \in Hook : HookOK(hook'[g]) /\ hook'[g].pc \notin {"loaded", "saved"}
  BY <1>3, Released
<1>8. Typed'
  BY <1>3, <1>4, <1>6, <1>7 DEF Typed
<1>9. scratch # NoFile /\ ~cut => Agrees(scratch, HeardWith(e, a), OpenWith(e), ToldWith(e))
  BY <1>1, <1>2, <1>3 DEF IInv, Saved
<1>10. Free'
  BY <1>3, <1>5, <1>9 DEF Free, Agrees
<1>11. \A g \in Hook : Loaded(hook[g])' /\ Saved(hook[g])'
  BY <1>7 DEF Loaded, Saved
<1> QED BY <1>7, <1>8, <1>10, <1>11 DEF IInv

LEMMA HookDiesStep == ASSUME IInv, NEW h \in Hook, HookDies(h) PROVE IInv'
<1>1. /\ hook[h].pc = "saved" /\ hook' = [hook EXCEPT ![h] = IdleHook] /\ lock' = Nobody
      /\ UNCHANGED <<scratch, aged, sweep, heard, open, told, swept>>
      /\ cut' = (cut \/ hook[h].event.type # "none")
  BY DEF HookDies
<1>2. /\ Owner' /\ lock = h /\ DOMAIN hook' = Hook
      /\ \A g \in Hook : HookOK(hook'[g]) /\ hook'[g].pc \notin {"loaded", "saved"}
  BY <1>1, Released
<1>3. Typed'
  BY <1>1, <1>2 DEF IInv, Typed
<1>4. hook[h].event \in Event
  BY DEF IInv, Typed, HookOK, Hooks
<1>5. hook[h].event.type = "none" =>
         /\ HeardWith(hook[h].event, hook[h].age) = heard
         /\ OpenWith(hook[h].event) = open /\ ToldWith(hook[h].event) = told
  BY <1>4 DEF IInv, Typed, HeardWith, OpenWith, ToldWith
<1>6. scratch # NoFile /\ ~cut' => Agrees(scratch, heard, open, told)
  BY <1>1, <1>5 DEF IInv, Saved
<1>7. Free'
  BY <1>1, <1>6 DEF Free, Agrees
<1>8. \A g \in Hook : Loaded(hook[g])' /\ Saved(hook[g])'
  BY <1>2 DEF Loaded, Saved
<1> QED BY <1>2, <1>3, <1>7, <1>8 DEF IInv

LEMMA QuietStep == ASSUME IInv, SweepSees \/ DayPasses \/ UNCHANGED vars PROVE IInv'
<1>1. /\ UNCHANGED <<scratch, lock, hook, heard, open, told, cut, swept>>
      /\ aged' \in BOOLEAN /\ sweep' \in BOOLEAN
  BY DEF SweepSees, DayPasses, vars, hist, IInv, Typed
<1>2. Typed'
  BY <1>1 DEF IInv, Typed
<1>3. Owner' /\ Free'
  BY <1>1 DEF IInv, Owner, Free, Agrees
<1>4. \A g \in Hook : Loaded(hook[g])' /\ Saved(hook[g])'
  BY <1>1, Untouched DEF IInv
<1> QED BY <1>2, <1>3, <1>4 DEF IInv

LEMMA SweepRemovesStep == ASSUME IInv, SweepRemoves PROVE IInv'
<1>1. /\ UNCHANGED <<lock, hook, aged, heard, open, told, cut>> /\ scratch' = NoFile
      /\ sweep' = FALSE /\ swept' = (swept \/ (scratch # NoFile /\ ~aged))
  BY DEF SweepRemoves
<1>2. Typed'
  BY <1>1 DEF IInv, Typed
<1>3. Owner' /\ Free'
  BY <1>1 DEF IInv, Owner, Free
<1>4. ASSUME NEW g \in Hook PROVE Loaded(hook[g])' /\ Saved(hook[g])'
  BY <1>1 DEF IInv, Loaded, Saved, Agrees
<1> QED BY <1>2, <1>3, <1>4 DEF IInv

LEMMA TickStep == ASSUME IInv, Tick PROVE IInv'
<1>1. /\ UNCHANGED <<lock, aged, sweep, open, told, cut, swept>>
      /\ scratch' = OlderState(scratch) /\ heard' = OlderHeard(heard)
      /\ hook' = [h \in Hook |->
                     IF hook[h].pc = "idle" THEN hook[h]
                     ELSE [hook[h] EXCEPT !.age = @ + 1, !.mem = OlderState(@)]]
      /\ \A h \in Hook : hook[h].pc # "idle" => hook[h].age < Lag
  BY DEF Tick, OlderHeard
<1>2. /\ scratch' = NoFile <=> scratch = NoFile
      /\ scratch # NoFile => GoodState(scratch) /\ GoodState(scratch')
  <2>1. scratch = NoFile => OlderState(scratch) = NoFile
    BY DEF OlderState
  <2>2. scratch # NoFile => GoodState(scratch) /\ GoodState(OlderState(scratch))
    BY OlderGood DEF IInv, Typed
  <2>3. GoodState(OlderState(scratch)) => OlderState(scratch) # NoFile
    BY StateFields DEF GoodState
  <2> QED BY <1>1, <2>1, <2>2, <2>3
<1>3. /\ heard \in [Key -> [cat : Cats, age : Age]]
      /\ heard' \in [Key -> [cat : Cats, age : Age]]
  BY <1>1, OlderAge DEF IInv, Typed, OlderHeard
<1>4. ASSUME NEW h \in Hook, hook[h].pc # "idle"
      PROVE  /\ HookOK(hook'[h]) /\ hook'[h].pc = hook[h].pc
             /\ hook'[h].event = hook[h].event /\ hook[h].event \in Event
             /\ hook'[h].age = hook[h].age + 1 /\ hook[h].age \in 0..Lag /\ hook[h].age < Lag
             /\ hook'[h].mem = OlderState(hook[h].mem) /\ GoodState(hook[h].mem)
  <2>1. hook[h] \in Hooks /\ GoodState(hook[h].mem) /\ GoodState(OlderState(hook[h].mem))
    BY OlderGood DEF IInv, Typed, HookOK
  <2>2. hook[h].age \in 0..Lag /\ hook[h].age < Lag /\ hook[h].age + 1 \in 0..Lag
    <3>1. hook[h].age \in 0..Lag
      BY <2>1 DEF Hooks
    <3>2. hook[h].age < Lag
      BY <1>1, <1>4
    <3> QED BY <3>1, <3>2, SessionAssumption
  <2> DEFINE x == [hook[h] EXCEPT !.age = @ + 1, !.mem = OlderState(@)]
  <2>3. hook'[h] = x
    BY <1>1, <1>4
  <2>4. /\ x \in Hooks /\ x.pc = hook[h].pc /\ x.event = hook[h].event
        /\ x.age = hook[h].age + 1 /\ x.mem = OlderState(hook[h].mem)
        /\ x.what = hook[h].what /\ x.agent = hook[h].agent /\ x.on = hook[h].on
    BY <2>1, <2>2 DEF Hooks, GoodState
  <2> HIDE DEF x
  <2>5. HookOK(x) /\ x.event \in Event
    BY <2>1, <2>4 DEF IInv, Typed, HookOK, Hooks
  <2> QED BY <2>1, <2>2, <2>3, <2>4, <2>5
<1>5. \A h \in Hook : hook[h].pc = "idle" => hook'[h] = hook[h]
  BY <1>1
<1>6. Typed'
  BY <1>1, <1>2, <1>3, <1>4, <1>5 DEF IInv, Typed
<1>7. Owner'
  BY <1>1, <1>4, <1>5 DEF IInv, Owner
<1>8. Free'
  <2>1. Free
    BY DEF IInv
  <2>2. scratch # NoFile /\ lock = Nobody /\ ~cut => Agrees(scratch', heard', open, told)
    BY <1>1, <1>2, <2>1, OlderAgrees DEF Free
  <2> QED BY <1>1, <1>2, <2>2 DEF Free, Agrees
<1>9. ASSUME NEW h \in Hook PROVE Loaded(hook[h])' /\ Saved(hook[h])'
  <2>1. CASE hook[h].pc = "idle"
    BY <1>5, <2>1 DEF Loaded, Saved
  <2>2. CASE hook[h].pc # "idle"
    <3>1. Loaded(hook[h])'
      <4>1. Loaded(hook[h])
        BY DEF IInv
      <4>2. hook[h].pc = "loaded" /\ ~cut => Agrees(hook'[h].mem, heard', open, told)
        <5>1. hook[h].pc = "loaded" /\ ~cut =>
                 Agrees(OlderState(hook[h].mem), OlderHeard(heard), open, told)
          BY <1>4, <2>2, <4>1, OlderAgrees DEF Loaded
        <5>2. hook'[h].mem = OlderState(hook[h].mem) /\ heard' = OlderHeard(heard)
          BY <1>1, <1>4, <2>2
        <5> QED BY <5>1, <5>2
      <4> QED BY <1>1, <1>4, <2>2, <4>2 DEF Loaded, Agrees
    <3>2. PICK e : e = hook[h].event
      OBVIOUS
    <3>3. PICK a : a = hook[h].age
      OBVIOUS
    <3>4. HeardWith(e, a + 1)' = OlderHeard(HeardWith(e, a))
      BY <1>1, <1>3, <1>4, <2>2, <3>2, <3>3, OlderHeardWith
    <3>5. OpenWith(e)' = OpenWith(e) /\ ToldWith(e)' = ToldWith(e)
      BY <1>1 DEF OpenWith, ToldWith
    <3>6. hook[h].pc = "saved" /\ ~cut =>
             /\ e.type = "verification_finished" => open[e.id]
             /\ scratch # NoFile =>
                   Agrees(scratch, HeardWith(e, a), OpenWith(e), ToldWith(e))
      BY <3>2, <3>3 DEF IInv, Saved
    <3>7. hook[h].pc = "saved" /\ ~cut /\ scratch # NoFile =>
             Agrees(scratch', HeardWith(e, a + 1)', OpenWith(e), ToldWith(e))
      BY <1>1, <1>2, <3>4, <3>6, OlderAgrees
    <3>8. Saved(hook[h])'
      <4>1. /\ hook'[h].pc = hook[h].pc /\ hook'[h].event = e /\ hook'[h].age = a + 1
        BY <1>4, <2>2, <3>2, <3>3
      <4>2. ASSUME hook[h].pc = "saved", ~cut, scratch # NoFile
            PROVE  Agrees(scratch, HeardWith(e, a + 1), OpenWith(e), ToldWith(e))'
        BY <1>1, <3>5, <3>7, <4>2 DEF Agrees
      <4>3. open' = open /\ cut' = cut /\ (scratch' = NoFile <=> scratch = NoFile)
        BY <1>1, <1>2
      <4> QED BY <3>6, <4>1, <4>2, <4>3 DEF Saved
    <3> QED BY <3>1, <3>8
  <2> QED BY <2>1, <2>2
<1> QED BY <1>6, <1>7, <1>8, <1>9 DEF IInv

-----------------------------------------------------------------------------
(* A hook decides in HookSaves and nowhere else.                           *)
LEMMA OnlySaves ==
    ASSUME IInv, [Next]_vars, NEW h \in Hook, hook[h].pc = "loaded", hook'[h].pc = "saved"
    PROVE  /\ GoodState(hook[h].mem) /\ HookOK(hook[h])
           /\ \E r \in Classify(hook[h].mem, hook[h]) : hook'[h].event = r.event
<1>1. HookOK(hook[h]) /\ GoodState(hook[h].mem) /\ hook[h] \in Hooks /\ DOMAIN hook = Hook
  BY DEF IInv, Typed, HookOK
<1>2. CASE HookSaves(h)
  <2>1. PICK r \in Classify(hook[h].mem, hook[h]) :
           hook' = [hook EXCEPT ![h].pc = "saved", ![h].event = r.event, ![h].mem = NewState]
    BY <1>2 DEF HookSaves
  <2>2. hook'[h].event = r.event
    BY <1>1, <2>1 DEF Hooks
  <2> QED BY <1>1, <2>2
<1>3. ASSUME NEW g \in Hook,
             HookStarts(g) \/ HookLoads(g) \/ HookSaves(g) \/ HookSpools(g) \/ HookDies(g)
      PROVE  HookSaves(h)
  <2>1. CASE g = h
    BY <1>1, <1>3, <2>1, IdleGood
       DEF HookStarts, HookLoads, HookSpools, HookDies
  <2>2. CASE g # h
    BY <1>1, <1>3, <2>2 DEF HookStarts, HookLoads, HookSaves, HookSpools, HookDies
  <2> QED BY <2>1, <2>2
<1>4. ~Tick
  <2>1. Tick => hook'[h] = [hook[h] EXCEPT !.age = @ + 1, !.mem = OlderState(@)]
    BY DEF Tick
  <2>2. [hook[h] EXCEPT !.age = @ + 1, !.mem = OlderState(@)].pc = hook[h].pc
    BY <1>1 DEF Hooks
  <2> QED BY <2>1, <2>2
<1>5. ~(SweepSees \/ SweepRemoves \/ DayPasses \/ UNCHANGED vars)
  BY DEF SweepSees, SweepRemoves, DayPasses, vars
<1> QED BY <1>2, <1>3, <1>4, <1>5 DEF Next

(* The inductive invariant: the scratch file, its holder's memory and the  *)
(* event still to be spooled agree with what is in the spool.              *)
THEOREM SessionInv == Spec => []IInv
<1>1. IInv /\ [Next]_vars => IInv'
  BY HookStartsStep, HookLoadsStep, HookSavesStep, HookSpoolsStep, HookDiesStep, QuietStep,
     SweepRemovesStep, TickStep DEF Next
<1> QED BY <1>1, InitIInv, PTL DEF Spec

(* The types, and chain's cap: a session's map of subagents never holds    *)
(* more than maxSubagentChains, however many subagents there are.          *)
THEOREM SessionTypes == Spec => []TypeOK
<1>1. ASSUME NEW s, GoodState(s) PROVE StateOK(s)
  BY <1>1, StateFields DEF GoodState, StateOK, Chain
<1>2. IInv => TypeOK
  BY <1>1 DEF IInv, Typed, HookOK, Hooks, TypeOK
<1> QED BY <1>2, SessionInv, PTL

(* The counters every later event carries are the verifications and        *)
(* commits there were, for any number of hooks of the session at once.     *)
THEOREM SessionCountersTrue == Spec => []CountersTrue
<1>1. ASSUME IInv, ~Busy PROVE lock = Nobody
  BY <1>1 DEF IInv, Typed, Owner, Busy
<1>2. IInv => CountersTrue
  BY <1>1 DEF IInv, Free, Agrees, CountersTrue
<1> QED BY <1>2, SessionInv, PTL

(* A verification_finished ends a verification_started of its own chain    *)
(* that is in the spool before it and not ended yet.                       *)
THEOREM SessionFinishedWasStarted == Spec => FinishedWasStarted
<1>1. IInv => (\A h \in Hook : Spools(h, "verification_finished") /\ ~cut
                                  => open[hook[h].event.id])
  BY DEF IInv, Saved, Spools
<1>2. IInv => [\A h \in Hook : Spools(h, "verification_finished") /\ ~cut
                                  => open[hook[h].event.id]]_vars
  BY <1>1
<1> QED BY <1>2, SessionInv, PTL DEF FinishedWasStarted

(* ADR-005 (PostToolUse): the marker a subagent's hook resolves is that    *)
(* subagent's own, for any number of subagents and any cap.                *)
THEOREM SessionOwnMarkers == Spec => OwnMarkers
<1> DEFINE A == \A h \in Hook :
                   /\ hook[h].pc = "loaded" /\ hook'[h].pc = "saved" /\ hook[h].on
                   /\ hook'[h].event.type \in
                         {"verification_finished", "commit", "input_resolved"}
                   /\ hook'[h].event.key # Main
                   => hook[h].mem.chains[hook'[h].event.key].mark.by = hook[h].agent
<1>1. ASSUME IInv, [Next]_vars PROVE A
  <2> SUFFICES ASSUME NEW h \in Hook, hook[h].pc = "loaded", hook'[h].pc = "saved",
                      hook[h].on, hook'[h].event.type \in Resolving,
                      hook'[h].event.key # Main
               PROVE  hook[h].mem.chains[hook'[h].event.key].mark.by = hook[h].agent
    BY DEF Resolving
  <2>1. GoodState(hook[h].mem) /\ HookOK(hook[h])
    BY <1>1, OnlySaves
  <2>2. PICK r \in Classify(hook[h].mem, hook[h]) : hook'[h].event = r.event
    BY <1>1, OnlySaves
  <2>3. Result(hook[h].mem, hook[h], r)
    BY <2>1, Classified
  <2>4. /\ r.event.key = ChainID(hook[h]) /\ r.event.key \in DOMAIN hook[h].mem.chains
        /\ hook[h].mem.chains[r.event.key].mark.kind # "none"
    BY <2>2, <2>3 DEF Result
  <2>5. ChainID(hook[h]) = hook[h].agent
    BY DEF ChainID
  <2> QED BY <2>1, <2>2, <2>4, <2>5 DEF GoodState, Marks, OwnMark
<1>2. IInv /\ [Next]_vars => [A]_vars
  BY <1>1
<1> QED BY <1>2, SessionInv, PTL DEF Spec, OwnMarkers

(* SPEC 7.2 (activityEvent): an activity that is held back repeats one of  *)
(* its chain that is in the spool, with an event of the chain inside the   *)
(* window, whatever the window, the cap and the hooks.                     *)
THEOREM SessionSuppressedWasHeard == Spec => SuppressedWasHeard
<1> DEFINE A == \A h \in Hook :
                   LET x == hook[h]
                       k == KeyOf(x.mem, x)
                   IN  /\ x.pc = "loaded" /\ hook'[h].pc = "saved"
                       /\ x.what \in {"Read", "Edit"} /\ hook'[h].event.type = "none" /\ ~cut
                       => heard[k].cat = x.what /\ Since(heard[k].age, x) < Window
<1>1. ASSUME IInv, [Next]_vars PROVE A
  <2> SUFFICES ASSUME NEW h \in Hook, hook[h].pc = "loaded", hook'[h].pc = "saved",
                      hook[h].what \in {"Read", "Edit"},
                      hook'[h].event.type = "none", ~cut
               PROVE  LET k == KeyOf(hook[h].mem, hook[h]) IN
                      heard[k].cat = hook[h].what /\ Since(heard[k].age, hook[h]) < Window
    OBVIOUS
  <2> DEFINE s == hook[h].mem
             k == KeyOf(s, hook[h])
  <2>1. GoodState(s) /\ HookOK(hook[h])
    BY <1>1, OnlySaves
  <2>2. PICK r \in Classify(s, hook[h]) : hook'[h].event = r.event
    BY <1>1, OnlySaves
  <2>3. /\ k \in DOMAIN s.chains /\ s.chains[k].cat = hook[h].what
        /\ Since(s.chains[k].at, hook[h]) < Window
    BY <2>1, <2>2, Suppressed
  <2>4. Agrees(s, heard, open, told)
    BY <1>1 DEF IInv, Loaded
  <2> HIDE DEF s, k
  <2>5. heard[k] = [cat |-> s.chains[k].cat, age |-> s.chains[k].at]
    BY <2>3, <2>4 DEF Agrees
  <2> QED BY <2>3, <2>5 DEF s, k
<1>2. IInv /\ [Next]_vars => [A]_vars
  BY <1>1
<1> QED BY <1>2, SessionInv, PTL DEF Spec, SuppressedWasHeard
=============================================================================
