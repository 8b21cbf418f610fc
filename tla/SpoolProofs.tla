---------------------------- MODULE SpoolProofs ----------------------------
(***************************************************************************)
(* Theorems about module Spool, for every set of hooks, every Cap, every   *)
(* set of malformed lines and every bound on the number of lines.          *)
(*                                                                         *)
(* None of the safety invariants is inductive alone.  IInv relates the     *)
(* flusher's memory (cur, done, rawCount, mark) to the file while a flush  *)
(* is in flight: which positions were drained, which lines were added.     *)
(* LossInv adds the lines an eviction has doomed and no commit has lost    *)
(* yet; the last part shows that Spool implements EventQueue.              *)
(***************************************************************************)
EXTENDS Spool, SequenceTheorems, FiniteSetTheorems, TLAPS

(* While a batch is in memory: its lines are older than every line added   *)
(* since; the drained positions still hold drained lines unless a hook has *)
(* evicted; and unless a hook died evicting, everything past rawCount was  *)
(* added since.                                                            *)
InFlight ==
    pc = "drained" =>
       /\ mark <= next /\ rawCount <= Cap
       /\ \A i \in 1..Len(cur) : cur[i] \in 1..(mark - 1) /\ cur[i] \notin done
       /\ \A n \in done : n \in 1..(mark - 1)
       /\ ~torn => /\ Increasing(cur)
                   /\ Len(Content) >= rawCount
                   /\ \A i \in (rawCount + 1)..Len(Content) : Content[i] >= mark
                   /\ \A i \in 1..Len(cur) : cur[i] \notin settled
       /\ shifts = 0 => \A i \in 1..rawCount :
                           Content[i] \in Elems(cur) \cup done
       /\ holder \in Hook => shifts > 0

Numbered ==
    /\ \A i \in 1..Len(Content) : Content[i] \in 1..(next - 1)
    /\ \A n \in settled : n \in 1..(next - 1)
    /\ torn => shifts > 0

IInv ==
    /\ TypeOK
    /\ DepthBounded
    /\ Numbered
    /\ InFlight
    /\ ArrivalOrder
    /\ SettledIsFinal
    /\ NoSilentLoss

-----------------------------------------------------------------------------
(* Lemmas about the operators on sequences.                                *)

LEMMA ElemsNat ==
    ASSUME NEW s \in Seq(Nat)
    PROVE  Elems(s) \subseteq Nat
<1>1. \A i \in 1..Len(s) : s[i] \in Nat
  OBVIOUS
<1> QED BY <1>1 DEF Elems

LEMMA NewestProps ==
    ASSUME NEW s \in Seq(Nat), NEW k \in Nat
    PROVE  /\ Newest(s, k) \in Seq(Nat)
           /\ Len(s) <= k => Len(Newest(s, k)) = Len(s)
           /\ ~(Len(s) <= k) => Len(Newest(s, k)) = k
           /\ \A i \in 1..Len(Newest(s, k)) :
                 Newest(s, k)[i] = s[i + (Len(s) - Len(Newest(s, k)))]
<1>1. CASE Len(s) <= k
  BY <1>1 DEF Newest
<1>2. CASE ~(Len(s) <= k)
  <2>1. /\ Len(s) - k + 1 \in 1..(Len(s) + 1)
        /\ Len(s) \in 0..Len(s)
    BY <1>2
  <2>2. Newest(s, k) = SubSeq(s, Len(s) - k + 1, Len(s))
    BY <1>2 DEF Newest
  <2> QED BY <1>2, <2>1, <2>2
<1> QED BY <1>1, <1>2

LEMMA OverflowProps ==
    ASSUME NEW s \in Seq(Nat), NEW k \in Nat
    PROVE  /\ Overflow(s, k) \in Seq(Nat)
           /\ Elems(s) = Elems(Newest(s, k)) \cup Elems(Overflow(s, k))
<1>1. CASE Len(s) <= k
  BY <1>1 DEF Newest, Overflow, Elems
<1>2. CASE ~(Len(s) <= k)
  <2>0. /\ Len(s) \in Nat
        /\ Len(Newest(s, k)) = k
        /\ \A i \in 1..k : Newest(s, k)[i] = s[i + (Len(s) - k)]
    <3>1. Len(s) \in Nat
      OBVIOUS
    <3>2. Len(Newest(s, k)) = k
      BY <1>2, NewestProps
    <3>3. \A i \in 1..Len(Newest(s, k)) :
             Newest(s, k)[i] = s[i + (Len(s) - Len(Newest(s, k)))]
      BY NewestProps
    <3> QED BY <3>1, <3>2, <3>3
  <2>1. /\ Newest(s, k) = SubSeq(s, Len(s) - k + 1, Len(s))
        /\ Overflow(s, k) = SubSeq(s, 1, Len(s) - k)
    BY <1>2 DEF Newest, Overflow
  <2>2. /\ Overflow(s, k) \in Seq(Nat)
        /\ Len(Overflow(s, k)) = Len(s) - k
        /\ \A i \in 1..(Len(s) - k) : Overflow(s, k)[i] = s[i]
    BY <1>2, <2>1
  <2>3. \A i \in 1..Len(s) : s[i] \in Elems(Newest(s, k)) \cup Elems(Overflow(s, k))
    <3> SUFFICES ASSUME NEW i \in 1..Len(s)
                 PROVE  s[i] \in Elems(Newest(s, k)) \cup Elems(Overflow(s, k))
      OBVIOUS
    <3>1. CASE i \in 1..(Len(s) - k)
      <4>1. Overflow(s, k)[i] = s[i] /\ i \in 1..Len(Overflow(s, k))
        BY <3>1, <2>2
      <4> QED BY <4>1 DEF Elems
    <3>2. CASE i \notin 1..(Len(s) - k)
      <4> DEFINE j == i - (Len(s) - k)
      <4>1. j \in 1..Len(Newest(s, k)) /\ i = j + (Len(s) - k)
        BY <3>2, <1>2, <2>0
      <4>2. Newest(s, k)[j] = s[i]
        BY <4>1, <2>0
      <4> QED BY <4>1, <4>2 DEF Elems
    <3> QED BY <3>1, <3>2
  <2>4. Elems(Newest(s, k)) \cup Elems(Overflow(s, k)) \subseteq Elems(s)
    <3>1. \A i \in 1..Len(Newest(s, k)) : i + (Len(s) - k) \in 1..Len(s)
      BY <1>2, <2>0
    <3>2. Elems(Newest(s, k)) \subseteq Elems(s)
      BY <3>1, <2>0 DEF Elems
    <3>3. Elems(Overflow(s, k)) \subseteq Elems(s)
      <4>1. 1..(Len(s) - k) \subseteq 1..Len(s)
        BY <1>2
      <4> QED BY <2>2, <4>1 DEF Elems
    <3> QED BY <3>2, <3>3
  <2> QED BY <2>2, <2>3, <2>4 DEF Elems
<1> QED BY <1>1, <1>2

(* Moving a line from what is still to be written to the file leaves the   *)
(* content as it will be.                                                  *)
LEMMA WriteLineContent ==
    ASSUME NEW f \in Seq(Nat), NEW w \in Seq(Nat), w # <<>>
    PROVE  /\ Append(f, Head(w)) \in Seq(Nat) /\ Tail(w) \in Seq(Nat)
           /\ Append(f, Head(w)) \o Tail(w) = f \o w
<1>1. Head(w) \in Nat /\ Tail(w) \in Seq(Nat)
  BY HeadTailProperties
<1>2. Append(f, Head(w)) = f \o <<Head(w)>>
  BY <1>1, AppendIsConcat
<1>3. w = <<Head(w)>> \o Tail(w)
  BY <1>1, HeadTailProperties, HeadTailAppend, ConcatProperties, SMT
<1>4. (f \o <<Head(w)>>) \o Tail(w) = f \o (<<Head(w)>> \o Tail(w))
  BY <1>1, ConcatAssociative
<1> QED BY <1>1, <1>2, <1>3, <1>4

LEMMA PickedProps ==
    ASSUME NEW s \in Seq(Nat), NEW h \in Picks(Len(s))
    PROVE  /\ Picked(s, h) \in Seq(Nat)
           /\ Len(Picked(s, h)) \in Nat
           /\ DOMAIN h = 1..Len(Picked(s, h))
           /\ \A i \in 1..Len(Picked(s, h)) :
                 h[i] \in 1..Len(s) /\ Picked(s, h)[i] = s[h[i]]
           /\ Increasing(s) => Increasing(Picked(s, h))
           /\ Elems(Picked(s, h)) \subseteq Elems(s)
<1>1. PICK k \in 0..Len(s) : /\ h \in [1..k -> 1..Len(s)]
                             /\ \A i, j \in 1..k : i < j => h[i] < h[j]
  BY DEF Picks
<1>2. /\ Picked(s, h) = [j \in 1..k |-> s[h[j]]]
      /\ \A j \in 1..k : s[h[j]] \in Nat
  BY <1>1 DEF Picked
<1>3. Picked(s, h) \in Seq(Nat) /\ Len(Picked(s, h)) = k
  BY <1>2
<1>4. Increasing(s) => Increasing(Picked(s, h))
  BY <1>1, <1>2, <1>3 DEF Increasing
<1>5. Elems(Picked(s, h)) \subseteq Elems(s)
  BY <1>1, <1>2, <1>3 DEF Elems
<1> QED BY <1>1, <1>2, <1>3, <1>4, <1>5

-----------------------------------------------------------------------------
(* One lemma per action.                                                   *)

LEMMA InitIInv == Init => IInv
<1> SUFFICES ASSUME Init PROVE IInv
  OBVIOUS
<1> USE SpoolAssumption, ProcAssumption DEF Init
<1>1. Content = <<>> /\ Len(Content) = 0
  BY DEF Content
<1>2. TypeOK
  <2>1. <<>> \in Seq(Nat)
    OBVIOUS
  <2>2. holder # Flusher /\ holder \in Hook \cup {Flusher, NoProc}
    OBVIOUS
  <2>3. torn \in BOOLEAN
    OBVIOUS
  <2>4. pc # "committing" /\ pc \in {"idle", "drained", "committing"}
    OBVIOUS
  <2>5. next \in Nat \ {0} /\ mark \in Nat /\ rawCount \in Nat /\ shifts \in Nat
    OBVIOUS
  <2>6. file \in Seq(Nat) /\ writing \in Seq(Nat) /\ cur \in Seq(Nat)
    BY <2>1
  <2> QED BY <2>1, <2>2, <2>3, <2>4, <2>5, <2>6 DEF TypeOK
<1>3. DepthBounded
  BY <1>1 DEF DepthBounded
<1>4. Numbered /\ InFlight /\ ArrivalOrder /\ SettledIsFinal
  BY <1>1 DEF Numbered, InFlight, ArrivalOrder, SettledIsFinal, Increasing
<1>5. NoSilentLoss
  BY DEF NoSilentLoss, Silent, Accepted
<1> QED BY <1>2, <1>3, <1>4, <1>5 DEF IInv

(* Steps that change neither the content nor the counters, and can only    *)
(* end a flight: the invariant speaks of Content alone.                    *)
LEMMA SameContent ==
    ASSUME IInv, TypeOK', Content' = Content,
           UNCHANGED <<next, settled, evicted, crashLost, shifts, torn>>,
           pc' = "drained" => UNCHANGED <<pc, mark, rawCount, cur, done, holder>>
    PROVE  IInv'
<1>1. DepthBounded'
  BY DEF IInv, DepthBounded
<1>2. Numbered'
  BY DEF IInv, Numbered
<1>3. InFlight'
  BY DEF IInv, InFlight, Increasing, Elems
<1>4. ArrivalOrder' /\ SettledIsFinal'
  BY DEF IInv, ArrivalOrder, SettledIsFinal, Increasing, Elems
<1>5. NoSilentLoss'
  BY DEF IInv, NoSilentLoss, Silent, Accepted, Elems
<1> QED BY <1>1, <1>2, <1>3, <1>4, <1>5 DEF IInv

LEMMA WriteLineStep == IInv /\ WriteLine => IInv'
<1> SUFFICES ASSUME IInv, WriteLine PROVE IInv'
  OBVIOUS
<1>1. file \in Seq(Nat) /\ writing \in Seq(Nat) /\ writing # <<>>
  BY DEF IInv, TypeOK, WriteLine
<1>2. /\ file' \in Seq(Nat) /\ writing' \in Seq(Nat)
      /\ Content' = Content
  BY <1>1, WriteLineContent DEF WriteLine, Content
<1>3. holder # NoProc
  BY <1>1 DEF IInv, TypeOK
<1>4. TypeOK'
  BY <1>2, <1>3 DEF IInv, TypeOK, WriteLine, flushVars
<1> QED BY <1>2, <1>4, SameContent DEF WriteLine, flushVars

LEMMA UnlockStep == IInv /\ Unlock => IInv'
<1> SUFFICES ASSUME IInv, Unlock PROVE IInv'
  OBVIOUS
<1>1. TypeOK'
  BY ProcAssumption DEF IInv, TypeOK, Unlock, Returned
<1>2. Content' = Content
  BY DEF Unlock, Content
<1>3. CASE pc' # "drained"
  BY <1>1, <1>2, <1>3, SameContent DEF Unlock
<1>4. CASE pc' = "drained"
  <2>1. pc = "drained" /\ holder \in Hook /\ shifts > 0
    BY <1>4 DEF Unlock, Returned, IInv, TypeOK, InFlight
  <2>2. Numbered' /\ DepthBounded' /\ ArrivalOrder' /\ SettledIsFinal' /\ NoSilentLoss'
    BY <1>2 DEF IInv, Numbered, DepthBounded, ArrivalOrder, SettledIsFinal,
                NoSilentLoss, Silent, Accepted, Increasing, Elems, Unlock
  <2>3. InFlight'
    BY <1>2, <2>1, ProcAssumption DEF IInv, InFlight, Increasing, Elems, Unlock
  <2> QED BY <1>1, <2>2, <2>3 DEF IInv
<1> QED BY <1>3, <1>4

LEMMA FlusherDiesHoldingStep == IInv /\ FlusherDiesHolding => IInv'
<1> SUFFICES ASSUME IInv, FlusherDiesHolding PROVE IInv'
  OBVIOUS
<1>1. TypeOK' /\ Content' = Content
  BY DEF IInv, TypeOK, FlusherDiesHolding, Content
<1> QED BY <1>1, SameContent DEF FlusherDiesHolding

(* A death inside the write-back loop leaves a prefix of the content.      *)
LEMMA CutContent ==
    ASSUME IInv, file' = file, writing' = <<>>
    PROVE  /\ Content' = file /\ Len(Content') <= Len(Content)
           /\ \A i \in 1..Len(Content') : i \in 1..Len(Content) /\ Content'[i] = Content[i]
           /\ Elems(Content) = Elems(Content') \cup Elems(writing)
<1>1. file \in Seq(Nat) /\ writing \in Seq(Nat)
  BY DEF IInv, TypeOK
<1>2. Content' = file
  BY <1>1 DEF Content
<1>3. /\ Len(Content) = Len(file) + Len(writing)
      /\ \A i \in 1..Len(file) : Content[i] = file[i]
      /\ \A i \in 1..Len(writing) : Content[Len(file) + i] = writing[i]
      /\ Len(file) \in Nat /\ Len(writing) \in Nat
  BY <1>1 DEF Content
<1>4. Elems(Content) \subseteq Elems(file) \cup Elems(writing)
  <2> SUFFICES ASSUME NEW i \in 1..Len(Content)
               PROVE  Content[i] \in Elems(file) \cup Elems(writing)
    BY DEF Elems
  <2>1. CASE i \in 1..Len(file)
    BY <2>1, <1>3 DEF Elems
  <2>2. CASE i \notin 1..Len(file)
    <3> DEFINE j == i - Len(file)
    <3>1. j \in 1..Len(writing) /\ i = Len(file) + j
      BY <2>2, <1>3
    <3> QED BY <3>1, <1>3 DEF Elems
  <2> QED BY <2>1, <2>2
<1>5. Elems(file) \subseteq Elems(Content)
  <2>1. 1..Len(file) \subseteq 1..Len(Content)
    BY <1>3
  <2> QED BY <2>1, <1>3 DEF Elems
<1>6. Elems(writing) \subseteq Elems(Content)
  <2>1. \A i \in 1..Len(writing) : Len(file) + i \in 1..Len(Content)
    BY <1>3
  <2> QED BY <2>1, <1>3 DEF Elems
<1>7. /\ Len(file) <= Len(Content)
      /\ \A i \in 1..Len(file) : i \in 1..Len(Content) /\ file[i] = Content[i]
  BY <1>3
<1> QED BY <1>2, <1>4, <1>5, <1>6, <1>7

(* The parts of the invariant a death inside the loop cannot disturb.      *)
LEMMA DiesWriting ==
    ASSUME IInv, file' = file, writing' = <<>>,
           UNCHANGED <<next, settled, evicted, shifts>>,
           torn => torn', torn' => shifts > 0,
           crashLost' = crashLost \cup Elems(writing)
    PROVE  /\ DepthBounded' /\ Numbered' /\ ArrivalOrder'
           /\ SettledIsFinal' /\ NoSilentLoss'
<1>1. /\ Content' = file /\ Len(Content') <= Len(Content)
      /\ \A i \in 1..Len(Content') : i \in 1..Len(Content) /\ Content'[i] = Content[i]
      /\ Elems(Content) = Elems(Content') \cup Elems(writing)
  BY CutContent
<1>2. /\ Len(Content') \in Nat /\ Len(Content) \in Nat /\ Cap \in Nat
  BY <1>1, SpoolAssumption DEF IInv, TypeOK, Content
<1>3. DepthBounded'
  BY <1>1, <1>2 DEF IInv, DepthBounded
<1>4. Numbered'
  BY <1>1 DEF IInv, Numbered
<1>5. ArrivalOrder'
  BY <1>1 DEF IInv, ArrivalOrder, Increasing
<1>6. SettledIsFinal'
  BY <1>1 DEF IInv, SettledIsFinal
<1>7. NoSilentLoss'
  BY <1>1 DEF IInv, NoSilentLoss, Silent, Accepted
<1> QED BY <1>3, <1>4, <1>5, <1>6, <1>7

LEMMA HookDiesStep == IInv /\ HookDies => IInv'
<1> SUFFICES ASSUME IInv, HookDies PROVE IInv'
  OBVIOUS
<1>1. holder # Flusher /\ pc # "committing" /\ NoProc # Flusher
  BY ProcAssumption DEF HookDies, IInv, TypeOK
<1>2. TypeOK'
  <2>1. crashLost' \subseteq Nat
    BY ElemsNat DEF HookDies, IInv, TypeOK
  <2>2. <<>> \in Seq(Nat)
    OBVIOUS
  <2> QED BY <1>1, <2>1, <2>2 DEF HookDies, IInv, TypeOK, flushVars
<1>3. torn' => shifts > 0
  BY DEF HookDies, IInv, Numbered, InFlight
<1>4. /\ DepthBounded' /\ Numbered' /\ ArrivalOrder'
      /\ SettledIsFinal' /\ NoSilentLoss'
  BY <1>3, DiesWriting DEF HookDies, flushVars
<1>5. InFlight'
  <2> SUFFICES ASSUME pc' = "drained" PROVE InFlight'
    BY DEF InFlight
  <2>1. pc = "drained" /\ torn' /\ shifts' > 0 /\ holder' \notin Hook
    BY ProcAssumption DEF HookDies, IInv, InFlight, flushVars
  <2> QED BY <2>1 DEF HookDies, IInv, InFlight, flushVars, Increasing, TypeOK
<1> QED BY <1>2, <1>4, <1>5 DEF IInv

LEMMA FlusherDiesWritingStep == IInv /\ FlusherDiesWriting => IInv'
<1> SUFFICES ASSUME IInv, FlusherDiesWriting PROVE IInv'
  OBVIOUS
<1>1. TypeOK'
  <2>1. crashLost' \subseteq Nat
    BY ElemsNat DEF FlusherDiesWriting, IInv, TypeOK
  <2>2. <<>> \in Seq(Nat) /\ NoProc # Flusher
    BY ProcAssumption
  <2> QED BY <2>1, <2>2 DEF FlusherDiesWriting, IInv, TypeOK
<1>2. torn' => shifts > 0
  BY DEF FlusherDiesWriting, IInv, Numbered
<1>3. /\ DepthBounded' /\ Numbered' /\ ArrivalOrder'
      /\ SettledIsFinal' /\ NoSilentLoss'
  BY <1>2, DiesWriting DEF FlusherDiesWriting
<1>4. InFlight'
  BY DEF FlusherDiesWriting, InFlight
<1> QED BY <1>1, <1>3, <1>4 DEF IInv

LEMMA AppendFitsStep == IInv /\ AppendFits => IInv'
<1> SUFFICES ASSUME IInv, AppendFits PROVE IInv'
  OBVIOUS
<1>1. /\ file \in Seq(Nat) /\ next \in Nat \ {0} /\ writing = <<>>
      /\ Cap \in Nat /\ Len(file) \in Nat
  BY SpoolAssumption DEF IInv, TypeOK, AppendFits
<1>2. /\ file' = Append(file, next) /\ next' = next + 1 /\ writing' = <<>>
      /\ Len(file) < Cap /\ holder = NoProc
  BY <1>1 DEF AppendFits
<1>3. Content = file /\ Content' = file'
  BY <1>1, <1>2 DEF Content
<1>4. /\ Len(Content') = Len(Content) + 1
      /\ \A i \in 1..Len(Content) : Content'[i] = Content[i]
      /\ Content'[Len(Content) + 1] = next
      /\ Len(Content) \in Nat
      /\ \A i \in 1..Len(Content) : Content[i] \in Nat
  BY <1>1, <1>2, <1>3
<1>5. TypeOK'
  BY <1>1, <1>2 DEF AppendFits, IInv, TypeOK, flushVars
<1>6. DepthBounded'
  BY <1>1, <1>2, <1>3, <1>4 DEF DepthBounded
<1>7. Numbered'
  <2>1. \A i \in 1..Len(Content') : Content'[i] \in 1..(next' - 1)
    <3> SUFFICES ASSUME NEW i \in 1..(Len(Content) + 1)
                 PROVE  Content'[i] \in 1..next
      BY <1>1, <1>2, <1>4
    <3>1. CASE i = Len(Content) + 1
      BY <3>1, <1>1, <1>4
    <3>2. CASE i # Len(Content) + 1
      <4>1. i \in 1..Len(Content)
        BY <3>2, <1>4
      <4>2. Content'[i] \in 1..(next - 1)
        BY <4>1, <1>4 DEF IInv, Numbered
      <4> QED BY <4>2, <1>1
    <3> QED BY <3>1, <3>2
  <2>2. \A n \in settled' : n \in 1..(next' - 1)
    BY <1>1, <1>2 DEF IInv, Numbered, AppendFits, flushVars
  <2> QED BY <2>1, <2>2 DEF IInv, Numbered, AppendFits
<1>8. InFlight'
  <2> SUFFICES ASSUME pc' = "drained" PROVE InFlight'
    BY DEF InFlight
  <2>0. /\ pc = "drained" /\ mark \in Nat /\ rawCount \in Nat /\ mark <= next
        /\ UNCHANGED <<pc, mark, rawCount, cur, done, settled, holder, shifts, torn>>
    BY DEF AppendFits, flushVars, IInv, InFlight, TypeOK
  <2>1. ~torn' => /\ Len(Content') >= rawCount
                  /\ \A i \in (rawCount + 1)..Len(Content') : Content'[i] >= mark
    BY <2>0, <1>1, <1>4 DEF IInv, InFlight
  <2>2. shifts' = 0 => \A i \in 1..rawCount : Content'[i] \in Elems(cur) \cup done
    <3> SUFFICES ASSUME shifts = 0, NEW i \in 1..rawCount
                 PROVE  Content'[i] \in Elems(cur) \cup done
      BY <2>0
    <3>1. ~torn
      BY DEF IInv, Numbered
    <3>2. i \in 1..Len(Content)
      BY <3>1, <2>0, <1>4 DEF IInv, InFlight
    <3> QED BY <3>2, <2>0, <1>4 DEF IInv, InFlight
  <2>3. mark' <= next'
    BY <2>0, <1>1, <1>2
  <2> QED BY <2>0, <2>1, <2>2, <2>3 DEF IInv, InFlight, Increasing, Elems
<1>9. ArrivalOrder'
  <2> SUFFICES ASSUME ~torn, NEW i \in 1..(Len(Content) + 1),
                      NEW j \in 1..(Len(Content) + 1), i < j
               PROVE  Content'[i] < Content'[j]
    BY <1>4 DEF ArrivalOrder, Increasing, AppendFits
  <2>1. i \in 1..Len(Content) /\ Content'[i] = Content[i]
    BY <1>4
  <2>2. CASE j = Len(Content) + 1
    BY <2>1, <2>2, <1>1, <1>4 DEF IInv, Numbered
  <2>3. CASE j # Len(Content) + 1
    <3>1. j \in 1..Len(Content) /\ Content'[j] = Content[j]
      BY <2>3, <1>4
    <3> QED BY <2>1, <3>1 DEF IInv, ArrivalOrder, Increasing
  <2> QED BY <2>2, <2>3
<1>10. SettledIsFinal'
  <2>1. next \notin settled
    BY <1>1 DEF IInv, Numbered
  <2>2. Elems(Content') \subseteq Elems(Content) \cup {next}
    BY <1>4 DEF Elems
  <2> QED BY <2>1, <2>2 DEF IInv, SettledIsFinal, AppendFits, flushVars
<1>11. NoSilentLoss'
  <2>1. Elems(Content) \subseteq Elems(Content') /\ next \in Elems(Content')
    BY <1>4 DEF Elems
  <2>2. Accepted' = Accepted \cup {next}
    BY <1>1, <1>2 DEF Accepted
  <2> QED BY <2>1, <2>2 DEF IInv, NoSilentLoss, Silent, AppendFits, flushVars
<1> QED BY <1>5, <1>6, <1>7, <1>8, <1>9, <1>10, <1>11 DEF IInv

LEMMA AppendEvictsStep ==
    ASSUME IInv, NEW h \in Hook, AppendEvicts(h)
    PROVE  IInv'
<1> DEFINE K == EvictKeep(file)
<1>1. /\ file \in Seq(Nat) /\ next \in Nat \ {0} /\ writing = <<>>
      /\ Cap \in Nat \ {0} /\ Len(file) \in Nat /\ shifts \in Nat
  BY SpoolAssumption DEF IInv, TypeOK, AppendEvicts
<1>2. Content = file /\ Len(file) = Cap
  BY <1>1 DEF Content, IInv, DepthBounded, AppendEvicts
<1>3. /\ K \in Seq(Nat) /\ Len(K) = Cap - 1
      /\ \A i \in 1..(Cap - 1) : K[i] = file[i + 1]
  <2>1. Cap - 1 \in Nat /\ ~(Len(file) <= Cap - 1)
    BY <1>1, <1>2
  <2>2. K \in Seq(Nat) /\ Len(K) = Cap - 1
    BY <1>1, <2>1, NewestProps DEF EvictKeep
  <2>3. \A i \in 1..Len(K) : K[i] = file[i + (Len(file) - Len(K))]
    BY <1>1, <2>1, NewestProps DEF EvictKeep
  <2> QED BY <1>1, <1>2, <2>2, <2>3
<1> HIDE DEF K
<1>4. Content' = Append(K, next)
  <2>1. Append(K, next) \in Seq(Nat)
    BY <1>1, <1>3
  <2> QED BY <2>1 DEF AppendEvicts, Content, K
<1>5. /\ Len(Content') = Cap /\ Content'[Cap] = next
      /\ \A i \in 1..(Cap - 1) : Content'[i] = Content[i + 1] /\ i + 1 \in 1..Len(Content)
      /\ Len(Content) = Cap
      /\ \A i \in 1..Len(Content) : Content[i] \in Nat
  BY <1>1, <1>2, <1>3, <1>4
<1>6. TypeOK'
  <2>1. writing' \in Seq(Nat) /\ file' \in Seq(Nat)
    BY <1>1, <1>3 DEF AppendEvicts, K
  <2>2. evicted' \subseteq Nat
    BY <1>1, ElemsNat DEF AppendEvicts, IInv, TypeOK
  <2>3. h # NoProc /\ h # Flusher /\ pc # "committing"
    BY ProcAssumption DEF AppendEvicts, IInv, TypeOK
  <2>4. shifts' \in Nat /\ next' \in Nat \ {0}
    BY <1>1 DEF AppendEvicts
  <2> QED BY <2>1, <2>2, <2>3, <2>4 DEF AppendEvicts, IInv, TypeOK, flushVars
<1>7. DepthBounded'
  BY <1>1, <1>5 DEF DepthBounded
<1>8. next' = next + 1
  BY DEF AppendEvicts
<1>9. Numbered'
  <2>1. \A i \in 1..Len(Content') : Content'[i] \in 1..(next' - 1)
    <3> SUFFICES ASSUME NEW i \in 1..Len(Content')
                 PROVE  Content'[i] \in 1..next
      BY <1>1, <1>8
    <3>1. CASE i = Cap
      BY <3>1, <1>1, <1>5
    <3>2. CASE i # Cap
      <4>1. i \in 1..(Cap - 1)
        BY <3>2, <1>1, <1>5
      <4>2. Content'[i] \in 1..(next - 1)
        BY <4>1, <1>5 DEF IInv, Numbered
      <4> QED BY <4>2, <1>1
    <3> QED BY <3>1, <3>2
  <2>2. \A n \in settled' : n \in 1..(next' - 1)
    BY <1>1, <1>8 DEF IInv, Numbered, AppendEvicts, flushVars
  <2>3. torn' => shifts' > 0
    BY <1>1 DEF IInv, Numbered, AppendEvicts
  <2> QED BY <2>1, <2>2, <2>3 DEF Numbered
<1>10. InFlight'
  <2> SUFFICES ASSUME pc' = "drained" PROVE InFlight'
    BY DEF InFlight
  <2>0. /\ pc = "drained" /\ mark \in Nat /\ rawCount \in Nat /\ mark <= next
        /\ rawCount <= Cap
        /\ UNCHANGED <<pc, mark, rawCount, cur, done, settled, torn>>
        /\ shifts' > 0
    BY <1>1 DEF AppendEvicts, flushVars, IInv, InFlight, TypeOK
  <2>1. ~torn' => /\ Len(Content') >= rawCount
                  /\ \A i \in (rawCount + 1)..Len(Content') : Content'[i] >= mark
    <3> SUFFICES ASSUME ~torn, NEW i \in (rawCount + 1)..Cap
                 PROVE  Content'[i] >= mark
      BY <2>0, <1>1, <1>5
    <3>1. CASE i = Cap
      BY <3>1, <2>0, <1>1, <1>5
    <3>2. CASE i # Cap
      <4>1. i \in 1..(Cap - 1) /\ i + 1 \in (rawCount + 1)..Len(Content)
        BY <3>2, <2>0, <1>1, <1>5
      <4> QED BY <4>1, <2>0, <1>5 DEF IInv, InFlight
    <3> QED BY <3>1, <3>2
  <2>2. mark' <= next' /\ ~(shifts' = 0)
    BY <2>0, <1>1, <1>8
  <2> QED BY <2>0, <2>1, <2>2 DEF IInv, InFlight, Increasing, Elems
<1>11. ArrivalOrder'
  <2> SUFFICES ASSUME ~torn, NEW i \in 1..Cap, NEW j \in 1..Cap, i < j
               PROVE  Content'[i] < Content'[j]
    BY <1>5 DEF ArrivalOrder, Increasing, AppendEvicts
  <2>1. i \in 1..(Cap - 1) /\ Content'[i] = Content[i + 1] /\ i + 1 \in 1..Len(Content)
    BY <1>1, <1>5
  <2>2. CASE j = Cap
    BY <2>1, <2>2, <1>1, <1>5 DEF IInv, Numbered
  <2>3. CASE j # Cap
    <3>1. /\ j \in 1..(Cap - 1) /\ Content'[j] = Content[j + 1]
          /\ j + 1 \in 1..Len(Content) /\ i + 1 < j + 1
      BY <2>3, <1>1, <1>5
    <3> QED BY <2>1, <3>1 DEF IInv, ArrivalOrder, Increasing
  <2> QED BY <2>2, <2>3
<1>12. SettledIsFinal'
  <2>1. next \notin settled
    BY <1>1 DEF IInv, Numbered
  <2>2. Elems(Content') \subseteq Elems(Content) \cup {next}
    <3> SUFFICES ASSUME NEW i \in 1..Cap
                 PROVE  Content'[i] \in Elems(Content) \cup {next}
      BY <1>5 DEF Elems
    <3>1. CASE i = Cap
      BY <3>1, <1>5
    <3>2. CASE i # Cap
      <4>1. i \in 1..(Cap - 1)
        BY <3>2, <1>1
      <4> QED BY <4>1, <1>5 DEF Elems
    <3> QED BY <3>1, <3>2
  <2> QED BY <2>1, <2>2 DEF IInv, SettledIsFinal, AppendEvicts, flushVars
<1>13. NoSilentLoss'
  <2> SUFFICES ASSUME shifts' = 0 PROVE Silent' = {}
    BY DEF NoSilentLoss
  <2>1. shifts = 0
    BY <1>1 DEF AppendEvicts
  <2>2. Elems(K) \subseteq Elems(Content') /\ next \in Elems(Content')
    <3>1. \A i \in 1..Len(K) : i \in 1..Len(Content') /\ Content'[i] = K[i]
      BY <1>1, <1>3, <1>4, <1>5
    <3>2. Cap \in 1..Len(Content')
      BY <1>1, <1>5
    <3> QED BY <3>1, <3>2, <1>5 DEF Elems
  <2>3. Elems(Content) \subseteq Elems(Content') \cup evicted'
    BY <2>2, <1>2 DEF AppendEvicts, K
  <2>4. Accepted' = Accepted \cup {next}
    BY <1>1, <1>8 DEF Accepted
  <2> QED BY <2>1, <2>2, <2>3, <2>4
          DEF IInv, NoSilentLoss, Silent, AppendEvicts, flushVars
<1> QED BY <1>6, <1>7, <1>9, <1>10, <1>11, <1>12, <1>13 DEF IInv

LEMMA DrainStep == IInv /\ Drain => IInv'
<1> SUFFICES ASSUME IInv, Drain PROVE IInv'
  OBVIOUS
<1>1. PICK h \in Picks(Len(file)) :
         /\ {h[j] : j \in DOMAIN h} = {i \in 1..Len(file) : file[i] \notin Malformed}
         /\ cur' = Picked(file, h)
  BY DEF Drain
<1>2. /\ file \in Seq(Nat) /\ writing = <<>> /\ next \in Nat \ {0}
      /\ Len(file) \in Nat /\ Cap \in Nat
  BY SpoolAssumption DEF IInv, TypeOK, Drain
<1>3. Content = file /\ Content' = Content
  BY <1>2 DEF Drain, Content
<1>4. /\ cur' \in Seq(Nat) /\ DOMAIN h = 1..Len(cur')
      /\ \A i \in 1..Len(cur') : h[i] \in 1..Len(file) /\ cur'[i] = file[h[i]]
      /\ Increasing(file) => Increasing(cur')
  BY <1>1, <1>2, PickedProps
<1>5. TypeOK'
  <2>1. done' \subseteq Nat
    BY <1>2, ElemsNat DEF Drain
  <2>2. holder # Flusher
    BY ProcAssumption DEF Drain
  <2> QED BY <1>2, <1>4, <2>1, <2>2 DEF Drain, IInv, TypeOK
<1>6. /\ DepthBounded' /\ Numbered' /\ ArrivalOrder'
      /\ SettledIsFinal' /\ NoSilentLoss'
  BY <1>3 DEF IInv, DepthBounded, Numbered, ArrivalOrder, SettledIsFinal,
              NoSilentLoss, Silent, Accepted, Increasing, Elems, Drain
<1>7. InFlight'
  <2>1. \A i \in 1..Len(cur') : cur'[i] \in 1..(mark' - 1) /\ cur'[i] \notin done'
    <3> SUFFICES ASSUME NEW i \in 1..Len(cur')
                 PROVE  cur'[i] \in 1..(next - 1) /\ cur'[i] \notin Malformed
      BY DEF Drain
    <3>1. h[i] \in {k \in 1..Len(file) : file[k] \notin Malformed}
      BY <1>1, <1>4
    <3> QED BY <3>1, <1>3, <1>4 DEF IInv, Numbered
  <2>2. \A n \in done' : n \in 1..(mark' - 1)
    BY <1>3 DEF Drain, IInv, Numbered, Elems
  <2>3. ~torn' => /\ Increasing(cur')
                  /\ \A i \in 1..Len(cur') : cur'[i] \notin settled'
    BY <1>3, <1>4 DEF Drain, IInv, ArrivalOrder, SettledIsFinal, Elems
  <2>4. \A i \in 1..rawCount' : Content'[i] \in Elems(cur') \cup done'
    <3> SUFFICES ASSUME NEW i \in 1..Len(file), file[i] \notin Malformed
                 PROVE  file[i] \in Elems(cur')
      BY <1>3 DEF Drain, Elems
    <3>1. i \in {h[j] : j \in DOMAIN h}
      BY <1>1
    <3>2. PICK j \in 1..Len(cur') : h[j] = i
      BY <3>1, <1>4
    <3> QED BY <3>2, <1>4 DEF Elems
  <2>5. /\ Len(Content') >= rawCount' /\ rawCount' <= Cap /\ mark' <= next'
        /\ holder' \notin Hook
        /\ \A i \in (rawCount' + 1)..Len(Content') : Content'[i] >= mark'
    BY <1>2, <1>3, ProcAssumption DEF Drain, IInv, DepthBounded
  <2> QED BY <2>1, <2>2, <2>3, <2>4, <2>5 DEF InFlight
<1> QED BY <1>5, <1>6, <1>7 DEF IInv

LEMMA AnswerStep == IInv /\ Answer => IInv'
<1> SUFFICES ASSUME IInv, Answer PROVE IInv'
  OBVIOUS
<1>1. PICK h \in Picks(Len(cur)) :
         /\ cur' = Picked(cur, h)
         /\ done' = done \cup (Elems(cur) \ Elems(Picked(cur, h)))
  BY DEF Answer
<1>2. cur \in Seq(Nat) /\ pc = "drained" /\ Content' = Content
  BY DEF IInv, TypeOK, Answer, Content
<1>3. /\ cur' \in Seq(Nat) /\ Elems(cur') \subseteq Elems(cur)
      /\ Increasing(cur) => Increasing(cur')
  BY <1>1, <1>2, PickedProps
<1>4. TypeOK'
  BY <1>1, <1>2, <1>3, ElemsNat DEF IInv, TypeOK, Answer
<1>5. /\ DepthBounded' /\ Numbered' /\ ArrivalOrder'
      /\ SettledIsFinal' /\ NoSilentLoss'
  BY <1>2 DEF IInv, DepthBounded, Numbered, ArrivalOrder, SettledIsFinal,
              NoSilentLoss, Silent, Accepted, Increasing, Elems, Answer
<1>6. InFlight'
  <2>1. \A i \in 1..Len(cur') : cur'[i] \in Elems(cur) /\ cur'[i] \in Elems(cur')
    BY <1>3 DEF Elems
  <2>2. \A n \in Elems(cur) : n \in 1..(mark - 1) /\ n \notin done
    BY <1>2 DEF IInv, InFlight, Elems
  <2>3. \A i \in 1..Len(cur') : cur'[i] \in 1..(mark - 1) /\ cur'[i] \notin done'
    BY <1>1, <2>1, <2>2
  <2>4. \A n \in done' : n \in 1..(mark - 1)
    BY <1>1, <1>2, <2>2 DEF IInv, InFlight
  <2>5. ~torn => /\ Increasing(cur')
                 /\ \A i \in 1..Len(cur') : cur'[i] \notin settled
    BY <1>2, <1>3, <2>1 DEF IInv, InFlight, Elems
  <2>6. shifts = 0 => \A i \in 1..rawCount : Content[i] \in Elems(cur') \cup done'
    BY <1>1, <1>2 DEF IInv, InFlight
  <2>7. UNCHANGED <<pc, mark, next, rawCount, torn, shifts, settled, holder>>
    BY DEF Answer
  <2> QED BY <1>2, <2>3, <2>4, <2>5, <2>6, <2>7 DEF IInv, InFlight
<1> QED BY <1>4, <1>5, <1>6 DEF IInv

(* What rewrite takes for the lines added since Drain are lines of the     *)
(* file, and, unless a hook died evicting, lines added since Drain.        *)
LEMMA AppendedSinceProps ==
    ASSUME IInv, pc = "drained", holder = NoProc
    PROVE  LET A == AppendedSince(file) IN
           /\ A \in Seq(Nat)
           /\ Elems(A) \subseteq Elems(Content)
           /\ ~torn => Increasing(A) /\ \A i \in 1..Len(A) : A[i] >= mark
           /\ shifts = 0 => Elems(Content) \subseteq Elems(A) \cup Elems(cur) \cup done
<1> DEFINE A == AppendedSince(file)
<1>1. /\ file \in Seq(Nat) /\ Len(file) \in Nat /\ rawCount \in Nat
      /\ writing = <<>> /\ Content = file
  BY DEF IInv, TypeOK, Content
<1>2. CASE Len(file) >= rawCount
  <2>1. A = SubSeq(file, rawCount + 1, Len(file))
    BY <1>2 DEF AppendedSince
  <2>2. /\ A \in Seq(Nat) /\ Len(A) = Len(file) - rawCount
        /\ \A i \in 1..Len(A) : A[i] = file[rawCount + i] /\ rawCount + i \in (rawCount + 1)..Len(file)
                                /\ rawCount + i \in 1..Len(file)
    BY <2>1, <1>1, <1>2
  <2> HIDE DEF A
  <2>3. Elems(A) \subseteq Elems(Content)
    BY <2>2, <1>1 DEF Elems
  <2>4. ~torn => Increasing(A) /\ \A i \in 1..Len(A) : A[i] >= mark
    <3> SUFFICES ASSUME ~torn PROVE Increasing(A) /\ \A i \in 1..Len(A) : A[i] >= mark
      OBVIOUS
    <3>1. \A i \in 1..Len(A) : A[i] >= mark
      BY <2>2, <1>1 DEF IInv, InFlight
    <3>2. ASSUME NEW i \in 1..Len(A), NEW j \in 1..Len(A), i < j
          PROVE  A[i] < A[j]
      <4>1. rawCount + i < rawCount + j
        BY <3>2, <1>1, <2>2
      <4> QED BY <4>1, <2>2, <1>1 DEF IInv, ArrivalOrder, Increasing
    <3> QED BY <3>1, <3>2 DEF Increasing
  <2>5. shifts = 0 => Elems(Content) \subseteq Elems(A) \cup Elems(cur) \cup done
    <3> SUFFICES ASSUME shifts = 0, NEW i \in 1..Len(file)
                 PROVE  file[i] \in Elems(A) \cup Elems(cur) \cup done
      BY <1>1 DEF Elems
    <3>1. CASE i \in 1..rawCount
      BY <3>1, <1>1 DEF IInv, InFlight
    <3>2. CASE i \notin 1..rawCount
      <4> DEFINE j == i - rawCount
      <4>1. j \in 1..Len(A) /\ rawCount + j = i
        BY <3>2, <1>1, <1>2, <2>2
      <4>2. A[j] = file[i]
        BY <4>1, <2>2
      <4> QED BY <4>1, <4>2 DEF Elems
    <3> QED BY <3>1, <3>2
  <2> QED BY <2>2, <2>3, <2>4, <2>5 DEF A
<1>3. CASE ~(Len(file) >= rawCount)
  <2>1. A = file
    BY <1>3 DEF AppendedSince
  <2>2. torn /\ shifts # 0
    BY <1>1, <1>3 DEF IInv, InFlight, Numbered, TypeOK
  <2> QED BY <1>1, <2>1, <2>2
<1> QED BY <1>2, <1>3

LEMMA CommitStep == IInv /\ Commit => IInv'
<1> SUFFICES ASSUME IInv, Commit PROVE IInv'
  OBVIOUS
<1> DEFINE A == AppendedSince(file)
           F == cur \o A
           N == Newest(F, Cap)
<1>1. /\ pc = "drained" /\ holder = NoProc /\ Cap \in Nat /\ mark \in Nat
      /\ next \in Nat \ {0} /\ cur \in Seq(Nat) /\ mark <= next
      /\ shifts' = shifts /\ torn' = torn /\ next' = next
  BY SpoolAssumption DEF IInv, InFlight, TypeOK, Commit, MayCommit
<1>2. /\ A \in Seq(Nat)
      /\ Elems(A) \subseteq Elems(Content)
      /\ ~torn => Increasing(A) /\ \A i \in 1..Len(A) : A[i] >= mark
      /\ shifts = 0 => Elems(Content) \subseteq Elems(A) \cup Elems(cur) \cup done
  BY <1>1, AppendedSinceProps
<1> HIDE DEF A
<1>3. /\ F \in Seq(Nat) /\ Len(F) = Len(cur) + Len(A)
      /\ Len(cur) \in Nat /\ Len(A) \in Nat
      /\ \A i \in 1..Len(cur) : F[i] = cur[i]
      /\ \A i \in 1..Len(A) : F[Len(cur) + i] = A[i]
  BY <1>1, <1>2
<1> HIDE DEF F
<1>4. \A i \in 1..Len(F) : \/ i \in 1..Len(cur) /\ F[i] = cur[i]
                           \/ i - Len(cur) \in 1..Len(A) /\ F[i] = A[i - Len(cur)]
  <2> SUFFICES ASSUME NEW i \in 1..Len(F), i \notin 1..Len(cur)
               PROVE  i - Len(cur) \in 1..Len(A) /\ F[i] = A[i - Len(cur)]
    BY <1>3
  <2>1. i - Len(cur) \in 1..Len(A) /\ Len(cur) + (i - Len(cur)) = i
    BY <1>3
  <2> QED BY <2>1, <1>3
<1>5. Elems(F) = Elems(cur) \cup Elems(A)
  <2>1. Elems(F) \subseteq Elems(cur) \cup Elems(A)
    BY <1>4 DEF Elems
  <2>2. \A i \in 1..Len(cur) : i \in 1..Len(F)
    BY <1>3
  <2>3. \A i \in 1..Len(A) : Len(cur) + i \in 1..Len(F)
    BY <1>3
  <2>4. Elems(cur) \subseteq Elems(F)
    BY <2>2, <1>3 DEF Elems
  <2>5. Elems(A) \subseteq Elems(F)
    BY <2>3, <1>3 DEF Elems
  <2> QED BY <2>1, <2>4, <2>5
<1>6. /\ N \in Seq(Nat) /\ Len(N) \in Nat /\ Len(N) <= Cap
      /\ \A i \in 1..Len(N) : /\ i + (Len(F) - Len(N)) \in 1..Len(F)
                              /\ N[i] = F[i + (Len(F) - Len(N))]
  <2>1. /\ N \in Seq(Nat)
        /\ Len(F) <= Cap => Len(N) = Len(F)
        /\ ~(Len(F) <= Cap) => Len(N) = Cap
        /\ \A i \in 1..Len(N) : N[i] = F[i + (Len(F) - Len(N))]
    BY <1>1, <1>3, NewestProps
  <2>2. Len(F) \in Nat
    BY <1>3
  <2> HIDE DEF N
  <2> QED BY <2>1, <2>2, <1>1
<1>7. Elems(F) = Elems(N) \cup Elems(Overflow(F, Cap))
  BY <1>1, <1>3, OverflowProps
<1>8. /\ file' = <<>> /\ writing' = N /\ holder' = Flusher /\ pc' = "committing"
      /\ settled' = settled \cup done
      /\ evicted' = evicted \cup Elems(Overflow(F, Cap))
  BY DEF Commit, Rewritten, A, F, N
<1>9. Elems(Overflow(F, Cap)) \subseteq Nat
  BY <1>1, <1>3, OverflowProps, ElemsNat
<1> HIDE DEF N
<1>10. Content' = N
  BY <1>6, <1>8 DEF Content
<1>11. TypeOK'
  <2>1. <<>> \in Seq(Nat) /\ Flusher # NoProc
    BY ProcAssumption
  <2> QED BY <1>1, <1>6, <1>8, <1>9, <2>1 DEF IInv, TypeOK, Commit
<1>12. DepthBounded'
  BY <1>6, <1>10 DEF DepthBounded
<1>13. \A n \in Elems(F) : n \in 1..(next - 1)
  <2>1. \A n \in Elems(cur) : n \in 1..(mark - 1)
    BY <1>1 DEF IInv, InFlight, Elems
  <2>2. \A n \in Elems(Content) : n \in 1..(next - 1)
    BY DEF IInv, Numbered, Elems
  <2> QED BY <2>1, <2>2, <1>1, <1>2, <1>5
<1>14. Numbered'
  <2>1. \A i \in 1..Len(N) : N[i] \in Elems(F)
    BY <1>6 DEF Elems
  <2>2. \A n \in settled' : n \in 1..(next - 1)
    BY <1>1, <1>8 DEF IInv, Numbered, InFlight
  <2> QED BY <1>1, <1>10, <1>13, <2>1, <2>2 DEF IInv, Numbered
<1>15. InFlight'
  BY <1>8 DEF InFlight
<1>16. ASSUME ~torn PROVE Increasing(F)
  <2> SUFFICES ASSUME NEW i \in 1..Len(F), NEW j \in 1..Len(F), i < j
               PROVE  F[i] < F[j]
    BY DEF Increasing
  <2>1. \A k \in 1..Len(cur) : cur[k] \in Nat /\ cur[k] < mark
    BY <1>1 DEF IInv, InFlight
  <2>2. \A k \in 1..Len(A) : A[k] \in Nat /\ A[k] >= mark
    BY <1>2, <1>16
  <2>3. CASE j \in 1..Len(cur)
    <3>1. i \in 1..Len(cur)
      BY <2>3, <1>3
    <3> QED BY <1>1, <1>3, <1>16, <2>3, <3>1 DEF IInv, InFlight, Increasing
  <2>4. CASE j \notin 1..Len(cur)
    <3>1. j - Len(cur) \in 1..Len(A) /\ F[j] = A[j - Len(cur)]
      BY <2>4, <1>4
    <3>2. CASE i \in 1..Len(cur)
      <4>1. F[i] = cur[i] /\ cur[i] \in Nat /\ cur[i] < mark
        BY <3>2, <2>1, <1>3
      <4>2. F[j] \in Nat /\ F[j] >= mark
        BY <3>1, <2>2
      <4> QED BY <4>1, <4>2, <1>1
    <3>3. CASE i \notin 1..Len(cur)
      <4>1. i - Len(cur) \in 1..Len(A) /\ F[i] = A[i - Len(cur)]
        BY <3>3, <1>4
      <4>2. i - Len(cur) < j - Len(cur)
        BY <1>3
      <4> QED BY <3>1, <4>1, <4>2, <1>2, <1>16 DEF Increasing
    <3> QED BY <3>2, <3>3
  <2> QED BY <2>3, <2>4
<1>17. ArrivalOrder'
  <2> SUFFICES ASSUME ~torn, NEW i \in 1..Len(N), NEW j \in 1..Len(N), i < j
               PROVE  N[i] < N[j]
    BY <1>1, <1>10 DEF ArrivalOrder, Increasing
  <2>1. i + (Len(F) - Len(N)) < j + (Len(F) - Len(N))
    BY <1>3, <1>6
  <2> QED BY <2>1, <1>6, <1>16 DEF Increasing
<1>18. SettledIsFinal'
  <2> SUFFICES ASSUME ~torn PROVE (settled \cup done) \cap Elems(N) = {}
    BY <1>1, <1>8, <1>10 DEF SettledIsFinal
  <2>1. Elems(cur) \cap (settled \cup done) = {}
    BY <1>1 DEF IInv, InFlight, Elems
  <2>2. Elems(A) \cap settled = {}
    BY <1>2 DEF IInv, SettledIsFinal
  <2>3. Elems(A) \cap done = {}
    <3>1. \A n \in Elems(A) : n >= mark
      BY <1>2 DEF Elems
    <3>2. \A n \in done : n \in 1..(mark - 1)
      BY <1>1 DEF IInv, InFlight
    <3> QED BY <3>1, <3>2, <1>1
  <2> QED BY <2>1, <2>2, <2>3, <1>5, <1>7
<1>19. NoSilentLoss'
  <2> SUFFICES ASSUME shifts = 0 PROVE Silent' = {}
    BY <1>1 DEF NoSilentLoss
  <2>1. Elems(Content) \subseteq Elems(N) \cup evicted' \cup settled'
    BY <1>2, <1>5, <1>7, <1>8
  <2>2. crashLost' = crashLost /\ Accepted' = Accepted
    BY <1>1 DEF Commit, Accepted
  <2> QED BY <1>8, <1>10, <2>1, <2>2 DEF IInv, NoSilentLoss, Silent
<1> QED BY <1>11, <1>12, <1>14, <1>15, <1>17, <1>18, <1>19 DEF IInv

-----------------------------------------------------------------------------
(* The theorems.                                                           *)

LEMMA StepIInv == IInv /\ [Next]_vars => IInv'
<1> SUFFICES ASSUME IInv, [Next]_vars PROVE IInv'
  OBVIOUS
<1>1. CASE Next
  BY <1>1, AppendFitsStep, AppendEvictsStep, WriteLineStep, UnlockStep,
     DrainStep, AnswerStep, CommitStep, HookDiesStep, FlusherDiesHoldingStep,
     FlusherDiesWritingStep DEF Next
<1>2. CASE UNCHANGED vars
  <2>1. TypeOK' /\ Content' = Content
    BY <1>2 DEF vars, IInv, TypeOK, Content
  <2> QED BY <1>2, <2>1, SameContent DEF vars
<1> QED BY <1>1, <1>2

LEMMA Invariance == Spec => []IInv
BY InitIInv, StepIInv, PTL DEF Spec

(* Every variable of the spool and the flusher keeps its type, only the    *)
(* process inside the write-back loop has lines to write, and commit has   *)
(* returned exactly when the flusher has left that loop.                   *)
THEOREM SpoolTypeOK == Spec => []TypeOK
<1>1. IInv => TypeOK
  BY DEF IInv
<1> QED BY <1>1, Invariance, PTL

(* BR-03 for every Cap: append's eviction and rewrite's clamp together     *)
(* keep the file at or under Cap lines, also half-way through a write-back.*)
THEOREM SpoolDepthBounded == Spec => []DepthBounded
<1>1. IInv => DepthBounded
  BY DEF IInv
<1> QED BY <1>1, Invariance, PTL

(* Whatever is appended, evicted, answered and killed, the lines stay in   *)
(* arrival order and none is there twice, unless a hook died evicting      *)
(* during a flush.                                                         *)
THEOREM SpoolArrivalOrder == Spec => []ArrivalOrder
<1>1. IInv => ArrivalOrder
  BY DEF IInv
<1> QED BY <1>1, Invariance, PTL

(* A line whose answer reached a commit is never in the file again.        *)
THEOREM SpoolSettledIsFinal == Spec => []SettledIsFinal
<1>1. IInv => SettledIsFinal
  BY DEF IInv
<1> QED BY <1>1, Invariance, PTL

(* NFR-08: until an eviction by a hook overlaps a flush, every line ever   *)
(* appended is in the file, answered, evicted as the oldest of a full      *)
(* file, or lost with a process that died writing it back.                 *)
THEOREM SpoolNoSilentLoss == Spec => []NoSilentLoss
<1>1. IInv => NoSilentLoss
  BY DEF IInv
<1> QED BY <1>1, Invariance, PTL

-----------------------------------------------------------------------------
(* What an eviction during a flush can cost.  The lines are lost at the    *)
(* commit, long after the evictions that doomed them, so the bound is not  *)
(* inductive.  It is once it also counts the doomed lines: those at a      *)
(* position that commit will skip, rawCount of them, and that the flusher  *)
(* does not have.                                                          *)

Doomed ==
    IF pc = "drained"
    THEN {Content[i] : i \in 1..rawCount} \ (Elems(cur) \cup done)
    ELSE {}

Gone == Silent \cup Doomed

LossInv == ~torn => IsFiniteSet(Gone) /\ Cardinality(Gone) <= shifts

-----------------------------------------------------------------------------
(* A step after which at most the same lines are gone.                     *)
LEMMA NoneGone ==
    ASSUME LossInv, torn => torn', Gone' \subseteq Gone, shifts' = shifts, shifts \in Nat
    PROVE  LossInv'
<1> SUFFICES ASSUME ~torn' PROVE IsFiniteSet(Gone') /\ Cardinality(Gone') <= shifts
  BY DEF LossInv
<1>1. IsFiniteSet(Gone) /\ Cardinality(Gone) <= shifts
  BY DEF LossInv
<1>2. Gone' \in SUBSET Gone
  OBVIOUS
<1>3. IsFiniteSet(Gone') /\ Cardinality(Gone') <= Cardinality(Gone)
  BY <1>1, <1>2, FS_Subset
<1>4. Cardinality(Gone) \in Nat /\ Cardinality(Gone') \in Nat
  BY <1>1, <1>3, FS_CardinalityType
<1> QED BY <1>1, <1>3, <1>4

(* An eviction during a flush: one more.                                   *)
LEMMA OneGone ==
    ASSUME LossInv, torn => torn', NEW x, Gone' \subseteq Gone \cup {x},
           shifts' = shifts + 1, shifts \in Nat
    PROVE  LossInv'
<1> SUFFICES ASSUME ~torn' PROVE IsFiniteSet(Gone') /\ Cardinality(Gone') <= shifts + 1
  BY DEF LossInv
<1>1. IsFiniteSet(Gone) /\ Cardinality(Gone) <= shifts
  BY DEF LossInv
<1>2. Cardinality(Gone) \in Nat
  BY <1>1, FS_CardinalityType
<1>3. /\ IsFiniteSet(Gone \cup {x})
      /\ Cardinality(Gone \cup {x}) =
            IF x \in Gone THEN Cardinality(Gone) ELSE Cardinality(Gone) + 1
  BY <1>1, FS_AddElement
<1>4. Gone' \in SUBSET (Gone \cup {x})
  OBVIOUS
<1>5. IsFiniteSet(Gone') /\ Cardinality(Gone') <= Cardinality(Gone \cup {x})
  BY <1>3, <1>4, FS_Subset
<1>6. Cardinality(Gone') \in Nat
  BY <1>5, FS_CardinalityType
<1> QED BY <1>1, <1>2, <1>3, <1>5, <1>6

(* A step loses silently only the lines of lost, if all the others that    *)
(* leave the file are answered, evicted or lost in a crash.                *)
LEMMA SilentStep ==
    ASSUME NEW lost,
           settled \subseteq settled', evicted \subseteq evicted', crashLost \subseteq crashLost',
           Accepted' \subseteq Accepted \cup Elems(Content)',
           Elems(Content) \subseteq
              Elems(Content)' \cup settled' \cup evicted' \cup crashLost' \cup lost
    PROVE  Silent' \subseteq Silent \cup lost
BY DEF Silent

(* Steps that change neither the content nor what is drained or answered.  *)
LEMMA SameGone ==
    ASSUME Content' = Content,
           UNCHANGED <<next, settled, evicted, crashLost>>,
           pc' = "drained" => UNCHANGED <<pc, rawCount, cur, done>>
    PROVE  Gone' \subseteq Gone
BY DEF Gone, Silent, Accepted, Doomed, Elems

-----------------------------------------------------------------------------
(* One lemma for each action that disturbs the count.                      *)

LEMMA AppendFitsLoss == IInv /\ LossInv /\ AppendFits => LossInv'
<1> SUFFICES ASSUME IInv, LossInv, AppendFits, ~torn PROVE LossInv'
  BY DEF LossInv, AppendFits
<1>1. /\ file \in Seq(Nat) /\ next \in Nat \ {0} /\ writing = <<>> /\ shifts \in Nat
      /\ rawCount \in Nat
  BY DEF IInv, TypeOK, AppendFits
<1>2. Content = file /\ Content' = Append(file, next)
  <2>1. Append(file, next) \in Seq(Nat)
    BY <1>1
  <2> QED BY <1>1, <2>1 DEF Content, AppendFits
<1>3. /\ Len(Content) \in Nat /\ Len(Content') = Len(Content) + 1
      /\ \A i \in 1..Len(Content) : Content'[i] = Content[i]
      /\ Content'[Len(Content) + 1] = next
  BY <1>1, <1>2
<1>4. Elems(Content) \subseteq Elems(Content') /\ next \in Elems(Content')
  BY <1>3 DEF Elems
<1>5. Accepted' \subseteq Accepted \cup Elems(Content')
  BY <1>1, <1>4 DEF Accepted, AppendFits
<1>6. Silent' \subseteq Silent \cup {}
  BY <1>4, <1>5, SilentStep DEF AppendFits, flushVars
<1>7. Doomed' \subseteq Doomed
  <2> SUFFICES ASSUME pc = "drained"
               PROVE  \A i \in 1..rawCount : Content'[i] = Content[i]
    BY DEF Doomed, AppendFits, flushVars, Elems
  <2>1. Len(Content) >= rawCount
    BY DEF IInv, InFlight
  <2> QED BY <2>1, <1>1, <1>3
<1> QED BY <1>1, <1>6, <1>7, NoneGone DEF Gone, AppendFits

LEMMA AppendEvictsLoss ==
    ASSUME IInv, LossInv, NEW h \in Hook, AppendEvicts(h)
    PROVE  LossInv'
<1> SUFFICES ASSUME ~torn PROVE LossInv'
  BY DEF LossInv, AppendEvicts
<1> DEFINE K == EvictKeep(file)
<1>1. /\ file \in Seq(Nat) /\ next \in Nat \ {0} /\ writing = <<>>
      /\ Cap \in Nat \ {0} /\ Len(file) \in Nat /\ shifts \in Nat /\ rawCount \in Nat
  BY SpoolAssumption DEF IInv, TypeOK, AppendEvicts
<1>2. Content = file /\ Len(file) = Cap
  BY <1>1 DEF Content, IInv, DepthBounded, AppendEvicts
<1>3. /\ K \in Seq(Nat) /\ Len(K) = Cap - 1
      /\ \A i \in 1..(Cap - 1) : K[i] = file[i + 1]
  <2>1. Cap - 1 \in Nat /\ ~(Len(file) <= Cap - 1)
    BY <1>1, <1>2
  <2>2. K \in Seq(Nat) /\ Len(K) = Cap - 1
    BY <1>1, <2>1, NewestProps DEF EvictKeep
  <2>3. \A i \in 1..Len(K) : K[i] = file[i + (Len(file) - Len(K))]
    BY <1>1, <2>1, NewestProps DEF EvictKeep
  <2> QED BY <1>1, <1>2, <2>2, <2>3
<1>4. evicted' = evicted \cup (Elems(file) \ Elems(K))
  BY DEF AppendEvicts, K
<1>5. Content' = Append(K, next)
  <2>1. Append(EvictKeep(file), next) \in Seq(Nat)
    BY <1>1, <1>3
  <2> QED BY <2>1 DEF AppendEvicts, Content
<1> HIDE DEF K
<1>6. /\ Len(Content') = Cap /\ Content'[Cap] = next
      /\ \A i \in 1..(Cap - 1) : Content'[i] = K[i] /\ K[i] = Content[i + 1]
  BY <1>1, <1>2, <1>3, <1>5
<1>7. Elems(K) \subseteq Elems(Content') /\ next \in Elems(Content')
  <2>1. \A i \in 1..Len(K) : i \in 1..Len(Content') /\ Content'[i] = K[i]
    BY <1>1, <1>3, <1>6
  <2>2. Cap \in 1..Len(Content')
    BY <1>1, <1>6
  <2> QED BY <2>1, <2>2, <1>6 DEF Elems
<1>8. Silent' \subseteq Silent \cup {}
  <2>1. Accepted' \subseteq Accepted \cup Elems(Content')
    BY <1>1, <1>7 DEF Accepted, AppendEvicts
  <2>2. Elems(Content) \subseteq Elems(Content') \cup evicted'
    BY <1>2, <1>4, <1>7
  <2> QED BY <1>4, <2>1, <2>2, SilentStep DEF AppendEvicts, flushVars
<1>9. CASE pc # "drained"
  <2>1. Doomed' = {} /\ shifts' = shifts /\ torn' = torn
    BY <1>9 DEF Doomed, AppendEvicts, flushVars
  <2> QED BY <1>1, <1>8, <2>1, NoneGone DEF Gone
<1>10. CASE pc = "drained"
  (* Each line moves down by one, and one comes into the skipped positions. *)
  <2> DEFINE x == Content'[rawCount]
  <2>1. rawCount <= Cap
    BY <1>10 DEF IInv, InFlight
  <2>2. ASSUME NEW i \in 1..rawCount
        PROVE  Content'[i] \in {Content[j] : j \in 1..rawCount} \cup {x}
    <3>1. CASE i = rawCount
      BY <3>1
    <3>2. CASE i # rawCount
      <4>1. i \in 1..(Cap - 1) /\ i + 1 \in 1..rawCount
        BY <3>2, <2>1, <1>1
      <4> QED BY <4>1, <1>6
    <3> QED BY <3>1, <3>2
  <2>3. Doomed' \subseteq Doomed \cup {x}
    <3>1. /\ pc' = "drained" /\ rawCount' = rawCount /\ cur' = cur /\ done' = done
      BY <1>10 DEF AppendEvicts, flushVars
    <3> HIDE DEF x
    <3> QED BY <1>10, <2>2, <3>1 DEF Doomed, Elems
  <2>4. shifts' = shifts + 1 /\ torn' = torn
    BY <1>10 DEF AppendEvicts
  <2> HIDE DEF x
  <2> QED BY <1>1, <1>8, <2>3, <2>4, OneGone DEF Gone
<1> QED BY <1>9, <1>10

(* The drained positions hold what the flusher has: nothing is doomed yet. *)
LEMMA DrainLoss == IInv /\ LossInv /\ Drain => LossInv'
<1> SUFFICES ASSUME IInv, LossInv, Drain PROVE LossInv'
  OBVIOUS
<1>1. PICK h \in Picks(Len(file)) :
         /\ {h[j] : j \in DOMAIN h} = {i \in 1..Len(file) : file[i] \notin Malformed}
         /\ cur' = Picked(file, h)
  BY DEF Drain
<1>2. file \in Seq(Nat) /\ writing = <<>> /\ shifts \in Nat
  BY DEF IInv, TypeOK, Drain
<1>3. Content = file /\ Content' = file
  BY <1>2 DEF Drain, Content
<1>4. /\ DOMAIN h = 1..Len(cur')
      /\ \A i \in 1..Len(cur') : cur'[i] = file[h[i]]
  BY <1>1, <1>2, PickedProps
<1>5. \A i \in 1..Len(file) : file[i] \in Elems(cur') \cup done'
  <2> SUFFICES ASSUME NEW i \in 1..Len(file), file[i] \notin Malformed
               PROVE  file[i] \in Elems(cur')
    BY DEF Drain, Elems
  <2>1. PICK j \in 1..Len(cur') : h[j] = i
    BY <1>1, <1>4
  <2> QED BY <2>1, <1>4 DEF Elems
<1>6. Doomed' = {}
  BY <1>3, <1>5 DEF Doomed, Drain
<1>7. Silent' = Silent
  BY <1>3 DEF Silent, Accepted, Drain
<1> QED BY <1>2, <1>6, <1>7, NoneGone DEF Gone, Drain

(* An answered line is not doomed either.                                  *)
LEMMA AnswerLoss == IInv /\ LossInv /\ Answer => LossInv'
<1> SUFFICES ASSUME IInv, LossInv, Answer PROVE LossInv'
  OBVIOUS
<1>1. Elems(cur) \cup done \subseteq Elems(cur') \cup done'
  BY DEF Answer
<1>2. Content' = Content /\ shifts \in Nat
  BY DEF Answer, Content, IInv, TypeOK
<1>3. Doomed' \subseteq Doomed
  BY <1>1, <1>2 DEF Doomed, Answer
<1>4. Silent' = Silent
  BY <1>2 DEF Silent, Accepted, Answer
<1> QED BY <1>2, <1>3, <1>4, NoneGone DEF Gone, Answer

(* The commit loses the doomed lines and no others.                        *)
LEMMA CommitLoss == IInv /\ LossInv /\ Commit => LossInv'
<1> SUFFICES ASSUME IInv, LossInv, Commit, ~torn PROVE LossInv'
  BY DEF LossInv, Commit
<1> DEFINE A == SubSeq(file, rawCount + 1, Len(file))
           F == cur \o A
<1>1. /\ file \in Seq(Nat) /\ Len(file) \in Nat /\ writing = <<>> /\ rawCount \in Nat
      /\ cur \in Seq(Nat) /\ Cap \in Nat /\ shifts \in Nat /\ pc = "drained"
  BY SpoolAssumption DEF IInv, TypeOK, Commit, MayCommit
<1>2. Content = file /\ Len(file) >= rawCount
  BY <1>1 DEF Content, IInv, InFlight
<1>3. A = AppendedSince(file)
  BY <1>2 DEF AppendedSince
<1>4. /\ A \in Seq(Nat) /\ Len(A) = Len(file) - rawCount
      /\ \A i \in 1..Len(A) : A[i] = file[rawCount + i]
  BY <1>1, <1>2
<1>5. /\ F \in Seq(Nat) /\ Len(F) = Len(cur) + Len(A) /\ Len(cur) \in Nat /\ Len(A) \in Nat
      /\ \A i \in 1..Len(cur) : F[i] = cur[i]
      /\ \A i \in 1..Len(A) : F[Len(cur) + i] = A[i]
  BY <1>1, <1>4
<1>6. /\ file' = <<>> /\ writing' = Newest(F, Cap)
      /\ evicted' = evicted \cup Elems(Overflow(F, Cap))
      /\ settled' = settled \cup done /\ pc' = "committing"
      /\ UNCHANGED <<next, crashLost, shifts, torn>>
  BY <1>3 DEF Commit, Rewritten
<1>7. Content' = Newest(F, Cap)
  BY <1>1, <1>5, <1>6, NewestProps DEF Content
<1> HIDE DEF F, A
<1>8. Elems(F) \subseteq Elems(Content') \cup evicted'
  <2>1. Elems(F) = Elems(Newest(F, Cap)) \cup Elems(Overflow(F, Cap))
    BY <1>1, <1>5, OverflowProps
  <2> QED BY <1>6, <1>7, <2>1
<1>9. Elems(cur) \subseteq Elems(F)
  <2>1. \A i \in 1..Len(cur) : i \in 1..Len(F)
    BY <1>5
  <2> QED BY <2>1, <1>5 DEF Elems
<1>10. Elems(A) \subseteq Elems(F)
  <2>1. \A i \in 1..Len(A) : Len(cur) + i \in 1..Len(F)
    BY <1>5
  <2> QED BY <2>1, <1>5 DEF Elems
<1>11. Elems(Content) \subseteq Elems(A) \cup Elems(cur) \cup done \cup Doomed
  <2> SUFFICES ASSUME NEW i \in 1..Len(file)
               PROVE  file[i] \in Elems(A) \cup Elems(cur) \cup done \cup Doomed
    BY <1>2 DEF Elems
  <2>1. CASE i \in 1..rawCount
    BY <2>1, <1>1, <1>2 DEF Doomed
  <2>2. CASE i \notin 1..rawCount
    <3> DEFINE j == i - rawCount
    <3>1. j \in 1..Len(A) /\ rawCount + j = i
      BY <2>2, <1>1, <1>2, <1>4
    <3>2. A[j] = file[i]
      BY <3>1, <1>4
    <3> QED BY <3>1, <3>2 DEF Elems
  <2> QED BY <2>1, <2>2
<1>12. Silent' \subseteq Silent \cup Doomed
  <2>1. Accepted' = Accepted
    BY <1>6 DEF Accepted
  <2>2. Elems(Content) \subseteq
           Elems(Content') \cup settled' \cup evicted' \cup crashLost' \cup Doomed
    BY <1>6, <1>8, <1>9, <1>10, <1>11
  <2> QED BY <1>6, <2>1, <2>2, SilentStep
<1>13. Doomed' = {}
  BY <1>6 DEF Doomed
<1> QED BY <1>1, <1>6, <1>12, <1>13, NoneGone DEF Gone

(* What a process that dies has not written back is lost, not silently.    *)
LEMMA DiesLoss ==
    ASSUME IInv, LossInv, file' = file, writing' = <<>>, torn => torn',
           UNCHANGED <<next, settled, evicted, shifts>>,
           crashLost' = crashLost \cup Elems(writing),
           pc' # "drained" \/ torn'
    PROVE  LossInv'
<1> SUFFICES ASSUME ~torn' PROVE LossInv'
  BY DEF LossInv
<1>1. Elems(Content) = Elems(Content') \cup Elems(writing)
  BY CutContent
<1>2. Silent' \subseteq Silent \cup {}
  BY <1>1, SilentStep DEF Accepted
<1>3. Doomed' = {} /\ shifts \in Nat
  BY DEF Doomed, IInv, TypeOK
<1> QED BY <1>2, <1>3, NoneGone DEF Gone

LEMMA StepLossInv == IInv /\ LossInv /\ [Next]_vars => LossInv'
<1> SUFFICES ASSUME IInv, LossInv, [Next]_vars PROVE LossInv'
  OBVIOUS
<1>0. shifts \in Nat
  BY DEF IInv, TypeOK
<1>1. CASE WriteLine
  <2>1. Content' = Content
    BY <1>1, WriteLineContent DEF WriteLine, Content, IInv, TypeOK
  <2> QED BY <1>0, <1>1, <2>1, SameGone, NoneGone DEF WriteLine, flushVars
<1>2. CASE Unlock
  <2>1. Content' = Content /\ (pc' = "drained" => pc' = pc)
    BY <1>2 DEF Unlock, Content, Returned
  <2> QED BY <1>0, <1>2, <2>1, SameGone, NoneGone DEF Unlock
<1>3. CASE FlusherDiesHolding
  <2>1. Content' = Content /\ pc' # "drained"
    BY <1>3 DEF FlusherDiesHolding, Content
  <2> QED BY <1>0, <1>3, <2>1, SameGone, NoneGone DEF FlusherDiesHolding
<1>4. CASE HookDies
  BY <1>4, DiesLoss DEF HookDies, flushVars
<1>5. CASE FlusherDiesWriting
  BY <1>5, DiesLoss DEF FlusherDiesWriting
<1>6. CASE UNCHANGED vars
  <2>1. Content' = Content
    BY <1>6 DEF vars, Content
  <2> QED BY <1>0, <1>6, <2>1, SameGone, NoneGone DEF vars
<1> QED BY <1>1, <1>2, <1>3, <1>4, <1>5, <1>6, AppendFitsLoss, AppendEvictsLoss,
           DrainLoss, AnswerLoss, CommitLoss DEF Next

LEMMA InitLossInv == Init => LossInv
<1> SUFFICES ASSUME Init PROVE LossInv
  OBVIOUS
<1>1. Gone = {} /\ shifts = 0
  BY DEF Init, Gone, Silent, Accepted, Doomed
<1> QED BY <1>1, FS_EmptySet DEF LossInv

(* NFR-08 and its price: unless a hook died inside one of them, evictions  *)
(* that overlap a flush cost at most one unanswered line each (rewrite     *)
(* takes the lines added since Drain to begin at position rawCount).       *)
THEOREM SpoolLossBounded == Spec => []LossBounded
<1>1. IInv /\ LossInv => LossBounded
  <2> SUFFICES ASSUME IInv, LossInv, ~torn PROVE Cardinality(Silent) <= shifts
    BY DEF LossBounded
  <2>1. IsFiniteSet(Gone) /\ Cardinality(Gone) <= shifts /\ Silent \in SUBSET Gone
    BY DEF LossInv, Gone
  <2>2. IsFiniteSet(Silent) /\ Cardinality(Silent) <= Cardinality(Gone)
    BY <2>1, FS_Subset
  <2>3. Cardinality(Silent) \in Nat /\ Cardinality(Gone) \in Nat /\ shifts \in Nat
    BY <2>1, <2>2, FS_CardinalityType DEF IInv, TypeOK
  <2> QED BY <2>1, <2>2, <2>3
<1>2. Spec => []LossInv
  BY InitLossInv, StepLossInv, Invariance, PTL DEF Spec
<1> QED BY <1>1, <1>2, Invariance, PTL

-----------------------------------------------------------------------------
(* Module Spool implements module EventQueue, with the content that the    *)
(* write-back loop will leave as the queue, until an eviction by a hook    *)
(* overlaps a flush.                                                       *)

(* What the flusher holds is in the file.                                  *)
BatchInv == pc = "drained" /\ shifts = 0 => Elems(cur) \subseteq Elems(Content)

-----------------------------------------------------------------------------
(* Lemmas about sequences.                                                 *)

LEMMA ConcatElems ==
    ASSUME NEW s \in Seq(Nat), NEW t \in Seq(Nat)
    PROVE  Elems(s \o t) \subseteq Elems(s) \cup Elems(t)
<1> DEFINE u == s \o t
<1>1. /\ Len(s) \in Nat /\ Len(t) \in Nat /\ Len(u) = Len(s) + Len(t)
      /\ \A i \in 1..Len(s) : u[i] = s[i]
      /\ \A i \in 1..Len(t) : u[Len(s) + i] = t[i]
  OBVIOUS
<1> HIDE DEF u
<1>2. ASSUME NEW i \in 1..Len(u) PROVE u[i] \in Elems(s) \cup Elems(t)
  <2>1. CASE i \in 1..Len(s)
    BY <2>1, <1>1 DEF Elems
  <2>2. CASE i \notin 1..Len(s)
    <3> DEFINE j == i - Len(s)
    <3>1. j \in 1..Len(t) /\ Len(s) + j = i
      BY <2>2, <1>1
    <3>2. u[i] = t[j]
      BY <3>1, <1>1
    <3> QED BY <3>1, <3>2 DEF Elems
  <2> QED BY <2>1, <2>2
<1> QED BY <1>2 DEF Elems, u

(* Of two increasing sequences, the one with fewer elements is picked from *)
(* the other.                                                              *)
LEMMA PickedFrom ==
    ASSUME NEW s \in Seq(Nat), NEW t \in Seq(Nat),
           Increasing(s), Increasing(t), Elems(t) \subseteq Elems(s)
    PROVE  \E h \in Queue!Picks(Len(s)) : t = [j \in DOMAIN h |-> s[h[j]]]
<1> DEFINE h == [j \in 1..Len(t) |-> CHOOSE i \in 1..Len(s) : s[i] = t[j]]
<1>1. /\ Len(s) \in Nat /\ Len(t) \in Nat
      /\ \A i \in 1..Len(s) : s[i] \in Nat
      /\ \A j \in 1..Len(t) : t[j] \in Nat
  OBVIOUS
<1>2. ASSUME NEW j \in 1..Len(t) PROVE h[j] \in 1..Len(s) /\ s[h[j]] = t[j]
  <2>1. \E i \in 1..Len(s) : s[i] = t[j]
    BY DEF Elems
  <2> QED BY <2>1
<1>3. h \in [1..Len(t) -> 1..Len(s)]
  BY <1>2
<1> HIDE DEF h
<1>4. ASSUME NEW i \in 1..Len(t), NEW j \in 1..Len(t), i < j PROVE h[i] < h[j]
  <2>1. t[i] < t[j]
    BY <1>4 DEF Increasing
  <2>2. /\ h[i] \in 1..Len(s) /\ s[h[i]] = t[i] /\ t[i] \in Nat
        /\ h[j] \in 1..Len(s) /\ s[h[j]] = t[j] /\ t[j] \in Nat
    BY <1>1, <1>2
  <2>3. h[j] < h[i] => s[h[j]] < s[h[i]]
    BY <2>2 DEF Increasing
  <2>4. h[j] # h[i] /\ ~(h[j] < h[i])
    BY <2>1, <2>2, <2>3
  <2> QED BY <1>1, <2>2, <2>4
<1>5. Len(t) \in 0..Len(s)
  <2>1. /\ IsFiniteSet(1..Len(s)) /\ Cardinality(1..Len(s)) = Len(s)
        /\ IsFiniteSet(1..Len(t)) /\ Cardinality(1..Len(t)) = Len(t)
    <3>1. ASSUME NEW n \in Nat
          PROVE  IsFiniteSet(1..n) /\ Cardinality(1..n) = n
      BY FS_Interval
    <3> QED BY <1>1, <3>1
  <2>2. SUFFICES ASSUME Len(s) < Len(t) PROVE FALSE
    BY <1>1
  <2>3. \E x, y \in 1..Len(t) : x # y /\ h[x] = h[y]
    BY <2>1, <2>2, <1>3, FS_PigeonHole
  <2>4. PICK x \in 1..Len(t), y \in 1..Len(t) : x # y /\ h[x] = h[y]
    BY <2>3
  <2>5. CASE x < y
    BY <2>4, <2>5, <1>1, <1>2, <1>4
  <2>6. CASE y < x
    BY <2>4, <2>6, <1>1, <1>2, <1>4
  <2> QED BY <2>4, <2>5, <2>6, <1>1
<1>6. h \in Queue!Picks(Len(s))
  BY <1>3, <1>4, <1>5 DEF Queue!Picks
<1>7. DOMAIN h = 1..Len(t) /\ t = [j \in 1..Len(t) |-> s[h[j]]]
  BY <1>2, <1>3
<1> QED BY <1>6, <1>7

-----------------------------------------------------------------------------
(* What the flusher holds stays in the file.                               *)

LEMMA StepBatchInv == IInv /\ BatchInv /\ [Next]_vars => BatchInv'
<1> SUFFICES ASSUME IInv, BatchInv, [Next]_vars, pc' = "drained", shifts' = 0
             PROVE  Elems(cur') \subseteq Elems(Content')
  BY DEF BatchInv
<1>0. /\ file \in Seq(Nat) /\ writing \in Seq(Nat) /\ cur \in Seq(Nat)
      /\ next \in Nat /\ shifts \in Nat
  BY DEF IInv, TypeOK
<1>1. CASE AppendFits
  <2>1. Append(file, next) \in Seq(Nat) /\ writing = <<>> /\ writing' = <<>>
    BY <1>0, <1>1 DEF AppendFits, IInv, TypeOK
  <2>2. Content = file /\ Content' = Append(file, next)
    BY <1>0, <1>1, <2>1 DEF AppendFits, Content
  <2>3. \A i \in 1..Len(file) : i \in 1..Len(Content') /\ Content'[i] = file[i]
    BY <1>0, <2>2
  <2>4. Elems(Content) \subseteq Elems(Content')
    BY <2>2, <2>3 DEF Elems
  <2> QED BY <1>1, <2>4 DEF AppendFits, flushVars, BatchInv
<1>2. ASSUME NEW h \in Hook, AppendEvicts(h) PROVE FALSE
  BY <1>0, <1>2 DEF AppendEvicts, flushVars
<1>3. CASE WriteLine
  <2>1. Content' = Content
    BY <1>0, <1>3, WriteLineContent DEF WriteLine, Content
  <2> QED BY <1>3, <2>1 DEF WriteLine, flushVars, BatchInv
<1>4. CASE Unlock
  <2>1. Content' = Content /\ pc = "drained"
    BY <1>4 DEF Unlock, Content, Returned
  <2> QED BY <1>4, <2>1 DEF Unlock, BatchInv
<1>5. CASE Drain
  <2>1. PICK h \in Picks(Len(file)) : cur' = Picked(file, h)
    BY <1>5 DEF Drain
  <2>2. Content' = file
    BY <1>0, <1>5 DEF Drain, Content, IInv, TypeOK
  <2> QED BY <1>0, <2>1, <2>2, PickedProps
<1>6. CASE Answer
  <2>1. PICK h \in Picks(Len(cur)) : cur' = Picked(cur, h)
    BY <1>6 DEF Answer
  <2>2. Elems(cur') \subseteq Elems(cur)
    BY <1>0, <2>1, PickedProps
  <2>3. Content' = Content
    BY <1>6 DEF Answer, Content
  <2> QED BY <1>6, <2>2, <2>3 DEF Answer, BatchInv
<1>7. CASE HookDies
  BY <1>0, <1>7 DEF HookDies, flushVars, IInv, InFlight
<1>8. CASE UNCHANGED vars
  <2>1. Content' = Content
    BY <1>8 DEF vars, Content
  <2> QED BY <1>8, <2>1 DEF vars, BatchInv
<1> QED BY <1>1, <1>2, <1>3, <1>4, <1>5, <1>6, <1>7, <1>8
        DEF Next, Commit, FlusherDiesHolding, FlusherDiesWriting

-----------------------------------------------------------------------------
(* One lemma for each action that is a step of the queue.                  *)

LEMMA FitsIsPut == IInv /\ AppendFits => Queue!Put
<1> SUFFICES ASSUME IInv, AppendFits PROVE Queue!Put
  OBVIOUS
<1>1. /\ file \in Seq(Nat) /\ next \in Nat /\ writing = <<>> /\ Cap \in Nat
      /\ Len(file) \in Nat /\ Append(file, next) \in Seq(Nat)
  BY SpoolAssumption DEF IInv, TypeOK, AppendFits
<1>2. Content = file /\ Content' = Append(file, next)
  BY <1>1 DEF AppendFits, Content
<1>3. Queue!Newest(Content, Cap - 1) = Content
  BY <1>1, <1>2 DEF AppendFits, Queue!Newest
<1> QED BY <1>2, <1>3 DEF AppendFits, Queue!Put

LEMMA EvictsIsPut ==
    ASSUME IInv, NEW h \in Hook, AppendEvicts(h)
    PROVE  Queue!Put
<1>1. /\ file \in Seq(Nat) /\ next \in Nat /\ writing = <<>> /\ Cap - 1 \in Nat
  BY SpoolAssumption DEF IInv, TypeOK, AppendEvicts
<1>2. Content = file
  BY <1>1 DEF Content
<1>3. Newest(file, Cap - 1) = Queue!Newest(Content, Cap - 1)
  BY <1>2 DEF Newest, Queue!Newest
<1>4. Content' = Append(Newest(file, Cap - 1), next)
  <2>1. Append(Newest(file, Cap - 1), next) \in Seq(Nat)
    BY <1>1, NewestProps
  <2> QED BY <2>1 DEF AppendEvicts, EvictKeep, Content
<1> QED BY <1>3, <1>4 DEF AppendEvicts, Queue!Put

(* A commit takes out what was answered, or given up as the oldest.        *)
LEMMA CommitIsTake == IInv /\ BatchInv /\ Commit /\ shifts' = 0 => Queue!Take
<1> SUFFICES ASSUME IInv, BatchInv, Commit, shifts' = 0 PROVE Queue!Take
  OBVIOUS
<1> DEFINE A == AppendedSince(file)
           F == cur \o A
<1>1. /\ pc = "drained" /\ holder = NoProc /\ shifts = 0 /\ ~torn /\ ~torn'
      /\ cur \in Seq(Nat) /\ file \in Seq(Nat) /\ writing = <<>> /\ Cap \in Nat
  BY SpoolAssumption DEF Commit, MayCommit, IInv, Numbered, TypeOK
<1>2. A \in Seq(Nat) /\ Elems(A) \subseteq Elems(Content)
  BY <1>1, AppendedSinceProps
<1> HIDE DEF A
<1>3. F \in Seq(Nat) /\ Elems(F) \subseteq Elems(cur) \cup Elems(A)
  BY <1>1, <1>2, ConcatElems
<1> HIDE DEF F
<1>4. Newest(F, Cap) \in Seq(Nat) /\ Elems(Newest(F, Cap)) \subseteq Elems(F)
  <2>1. Newest(F, Cap) \in Seq(Nat)
    BY <1>1, <1>3, NewestProps
  <2>2. Elems(F) = Elems(Newest(F, Cap)) \cup Elems(Overflow(F, Cap))
    BY <1>1, <1>3, OverflowProps
  <2> QED BY <2>1, <2>2
<1>5. Content' = Newest(F, Cap)
  <2>1. file' = <<>> /\ writing' = Newest(F, Cap)
    BY DEF Commit, Rewritten, A, F
  <2> QED BY <1>4, <2>1 DEF Content
<1>6. Elems(Content') \subseteq Elems(Content)
  BY <1>1, <1>2, <1>3, <1>4, <1>5 DEF BatchInv
<1>7. IInv'
  BY CommitStep
<1>8. Increasing(Content) /\ Increasing(Content')
  BY <1>1, <1>7 DEF IInv, ArrivalOrder
<1>9. Content \in Seq(Nat) /\ Content' \in Seq(Nat)
  BY <1>1, <1>4, <1>5 DEF Content
<1>10. \E g \in Queue!Picks(Len(Content)) : Content' = [j \in DOMAIN g |-> Content[g[j]]]
  BY <1>6, <1>8, <1>9, PickedFrom
<1> QED BY <1>10 DEF Commit, Queue!Take

LEMMA DiesIsLoseTail ==
    ASSUME IInv, file' = file, writing' = <<>>, next' = next
    PROVE  Queue!LoseTail
<1>1. file \in Seq(Nat) /\ writing \in Seq(Nat)
  BY DEF IInv, TypeOK
<1>2. /\ Content = file \o writing /\ Content' = file
      /\ Len(file) \in 0..Len(Content)
  BY <1>1 DEF Content
<1>3. SubSeq(file \o writing, 1, Len(file)) = file
  BY <1>1
<1> QED BY <1>2, <1>3 DEF Queue!LoseTail

LEMMA StepIsQueueStep ==
    IInv /\ BatchInv /\ [Next]_vars => [shifts' = 0 => [Queue!Next]_(Queue!vars)]_vars
<1> SUFFICES ASSUME IInv, BatchInv, Next, shifts' = 0 PROVE [Queue!Next]_(Queue!vars)
  OBVIOUS
<1>1. CASE AppendFits
  BY <1>1, FitsIsPut DEF Queue!Next
<1>2. CASE \E h \in Hook : AppendEvicts(h)
  BY <1>2, EvictsIsPut DEF Queue!Next
<1>3. CASE WriteLine
  <2>1. Content' = Content
    BY <1>3, WriteLineContent DEF WriteLine, Content, IInv, TypeOK
  <2> QED BY <1>3, <2>1 DEF WriteLine, Queue!vars
<1>4. CASE Unlock \/ Drain \/ Answer \/ FlusherDiesHolding
  BY <1>4 DEF Unlock, Drain, Answer, FlusherDiesHolding, Content, Queue!vars
<1>5. CASE Commit
  BY <1>5, CommitIsTake DEF Queue!Next
<1>6. CASE HookDies
  BY <1>6, DiesIsLoseTail DEF HookDies, Queue!Next
<1>7. CASE FlusherDiesWriting
  BY <1>7, DiesIsLoseTail DEF FlusherDiesWriting, Queue!Next
<1> QED BY <1>1, <1>2, <1>3, <1>4, <1>5, <1>6, <1>7 DEF Next

LEMMA InitIsQueueInit == Init => Queue!Init /\ BatchInv
BY DEF Init, Content, Queue!Init, BatchInv

(* Truncating, writing back line by line, positions and locks come to a    *)
(* queue: appends put, commits take, and a death costs a tail; until the   *)
(* first eviction that overlaps a flush (spool.go's Append and rewrite).   *)
THEOREM SpoolImplementsQueue == Spec => QueueSpec
<1>1. Spec => []BatchInv
  BY InitIsQueueInit, StepBatchInv, Invariance, PTL DEF Spec
<1> QED BY <1>1, InitIsQueueInit, StepIsQueueStep, Invariance, PTL DEF Spec, QueueSpec
=============================================================================
