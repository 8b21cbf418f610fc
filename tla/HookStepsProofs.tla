-------------------------- MODULE HookStepsProofs ---------------------------
(***************************************************************************)
(* What hooks do beside each other: the flushes they start, and the copies *)
(* of watchlist.json that they, the flush and a command write back.        *)
(***************************************************************************)
EXTENDS HookFlush, WatchList, TLAPS

-----------------------------------------------------------------------------
(***************************************************************************)
(* HookFlush for any set of hooks: the lock serialises the runs, and only  *)
(* events that came after a run's Drain are left behind.                   *)
(***************************************************************************)

Holding == {"locked", "sending", "unlocking"}

(* The lock and the steps that hold it agree, and no run is there before   *)
(* its hook has started it.                                                *)
LockInv ==
    /\ \A h \in Hook: run[h] # "none" => hook[h] \in {"leaving", "done"}
    /\ \A r \in Hook: run[r] \in Holding <=> lock = RunHolds(r)
    /\ \A h \in Hook: hook[h] = "peeking" <=> lock = HookHolds(h)

Unseen == spool \ seen

(* What has arrived is in the spool or has been drained, and what has been *)
(* drained are the first arrivals.                                         *)
OrderInv ==
    /\ \A r \in Hook: batch[r] \subseteq seen
    /\ \A i \in 1..Len(arrived): arrived[i] \in seen \cup spool
    /\ \E n \in 0..Len(arrived):
           /\ seen = {arrived[i] : i \in 1..n}
           /\ \A i \in n+1..Len(arrived): arrived[i] \in Unseen
    /\ spool \subseteq {arrived[i] : i \in 1..Len(arrived)}
    /\ \A h \in Hook: hook[h] = "idle" => h \notin seen \cup spool

(* Somebody is on the way to a Drain.                                      *)
Coming ==
    \E g \in Hook: hook[g] \in {"peeking", "spawning"} \/ run[g] \in {"started", "locked"}

Waits(h) == h \in late \/ hook[h] = "spooled"

(* The heart of it: an event nobody has drained is late, or its hook has   *)
(* yet to peek, or somebody is coming; and while a run is past its Drain   *)
(* the last of these is not needed.                                        *)
ComingInv ==
    ~failed =>
        /\ \A h \in Unseen: Waits(h) \/ Coming
        /\ (\E r \in Hook: PastDrain(r)) => \A h \in Unseen: Waits(h)

IInv == TypeOK /\ LockInv /\ OrderInv /\ ComingInv

-----------------------------------------------------------------------------
(* Two processes never hold the lock by the same name.                     *)
LEMMA Holders ==
    ASSUME NEW g \in Hook, NEW h \in Hook
    PROVE  /\ HookHolds(g) # Free /\ RunHolds(g) # Free
           /\ HookHolds(g) # RunHolds(h)
           /\ HookHolds(g) = HookHolds(h) => g = h
           /\ RunHolds(g) = RunHolds(h) => g = h
BY DEF HookHolds, RunHolds, Free

LEMMA InitInv == Init => IInv
<1> SUFFICES ASSUME Init PROVE IInv
    OBVIOUS
<1>1. TypeOK
  <2>1. arrived \in Seq(Hook)
    BY DEF Init
  <2>2. hook \in [Hook -> {"idle", "spooled", "peeking", "spawning", "leaving", "done"}]
    BY DEF Init
  <2>3. run \in [Hook -> {"none", "started", "locked", "sending", "unlocking", "done"}]
    BY DEF Init
  <2>4. batch \in [Hook -> SUBSET Hook]
    BY DEF Init
  <2> QED BY <2>1, <2>2, <2>3, <2>4 DEF Init, TypeOK
<1>2. LockInv
    BY Holders DEF Init, LockInv, Holding
<1>3. OrderInv
    BY DEF Init, OrderInv
<1>4. ComingInv
    BY DEF Init, ComingInv, Unseen
<1> QED BY <1>1, <1>2, <1>3, <1>4 DEF IInv

(* Every step keeps the types.                                             *)
LEMMA TypeStep == TypeOK /\ [Next]_vars => TypeOK'
<1> SUFFICES ASSUME TypeOK, [Next]_vars PROVE TypeOK'
    OBVIOUS
<1> USE DEF TypeOK, HookGoes, RunGoes, GivenBack
<1>1. CASE UNCHANGED vars
    BY <1>1 DEF vars
<1>2. ASSUME NEW h \in Hook, ClassifyAndSpool(h) PROVE TypeOK'
    BY <1>2 DEF ClassifyAndSpool
<1>3. ASSUME NEW h \in Hook, HookStep(h) PROVE TypeOK'
  <2>1. CASE PeeksHeld(h)
    BY <2>1 DEF PeeksHeld
  <2>2. CASE PeeksFree(h)
    BY <2>2 DEF PeeksFree
  <2>3. CASE Unlocks(h)
    BY <2>3 DEF Unlocks
  <2>4. CASE Spawns(h)
    BY <2>4 DEF Spawns
  <2>5. CASE SpawnFails(h)
    BY <2>5 DEF SpawnFails
  <2>6. CASE Leaves(h)
    BY <2>6 DEF Leaves
  <2> QED BY <1>3, <2>1, <2>2, <2>3, <2>4, <2>5, <2>6 DEF HookStep
<1>4. ASSUME NEW r \in Hook, RunStep(r) PROVE TypeOK'
  <2>1. CASE FindsHeld(r)
    BY <2>1 DEF FindsHeld
  <2>2. CASE TakesLock(r)
    BY <2>2 DEF TakesLock
  <2>3. CASE HasNobody(r)
    BY <2>3 DEF HasNobody
  <2>4. CASE Drains(r)
    BY <2>4 DEF Drains
  <2>5. CASE Commits(r)
    BY <2>5 DEF Commits
  <2>6. CASE Ends(r)
    BY <2>6 DEF Ends
  <2> QED BY <1>4, <2>1, <2>2, <2>3, <2>4, <2>5, <2>6 DEF RunStep
<1>5. ASSUME NEW h \in Hook, HookDies(h) PROVE TypeOK'
    BY <1>5 DEF HookDies
<1>6. ASSUME NEW r \in Hook, RunDies(r) PROVE TypeOK'
    BY <1>6 DEF RunDies
<1> QED BY <1>1, <1>2, <1>3, <1>4, <1>5, <1>6 DEF Next

(* The lock changes hands only through Free.                               *)
LEMMA LockStep == TypeOK /\ LockInv /\ [Next]_vars => LockInv'
<1> SUFFICES ASSUME TypeOK, LockInv, [Next]_vars PROVE LockInv'
    OBVIOUS
<1> USE Holders DEF TypeOK, LockInv, Holding, HookGoes, RunGoes, GivenBack
<1>1. CASE UNCHANGED vars
    BY <1>1 DEF vars
<1>2. ASSUME NEW h \in Hook, ClassifyAndSpool(h) PROVE LockInv'
    BY <1>2 DEF ClassifyAndSpool
<1>3. ASSUME NEW h \in Hook, HookStep(h) PROVE LockInv'
  <2>1. CASE PeeksHeld(h)
    BY <2>1 DEF PeeksHeld
  <2>2. CASE PeeksFree(h)
    BY <2>2 DEF PeeksFree
  <2>3. CASE Unlocks(h)
    BY <2>3 DEF Unlocks
  <2>4. CASE Spawns(h)
    BY <2>4 DEF Spawns
  <2>5. CASE SpawnFails(h)
    BY <2>5 DEF SpawnFails
  <2>6. CASE Leaves(h)
    BY <2>6 DEF Leaves
  <2> QED BY <1>3, <2>1, <2>2, <2>3, <2>4, <2>5, <2>6 DEF HookStep
<1>4. ASSUME NEW r \in Hook, RunStep(r) PROVE LockInv'
  <2>1. CASE FindsHeld(r)
    BY <2>1 DEF FindsHeld
  <2>2. CASE TakesLock(r)
    BY <2>2 DEF TakesLock
  <2>3. CASE HasNobody(r)
    BY <2>3 DEF HasNobody
  <2>4. CASE Drains(r)
    BY <2>4 DEF Drains
  <2>5. CASE Commits(r)
    BY <2>5 DEF Commits
  <2>6. CASE Ends(r)
    BY <2>6 DEF Ends
  <2> QED BY <1>4, <2>1, <2>2, <2>3, <2>4, <2>5, <2>6 DEF RunStep
<1>5. ASSUME NEW h \in Hook, HookDies(h) PROVE LockInv'
    BY <1>5 DEF HookDies
<1>6. ASSUME NEW r \in Hook, RunDies(r) PROVE LockInv'
    BY <1>6 DEF RunDies, Alive
<1> QED BY <1>1, <1>2, <1>3, <1>4, <1>5, <1>6 DEF Next

(* A Drain takes all there is, and a commit only what was drained.         *)
LEMMA OrderStep == TypeOK /\ OrderInv /\ [Next]_vars => OrderInv'
<1> SUFFICES ASSUME TypeOK, OrderInv, [Next]_vars PROVE OrderInv'
    OBVIOUS
<1> USE DEF HookGoes, RunGoes
<1>2. ASSUME NEW h \in Hook, ClassifyAndSpool(h) PROVE OrderInv'
  <2>1. /\ Len(arrived') = Len(arrived) + 1
        /\ arrived'[Len(arrived) + 1] = h
        /\ \A i \in 1..Len(arrived): arrived'[i] = arrived[i]
        /\ Len(arrived) \in Nat
    BY <1>2 DEF ClassifyAndSpool, TypeOK
  <2>2. \A i \in 1..Len(arrived'): i \in 1..Len(arrived) \/ i = Len(arrived) + 1
    BY <2>1
  <2>3. spool' = spool \cup {h} /\ seen' = seen /\ batch' = batch
    BY <1>2 DEF ClassifyAndSpool
  <2>4. \A i \in 1..Len(arrived'): arrived'[i] \in seen' \cup spool'
    BY <2>1, <2>2, <2>3 DEF OrderInv
  <2>5. \E n \in 0..Len(arrived'):
           /\ seen' = {arrived'[i] : i \in 1..n}
           /\ \A i \in n+1..Len(arrived'): arrived'[i] \in Unseen'
    <3>1. PICK n \in 0..Len(arrived):
             /\ seen = {arrived[i] : i \in 1..n}
             /\ \A i \in n+1..Len(arrived): arrived[i] \in Unseen
      BY DEF OrderInv
    <3>2. \A i \in 1..n: arrived'[i] = arrived[i]
      BY <2>1
    <3>3. seen' = {arrived'[i] : i \in 1..n}
      BY <2>3, <3>1, <3>2
    <3>4. ASSUME NEW i \in n+1..Len(arrived') PROVE arrived'[i] \in Unseen'
      <4>1. i \in n+1..Len(arrived) \/ i = Len(arrived) + 1
        BY <2>1
      <4>2. i \in n+1..Len(arrived) => arrived'[i] = arrived[i]
        BY <2>1
      <4>3. h \notin seen
        BY <1>2 DEF ClassifyAndSpool, OrderInv, HookGoes
      <4> QED BY <2>1, <2>3, <3>1, <4>1, <4>2, <4>3 DEF Unseen
    <3> QED BY <2>1, <3>3, <3>4
  <2>6. spool' \subseteq {arrived'[i] : i \in 1..Len(arrived')}
    <3> SUFFICES ASSUME NEW g \in spool'
                 PROVE  \E i \in 1..Len(arrived'): arrived'[i] = g
        OBVIOUS
    <3>1. CASE g = h
      BY <2>1, <3>1
    <3>2. CASE g \in spool
      <4>1. PICK i \in 1..Len(arrived): arrived[i] = g
        BY <3>2 DEF OrderInv
      <4> QED BY <2>1, <4>1
    <3> QED BY <2>3, <3>1, <3>2
  <2>7. \A g \in Hook: hook'[g] = "idle" => g # h /\ hook[g] = "idle"
    BY <1>2 DEF ClassifyAndSpool, TypeOK
  <2> QED BY <2>3, <2>4, <2>5, <2>6, <2>7 DEF OrderInv
<1>3. ASSUME NEW r \in Hook, Drains(r) PROVE OrderInv'
  <2>1. seen' = seen \cup spool /\ spool' = spool /\ arrived' = arrived
        /\ batch' = [batch EXCEPT ![r] = spool]
    BY <1>3 DEF Drains
  <2>2. seen' = {arrived[i] : i \in 1..Len(arrived)}
    <3>1. seen \subseteq {arrived[i] : i \in 1..Len(arrived)}
      BY DEF OrderInv, TypeOK
    <3>2. {arrived[i] : i \in 1..Len(arrived)} \subseteq seen \cup spool
      BY DEF OrderInv
    <3> QED BY <2>1, <3>1, <3>2 DEF OrderInv
  <2>3. \E n \in 0..Len(arrived'):
           /\ seen' = {arrived'[i] : i \in 1..n}
           /\ \A i \in n+1..Len(arrived'): arrived'[i] \in Unseen'
    <3>1. Len(arrived) \in 0..Len(arrived) /\ Len(arrived)+1..Len(arrived) = {}
      BY DEF TypeOK
    <3> QED BY <2>1, <2>2, <3>1
  <2>4. \A q \in Hook: batch'[q] \subseteq seen'
    BY <2>1 DEF OrderInv, TypeOK
  <2>5. hook' = hook
    BY <1>3 DEF Drains
  <2> QED BY <2>1, <2>3, <2>4, <2>5 DEF OrderInv
<1>4. ASSUME NEW r \in Hook, Commits(r) PROVE OrderInv'
  <2>1. PICK answered \in SUBSET batch[r]: spool' = spool \ answered
    BY <1>4 DEF Commits
  <2>2. answered \subseteq seen /\ seen' = seen /\ arrived' = arrived /\ batch' = batch
    BY <1>4, <2>1 DEF Commits, OrderInv
  <2>3. Unseen' = Unseen /\ spool' \subseteq spool /\ hook' = hook
    BY <1>4, <2>1, <2>2 DEF Commits, Unseen
  <2>4. \A i \in 1..Len(arrived): arrived[i] \in seen \cup spool'
    BY <2>1, <2>2 DEF OrderInv
  <2> QED BY <2>2, <2>3, <2>4 DEF OrderInv
<1>5. ASSUME UNCHANGED <<spool, arrived, seen>>,
             \A q \in Hook: batch'[q] \subseteq batch[q],
             \A h \in Hook: hook'[h] = "idle" => hook[h] = "idle"
      PROVE  OrderInv'
    BY <1>5 DEF OrderInv, Unseen
<1>6. ASSUME NEW h \in Hook, HookStep(h) \/ HookDies(h) PROVE OrderInv'
  <2>1. UNCHANGED <<spool, arrived, seen, batch>>
    BY <1>6 DEF HookStep, PeeksHeld, PeeksFree, Unlocks, Spawns, SpawnFails, Leaves,
                HookDies
  <2>2. \E to \in {"leaving", "peeking", "spawning", "done"}: hook' = [hook EXCEPT ![h] = to]
    BY <1>6 DEF HookStep, PeeksHeld, PeeksFree, Unlocks, Spawns, SpawnFails, Leaves,
                HookDies
  <2>3. \A g \in Hook: hook'[g] = "idle" => hook[g] = "idle"
    BY <2>2 DEF TypeOK
  <2> QED BY <1>5, <2>1, <2>3
<1>7. ASSUME NEW r \in Hook, FindsHeld(r) \/ TakesLock(r) \/ HasNobody(r)
      PROVE  OrderInv'
    BY <1>5, <1>7 DEF FindsHeld, TakesLock, HasNobody
<1>8. ASSUME NEW r \in Hook, Ends(r) \/ RunDies(r) PROVE OrderInv'
  <2>1. UNCHANGED <<spool, arrived, seen, hook>> /\ batch' = [batch EXCEPT ![r] = {}]
    BY <1>8 DEF Ends, RunDies
  <2>2. \A q \in Hook: batch'[q] \subseteq batch[q]
    BY <2>1 DEF TypeOK
  <2> QED BY <1>5, <2>1, <2>2
<1>9. CASE UNCHANGED vars
    BY <1>5, <1>9 DEF vars
<1> QED BY <1>2, <1>3, <1>4, <1>6, <1>7, <1>8, <1>9 DEF Next, RunStep

(* Nobody else can be past its Drain while a hook or another run holds the *)
(* lock, so whoever finds it held is late or sees somebody coming.         *)
LEMMA ComingStep == TypeOK /\ LockInv /\ ComingInv /\ OrderInv /\ [Next]_vars => ComingInv'
<1> SUFFICES ASSUME TypeOK, LockInv, ComingInv, OrderInv, [Next]_vars, ~failed'
             PROVE  /\ \A h \in Unseen': Waits(h)' \/ Coming'
                    /\ (\E r \in Hook: PastDrain(r)') => \A h \in Unseen': Waits(h)'
    BY DEF ComingInv
<1> USE DEF HookGoes, RunGoes, PastDrain, Waits
<1>a. ~failed
    BY DEF Next, vars, ClassifyAndSpool, HookStep, PeeksHeld, PeeksFree, Unlocks, Spawns,
           SpawnFails, Leaves, HookDies, RunStep, FindsHeld, TakesLock, HasNobody, Drains,
           Commits, Ends, RunDies
<1>b. /\ \A h \in Unseen: Waits(h) \/ Coming
      /\ (\E r \in Hook: PastDrain(r)) => \A h \in Unseen: Waits(h)
    BY <1>a DEF ComingInv
<1>c. Unseen \subseteq Hook
    BY DEF Unseen, TypeOK
<1>1. CASE UNCHANGED vars
    BY <1>1, <1>b DEF vars, Unseen, Coming
<1>2. ASSUME NEW h \in Hook, ClassifyAndSpool(h)
      PROVE  /\ \A g \in Unseen': Waits(g)' \/ Coming'
             /\ (\E r \in Hook: PastDrain(r)') => \A g \in Unseen': Waits(g)'
  <2>1. hook' = [hook EXCEPT ![h] = "spooled"] /\ hook[h] = "idle"
    BY <1>2 DEF ClassifyAndSpool
  <2>2. Unseen' \subseteq Unseen \cup {h} /\ late' = late /\ run' = run
    BY <1>2 DEF ClassifyAndSpool, Unseen
  <2>3. \A g \in Hook: Waits(g) \/ g = h => Waits(g)'
    BY <2>1, <2>2 DEF TypeOK
  <2>4. Coming => Coming'
    BY <2>1, <2>2 DEF TypeOK, Coming
  <2> QED BY <1>b, <1>c, <2>2, <2>3, <2>4
<1>3. ASSUME NEW h \in Hook, HookStep(h)
      PROVE  /\ \A g \in Unseen': Waits(g)' \/ Coming'
             /\ (\E r \in Hook: PastDrain(r)') => \A g \in Unseen': Waits(g)'
  <2>0. Unseen' = Unseen
    BY <1>3
       DEF HookStep, PeeksHeld, PeeksFree, Unlocks, Spawns, SpawnFails, Leaves, Unseen
  <2>1. CASE PeeksHeld(h)
    <3>1. /\ hook' = [hook EXCEPT ![h] = "leaving"] /\ hook[h] = "spooled"
          /\ run' = run /\ late \subseteq late' /\ lock # Free
      BY <2>1 DEF PeeksHeld
    <3>2. \A g \in Hook: g # h /\ Waits(g) => Waits(g)'
      BY <3>1 DEF TypeOK
    <3>3. Coming => Coming'
      BY <3>1 DEF TypeOK, Coming
    <3>4. (\E r \in Hook: PastDrain(r)) => h \in late'
      BY <2>1 DEF PeeksHeld, LockInv, Holding
    <3>5. ~(\E r \in Hook: PastDrain(r)) => Coming
      <4>1. PICK g \in Hook: lock = HookHolds(g) \/ lock = RunHolds(g)
        BY <3>1 DEF TypeOK
      <4>2. hook[g] = "peeking" \/ run[g] \in Holding
        BY <4>1 DEF LockInv
      <4> QED BY <4>2 DEF Holding, Coming
    <3> QED BY <1>b, <1>c, <2>0, <3>1, <3>2, <3>3, <3>4, <3>5
  <2>2. CASE PeeksFree(h)
    <3>1. /\ hook' = [hook EXCEPT ![h] = "peeking"] /\ run' = run /\ lock = Free
      BY <2>2 DEF PeeksFree
    <3>2. Coming'
      BY <3>1 DEF TypeOK, Coming
    <3>3. ~(\E r \in Hook: PastDrain(r)')
      BY <3>1, Holders DEF LockInv, Holding
    <3> QED BY <3>2, <3>3
  <2>3. CASE Unlocks(h)
    <3>1. /\ hook' = [hook EXCEPT ![h] = "spawning"] /\ run' = run /\ lock = HookHolds(h)
      BY <2>3 DEF Unlocks, LockInv
    <3>2. Coming'
      BY <3>1 DEF TypeOK, Coming
    <3>3. ~(\E r \in Hook: PastDrain(r)')
      BY <3>1, Holders DEF LockInv, Holding
    <3> QED BY <3>2, <3>3
  <2>4. CASE Spawns(h)
    <3>1. /\ hook' = [hook EXCEPT ![h] = "leaving"] /\ hook[h] = "spawning"
          /\ run' = [run EXCEPT ![h] = "started"] /\ late' = late
      BY <2>4 DEF Spawns
    <3>2. Coming'
      BY <3>1 DEF TypeOK, Coming
    <3>3. (\E r \in Hook: PastDrain(r)') => (\E r \in Hook: PastDrain(r))
      BY <3>1 DEF TypeOK
    <3>4. \A g \in Hook: Waits(g) => Waits(g)'
      BY <3>1 DEF TypeOK
    <3> QED BY <1>b, <1>c, <2>0, <3>2, <3>3, <3>4
  <2>5. CASE Leaves(h)
    <3>1. /\ hook' = [hook EXCEPT ![h] = "done"] /\ hook[h] = "leaving"
          /\ run' = run /\ late' = late
      BY <2>5 DEF Leaves
    <3>2. Coming => Coming'
      BY <3>1 DEF TypeOK, Coming
    <3>3. \A g \in Hook: Waits(g) => Waits(g)'
      BY <3>1 DEF TypeOK
    <3> QED BY <1>b, <1>c, <2>0, <3>1, <3>2, <3>3
  <2> QED BY <1>3, <2>1, <2>2, <2>3, <2>4, <2>5 DEF HookStep, SpawnFails
<1>4. ASSUME NEW r \in Hook, RunStep(r)
      PROVE  /\ \A g \in Unseen': Waits(g)' \/ Coming'
             /\ (\E q \in Hook: PastDrain(q)') => \A g \in Unseen': Waits(g)'
  <2>0. hook' = hook /\ late' = late
    BY <1>4 DEF RunStep, FindsHeld, TakesLock, HasNobody, Drains, Commits, Ends
  <2>1. CASE FindsHeld(r)
    <3>1. /\ run' = [run EXCEPT ![r] = "done"] /\ run[r] = "started" /\ lock # Free
          /\ Unseen' = Unseen
      BY <2>1 DEF FindsHeld, Unseen
    <3>2. PICK g \in Hook: lock = HookHolds(g) \/ lock = RunHolds(g)
      BY <3>1 DEF TypeOK
    <3>3. hook[g] = "peeking" \/ run[g] \in Holding
      BY <3>2 DEF LockInv
    <3>4. Coming' \/ PastDrain(g)
      BY <2>0, <3>1, <3>3 DEF TypeOK, Coming, Holding
    <3>5. (\E q \in Hook: PastDrain(q)') => (\E q \in Hook: PastDrain(q))
      BY <3>1 DEF TypeOK
    <3> QED BY <1>b, <2>0, <3>1, <3>4, <3>5
  <2>2. CASE TakesLock(r)
    <3>1. run' = [run EXCEPT ![r] = "locked"] /\ lock = Free
      BY <2>2 DEF TakesLock
    <3>2. Coming'
      BY <3>1 DEF TypeOK, Coming
    <3>3. \A q \in Hook: ~PastDrain(q)
      BY <3>1, Holders DEF LockInv, Holding
    <3>4. \A q \in Hook: ~PastDrain(q)'
      BY <3>1, <3>3 DEF TypeOK
    <3> QED BY <3>2, <3>4
  <2>3. CASE Drains(r)
    <3>1. Unseen' = {}
      BY <2>3 DEF Drains, Unseen
    <3> QED BY <3>1
  <2>4. CASE Commits(r)
    <3>1. /\ run' = [run EXCEPT ![r] = "unlocking"] /\ PastDrain(r)
          /\ Unseen' \subseteq Unseen
      BY <2>4 DEF Commits, Unseen
    <3> QED BY <1>b, <2>0, <3>1
  <2>5. CASE Ends(r)
    <3>1. PastDrain(r) /\ Unseen' = Unseen
      BY <2>5 DEF Ends, Unseen
    <3> QED BY <1>b, <2>0, <3>1
  <2> QED BY <1>4, <2>1, <2>2, <2>3, <2>4, <2>5 DEF RunStep, HasNobody
<1> QED BY <1>1, <1>2, <1>3, <1>4 DEF Next, HookDies, RunDies

-----------------------------------------------------------------------------
(* The inductive invariant.                                                *)
THEOREM HookFlushInv == Spec => []IInv
<1>1. IInv /\ [Next]_vars => IInv'
    BY TypeStep, LockStep, OrderStep, ComingStep DEF IInv
<1> QED BY <1>1, InitInv, PTL DEF Spec

(* BR-03: one run at a time holds a batch, whatever hooks peek meanwhile   *)
(* and whoever dies.                                                       *)
THEOREM HookFlushOneRunSends == Spec => []OneRunSends
<1>1. IInv => OneRunSends
    BY DEF IInv, LockInv, Holding, OneRunSends
<1> QED BY <1>1, HookFlushInv, PTL

(* Only events that came after a run's Drain are left behind.              *)
THEOREM HookFlushOnlyLateLeft == Spec => []OnlyLateLeft
<1>1. IInv => OnlyLateLeft
  <2> SUFFICES ASSUME IInv, Quiet, ~failed
               PROVE  \E n \in 0..Len(arrived):
                          /\ seen = {arrived[i] : i \in 1..n}
                          /\ \A i \in n+1..Len(arrived): arrived[i] \in late
    BY DEF OnlyLateLeft
  <2>1. ~Coming /\ \A h \in Hook: hook[h] # "spooled"
    BY DEF Quiet, Alive, Coming
  <2>2. Unseen \subseteq late
    BY <2>1 DEF IInv, ComingInv, Waits, Unseen, TypeOK
  <2> QED BY <2>2 DEF IInv, OrderInv
<1> QED BY <1>1, HookFlushInv, PTL

-----------------------------------------------------------------------------
(***************************************************************************)
(* What the writers of watchlist.json keep although none of them locks it, *)
(* for every set of projects and hooks and any number of commands and of   *)
(* versions of the relay's list.                                           *)
(*                                                                         *)
(* Every copy in memory may become the file, so both invariants speak of   *)
(* all copies.                                                             *)
(***************************************************************************)

List == [v : Nat, known : SUBSET Project, on : SUBSET Key, seen : SUBSET Project,
         edited : SUBSET Key]
RelayList ==
    {r \in [known : SUBSET Project, on : SUBSET Key] : r.on \subseteq r.known \cup {New}}

(* A copy bears one of the relay's versions, has that version's projects,  *)
(* and its settings but for edits made here; only a known project is on or *)
(* has a stamp.                                                            *)
Faithful(l) ==
    /\ l \in List /\ l.v <= Len(relay) /\ l.seen \subseteq l.known
    /\ l.on \subseteq l.known \cup {New}
    /\ l.v > 0 => /\ relay[l.v].known \subseteq l.known
                  /\ \A k \in relay[l.v].known \cup {New} :
                        k \in l.edited \/ (k \in l.on <=> k \in relay[l.v].on)

HookPc == {"idle", "loaded", "spooling"}
HookOK(x) == /\ x \in [pc : HookPc, list : List, p : Key] /\ Faithful(x.list)
             /\ x.pc = "loaded" => x.p \in Project
FlushOK(x) ==
    /\ x \in [pc : {"idle", "posting", "committing", "saving"}, list : List, done : BOOLEAN]
    /\ Faithful(x.list)
CmdOK(x) ==
    /\ x \in [pc : {"idle", "asking", "editing"}, list : List, key : Key, on : BOOLEAN,
              answer : 0..Len(relay)]
    /\ Faithful(x.list) /\ x.key \in x.list.known \cup {New}

Copies ==
    /\ relay \in Seq(RelayList)
    /\ Faithful(file) /\ FlushOK(flush) /\ CmdOK(cmd)
    /\ hooks \in [Session -> [pc : HookPc, list : List, p : Key]]
    /\ \A h \in Session : HookOK(hooks[h])

(* Who has been reported in this window, and was not overwritten since,    *)
(* has its stamp in the file.                                              *)
Stamped ==
    /\ told \in [Project -> {"none", "once", "lost"}]
    /\ \A p \in Project : told[p] = "once" => p \in file.seen

WatchIInv == Copies /\ Stamped

-----------------------------------------------------------------------------
(* The operators on lists.                                                 *)

LEMMA NoListFaithful == ASSUME relay \in Seq(RelayList) PROVE Faithful(NoList)
BY DEF Faithful, NoList, List, Key

LEMMA NotedFaithful ==
    ASSUME NEW l, Faithful(l), NEW p \in Project
    PROVE  Faithful(Noted(l, p)) /\ Noted(l, p).seen = l.seen \cup {p}
<1>1. p # New
  BY WatchAssumption
<1>2. l \in List
  BY DEF Faithful
<1> DEFINE n == Noted(l, p)
<1>3. /\ n \in List /\ n.v = l.v /\ n.known = l.known \cup {p} /\ n.seen = l.seen \cup {p}
      /\ n.edited = l.edited
      /\ n.on = IF p \notin l.known /\ New \in l.on THEN l.on \cup {p} ELSE l.on
  BY <1>2 DEF Noted, List, Key
<1> HIDE DEF n
<1>4. l.v > 0 => \A k \in relay[l.v].known \cup {New} : k \in n.on <=> k \in l.on
  BY <1>1, <1>3 DEF Faithful
<1>5. Faithful(n)
  BY <1>2, <1>3, <1>4 DEF Faithful
<1> QED BY <1>3, <1>5 DEF n

LEMMA AppliedFaithful ==
    ASSUME NEW l, Faithful(l), relay \in Seq(RelayList), NEW v \in 0..Len(relay)
    PROVE  Faithful(Applied(l, v))
<1>1. CASE v > l.v
  <2>1. l \in List /\ relay[v] \in RelayList
    BY <1>1 DEF Faithful, List
  <2> DEFINE n == [v |-> v, known |-> relay[v].known, on |-> relay[v].on,
                   seen |-> l.seen \cap relay[v].known, edited |-> {}]
  <2>2. n \in List /\ n.v = v /\ n.known = relay[v].known /\ n.on = relay[v].on
        /\ n.seen \subseteq n.known /\ n.on \subseteq n.known \cup {New}
    BY <2>1 DEF List, RelayList
  <2>3. Applied(l, v) = n
    BY <1>1 DEF Applied
  <2> HIDE DEF n
  <2> QED BY <2>2, <2>3 DEF Faithful
<1>2. CASE ~(v > l.v)
  BY <1>2 DEF Applied
<1> QED BY <1>1, <1>2

LEMMA EditedFaithful == ASSUME Copies PROVE Faithful(Edited)
<1>1. Faithful(cmd.list) /\ cmd.answer \in 0..Len(relay) /\ relay \in Seq(RelayList)
      /\ cmd.list \in List /\ cmd.key \in Key /\ cmd.key \in cmd.list.known \cup {New}
  BY DEF Copies, CmdOK, Faithful
<1>2. CASE cmd.answer > cmd.list.v
  BY <1>1, <1>2, AppliedFaithful DEF Edited
<1>3. CASE ~(cmd.answer > cmd.list.v)
  <2> DEFINE l == cmd.list
             n == [l EXCEPT !.on = Set(@, cmd.key, cmd.on), !.edited = @ \cup {cmd.key}]
  <2>1. Edited = n
    BY <1>3 DEF Edited
  <2>2. Set(l.on, cmd.key, cmd.on) \subseteq Key
        /\ \A k : k # cmd.key => (k \in Set(l.on, cmd.key, cmd.on) <=> k \in l.on)
    BY <1>1 DEF Set, List
  <2>3. /\ n \in List /\ n.v = l.v /\ n.known = l.known /\ n.seen = l.seen
        /\ n.on = Set(l.on, cmd.key, cmd.on) /\ n.edited = l.edited \cup {cmd.key}
    BY <1>1, <2>2 DEF List
  <2>4. n.on \subseteq n.known \cup {New}
    BY <1>1, <2>3 DEF Set, Faithful
  <2> HIDE DEF n
  <2> QED BY <1>1, <2>1, <2>2, <2>3, <2>4 DEF Faithful
<1> QED BY <1>2, <1>3

(* Six hours later.                                                        *)
LEMMA OldFaithful ==
    ASSUME NEW l, Faithful(l), NEW p
    PROVE  LET o == [l EXCEPT !.seen = @ \ {p}]
           IN  Faithful(o) /\ o.seen = l.seen \ {p} /\ o \in List
<1> DEFINE o == [l EXCEPT !.seen = @ \ {p}]
<1>1. /\ o \in List /\ o.v = l.v /\ o.known = l.known /\ o.on = l.on
      /\ o.seen = l.seen \ {p} /\ o.edited = l.edited
  BY DEF Faithful, List
<1> HIDE DEF o
<1> QED BY <1>1 DEF Faithful, o

(* The relay's next version leaves the older ones as they are.             *)
LEMMA RelayGrows ==
    ASSUME Copies, NEW k \in Key, NEW on \in BOOLEAN, RelaySets(k, on)
    PROVE  /\ relay' \in Seq(RelayList) /\ Len(relay') = Len(relay) + 1
           /\ \A l : Faithful(l) => Faithful(l)'
<1> DEFINE n == [known |-> Current.known \cup ({k} \cap Project),
                 on |-> Set(Current.on, k, on)]
<1>1. relay' = Append(relay, n) /\ relay \in Seq(RelayList)
  BY DEF RelaySets, Copies
<1>2. /\ Current.known \subseteq Project /\ Current.on \subseteq Key
      /\ Current.on \subseteq Current.known \cup {New}
  <2>1. CASE relay = <<>>
    BY <2>1 DEF Current, NoList, Key
  <2>2. CASE relay # <<>>
    <3>1. relay[Len(relay)] \in RelayList
      BY <1>1, <2>2
    <3> QED BY <2>2, <3>1 DEF Current, RelayList
  <2> QED BY <2>1, <2>2
<1>3. n \in RelayList
  <2>1. Set(Current.on, k, on) \subseteq Current.on \cup {k}
    BY DEF Set
  <2>2. k \in Key
    OBVIOUS
  <2> QED BY <1>2, <2>1, <2>2 DEF RelayList, Key
<1> HIDE DEF n
<1>4. relay' \in Seq(RelayList) /\ Len(relay') = Len(relay) + 1
      /\ \A i \in 1..Len(relay) : relay'[i] = relay[i]
  BY <1>1, <1>3
<1>5. ASSUME NEW l, Faithful(l) PROVE Faithful(l)'
  <2>1. l \in List /\ l.v \in Nat /\ l.v <= Len(relay) /\ Len(relay) \in Nat
    BY <1>1, <1>5 DEF Faithful, List
  <2>2. l.v > 0 => relay'[l.v] = relay[l.v]
    BY <1>4, <2>1
  <2> QED BY <1>4, <1>5, <2>1, <2>2 DEF Faithful
<1> QED BY <1>4, <1>5

-----------------------------------------------------------------------------
(* The steps.                                                              *)

LEMMA WatchInitHolds == WatchInit => WatchIInv
<1> SUFFICES ASSUME WatchInit PROVE WatchIInv
  OBVIOUS
<1>1. relay \in Seq(RelayList)
  BY DEF WatchInit
<1>2. Faithful(NoList) /\ NoList \in List /\ New \in Key
  BY <1>1, NoListFaithful DEF Faithful, Key
<1>3. HookOK(IdleHook) /\ FlushOK(IdleFlush) /\ CmdOK(IdleCmd)
  BY <1>1, <1>2
     DEF HookOK, FlushOK, CmdOK, HookPc, IdleHook, IdleFlush, IdleCmd
<1> QED BY <1>1, <1>2, <1>3 DEF WatchInit, WatchIInv, Copies, Stamped, HookOK

(* A step that leaves the relay and what is told alone.                    *)
LEMMA Elsewhere ==
    ASSUME WatchIInv, UNCHANGED <<relay, told, file>>,
           FlushOK(flush'), CmdOK(cmd'),
           hooks' \in [Session -> [pc : HookPc, list : List, p : Key]],
           \A h \in Session : HookOK(hooks'[h])
    PROVE  WatchIInv'
BY DEF WatchIInv, Copies, Stamped, HookOK, FlushOK, CmdOK, Faithful

(* A whole file saved over the one that is there.                          *)
LEMMA OverwriteKeeps ==
    ASSUME WatchIInv, NEW l, Faithful(l), Overwrite(l), UNCHANGED <<relay, hooks>>,
           FlushOK(flush'), CmdOK(cmd')
    PROVE  WatchIInv'
<1>1. Faithful(file)'
  BY DEF Overwrite, Save, Faithful
<1>2. Copies'
  BY <1>1 DEF WatchIInv, Copies, HookOK, FlushOK, CmdOK, Faithful
<1>3. ASSUME NEW q \in Project
      PROVE  /\ told'[q] \in {"none", "once", "lost"}
             /\ told'[q] = "once" => q \in file'.seen
  BY DEF WatchIInv, Stamped, Overwrite, Save, Told
<1>4. Stamped'
  BY <1>3 DEF Stamped, Overwrite
<1> QED BY <1>2, <1>4 DEF WatchIInv

LEMMA HookKeepsStep ==
    ASSUME WatchIInv, NEW h \in Session,
           (\E p \in Project : HookLoads(h, p)) \/ HookDrops(h) \/ HookSpools(h)
    PROVE  WatchIInv'
<1>1. UNCHANGED <<relay, told, file, flush, cmd>>
  BY DEF HookLoads, HookDrops, HookSpools
<1>2. HookOK(IdleHook) /\ \A p \in Project : HookOK([pc |-> "loaded", list |-> file, p |-> p])
  BY NoListFaithful DEF HookOK, HookPc, IdleHook, WatchIInv, Copies, Key, Faithful
<1>3. PICK x : HookOK(x) /\ hooks' = [hooks EXCEPT ![h] = x]
  BY <1>2 DEF HookLoads, HookDrops, HookSpools
<1> QED BY <1>1, <1>3, Elsewhere DEF WatchIInv, Copies, HookOK

LEMMA HookSavesStep == ASSUME WatchIInv, NEW h \in Session, HookSaves(h) PROVE WatchIInv'
<1> DEFINE l == hooks[h].list
           p == hooks[h].p
<1>1. /\ Faithful(l) /\ p \in Project /\ l \in List /\ l.seen \subseteq l.known
      /\ Decision(h) # "drop"
      /\ hooks' = [hooks EXCEPT ![h] = [IdleHook EXCEPT !.pc = "spooling"]]
      /\ file' = Noted(l, p) /\ UNCHANGED <<relay, flush, cmd>>
      /\ told' = [q \in Project |-> Told(l, q, q = p /\ Decision(h) = "seen")]
  BY DEF HookSaves, Save, WatchIInv, Copies, HookOK, Faithful
<1>2. Decision(h) = "seen" => p \notin l.seen
  BY <1>1 DEF Decision, Decide
<1> HIDE DEF l, p
<1>3. Faithful(file') /\ file'.seen = l.seen \cup {p}
  BY <1>1, NotedFaithful
<1>4. HookOK([IdleHook EXCEPT !.pc = "spooling"])
  BY NoListFaithful DEF HookOK, HookPc, IdleHook, WatchIInv, Copies, Key, Faithful
<1>5. Copies'
  BY <1>1, <1>3, <1>4 DEF WatchIInv, Copies, HookOK, FlushOK, CmdOK, Faithful
<1>6. ASSUME NEW q \in Project
      PROVE  /\ told'[q] \in {"none", "once", "lost"}
             /\ told'[q] = "once" => q \in file'.seen
  <2> DEFINE sends == q = p /\ Decision(h) = "seen"
  <2>1. told'[q] = Told(l, q, sends) /\ told[q] \in {"none", "once", "lost"}
        /\ (told[q] = "once" => q \in file.seen)
    BY <1>1 DEF WatchIInv, Stamped
  <2>2. sends => q = p /\ q \notin l.seen
    BY <1>2
  <2> HIDE DEF sends
  <2>3. CASE sends
    BY <1>3, <2>1, <2>2, <2>3 DEF Told
  <2>4. CASE ~sends
    BY <1>3, <2>1, <2>4 DEF Told
  <2> QED BY <2>3, <2>4
<1>7. Stamped'
  BY <1>1, <1>6 DEF Stamped
<1> QED BY <1>5, <1>7 DEF WatchIInv

LEMMA FlushStep ==
    ASSUME WatchIInv, FlushStarts \/ FlushAnswered \/ FlushFails \/ FlushCommits \/ FlushDies
    PROVE  WatchIInv'
<1>1. UNCHANGED <<relay, told, file, hooks, cmd>>
  BY DEF FlushStarts, FlushAnswered, FlushFails, FlushCommits, FlushDies
<1>2. /\ relay \in Seq(RelayList) /\ Len(relay) \in 0..Len(relay)
      /\ Faithful(file) /\ Faithful(flush.list) /\ FlushOK(flush)
  BY DEF WatchIInv, Copies, FlushOK
<1>3. Faithful(Applied(flush.list, Len(relay)))
  BY <1>2, AppliedFaithful
<1>4. Faithful(NoList)
  BY <1>2, NoListFaithful
<1>5. FlushOK(flush')
  <2>1. CASE FlushStarts
    BY <1>2, <2>1 DEF FlushStarts, FlushOK, Faithful
  <2>2. CASE FlushAnswered
    BY <1>3, <2>2 DEF FlushAnswered, FlushOK, Faithful
  <2>3. CASE FlushFails
    BY <1>2, <2>3 DEF FlushFails, FlushOK
  <2>4. CASE FlushCommits
    BY <1>2, <2>4 DEF FlushCommits, FlushOK
  <2>5. CASE FlushDies
    BY <1>4, <2>5 DEF FlushDies, FlushOK, IdleFlush, Faithful
  <2> QED BY <2>1, <2>2, <2>3, <2>4, <2>5
<1> QED BY <1>1, <1>5, Elsewhere DEF WatchIInv, Copies

LEMMA FlushSavesStep == ASSUME WatchIInv, FlushSaves PROVE WatchIInv'
<1>1. FlushOK(IdleFlush)
  BY NoListFaithful DEF WatchIInv, Copies, FlushOK, IdleFlush, Faithful
<1>2. Faithful(flush.list) /\ flush' = IdleFlush /\ cmd' = cmd
  BY DEF FlushSaves, WatchIInv, Copies, FlushOK
<1> QED BY <1>1, <1>2, OverwriteKeeps DEF FlushSaves, WatchIInv, Copies

LEMMA CmdLoadsStep == ASSUME WatchIInv, CmdLoads PROVE WatchIInv'
<1>1. UNCHANGED <<relay, told, file, flush, hooks>>
  BY DEF CmdLoads
<1>2. PICK k \in file.known \cup {New}, on \in BOOLEAN :
         cmd' = [pc |-> "asking", list |-> file, key |-> k, on |-> on, answer |-> 0]
  BY DEF CmdLoads
<1>3. k \in Key /\ Faithful(file) /\ file \in List /\ 0 \in 0..Len(relay)
  BY DEF WatchIInv, Copies, Faithful, List, Key
<1>4. CmdOK(cmd')
  BY <1>2, <1>3 DEF CmdOK
<1> QED BY <1>1, <1>4, Elsewhere DEF WatchIInv, Copies

LEMMA RelayStep ==
    ASSUME WatchIInv, NEW k \in Key, NEW on \in BOOLEAN, RelaySets(k, on),
           UNCHANGED <<file, hooks, flush, told>>,
           \/ cmd' = cmd
           \/ \E a \in {0, Len(relay) + 1} : cmd' = [cmd EXCEPT !.pc = "editing", !.answer = a]
    PROVE  WatchIInv'
<1>1. /\ relay' \in Seq(RelayList) /\ Len(relay') = Len(relay) + 1 /\ Len(relay) \in Nat
      /\ \A l : Faithful(l) => Faithful(l)'
  BY RelayGrows DEF WatchIInv, Copies
<1>2. CmdOK(cmd)'
  <2>1. /\ cmd \in [pc : {"idle", "asking", "editing"}, list : List, key : Key,
                    on : BOOLEAN, answer : 0..Len(relay)]
        /\ Faithful(cmd.list)' /\ cmd.key \in cmd.list.known \cup {New}
    BY <1>1 DEF WatchIInv, Copies, CmdOK
  <2>2. CASE cmd' = cmd
    BY <1>1, <2>1, <2>2 DEF CmdOK, Faithful
  <2>3. ASSUME NEW a \in {0, Len(relay) + 1},
               cmd' = [cmd EXCEPT !.pc = "editing", !.answer = a]
        PROVE  CmdOK(cmd)'
    <3> DEFINE Shape(S) == [pc : {"idle", "asking", "editing"}, list : List, key : Key,
                            on : BOOLEAN, answer : S]
    <3>1. cmd \in Shape(0..Len(relay)) /\ a \in 0..Len(relay')
      BY <1>1, <2>1
    <3>2. cmd'.list = cmd.list /\ cmd'.key = cmd.key
      BY <2>3, <3>1
    <3>3. cmd' \in Shape(0..Len(relay'))
      BY <2>3, <3>1
    <3> QED BY <2>1, <3>2, <3>3 DEF CmdOK, Faithful
  <2> QED BY <2>2, <2>3
<1>3. FlushOK(flush)' /\ Faithful(file)' /\ \A h \in Session : HookOK(hooks[h])'
  BY <1>1 DEF WatchIInv, Copies, FlushOK, HookOK
<1> QED BY <1>1, <1>2, <1>3 DEF WatchIInv, Copies, Stamped

LEMMA CmdAsksStep == ASSUME WatchIInv, CmdAsks PROVE WatchIInv'
<1>1. UNCHANGED <<told, file, flush, hooks>> /\ cmd.key \in Key /\ cmd.on \in BOOLEAN
  BY DEF CmdAsks, WatchIInv, Copies, CmdOK
<1>2. CASE /\ RelaySets(cmd.key, cmd.on)
           /\ \E a \in {0, Len(relay) + 1} :
                 cmd' = [cmd EXCEPT !.pc = "editing", !.answer = a]
  BY <1>1, <1>2, RelayStep
<1>3. CASE cmd' = [cmd EXCEPT !.pc = "editing"] /\ UNCHANGED relay
  <2>1. CmdOK(cmd')
    BY <1>3 DEF WatchIInv, Copies, CmdOK
  <2> QED BY <1>1, <1>3, <2>1, Elsewhere DEF WatchIInv, Copies
<1> QED BY <1>2, <1>3 DEF CmdAsks

LEMMA CmdSavesStep == ASSUME WatchIInv, CmdSaves PROVE WatchIInv'
<1>1. 0 \in 0..Len(relay) /\ New \in Key
  BY DEF WatchIInv, Copies, Key
<1>2. CmdOK(IdleCmd)
  BY <1>1, NoListFaithful DEF WatchIInv, Copies, CmdOK, IdleCmd, Faithful
<1>3. Faithful(Edited) /\ cmd' = IdleCmd /\ flush' = flush
  BY EditedFaithful DEF CmdSaves, WatchIInv
<1> QED BY <1>2, <1>3, OverwriteKeeps DEF CmdSaves, WatchIInv, Copies

LEMMA PhoneStep == ASSUME WatchIInv, PhoneSets PROVE WatchIInv'
BY RelayStep DEF PhoneSets

LEMMA WindowStep == ASSUME WatchIInv, NEW p \in Project, WindowEnds(p) PROVE WatchIInv'
<1> DEFINE Dated(l) == [l EXCEPT !.seen = @ \ {p}]
<1>1. /\ file' = Dated(file) /\ UNCHANGED relay /\ told' = [told EXCEPT ![p] = "none"]
      /\ hooks' = [h \in Session |-> [hooks[h] EXCEPT !.list = Dated(@)]]
      /\ flush' = [flush EXCEPT !.list = Dated(@)] /\ cmd' = [cmd EXCEPT !.list = Dated(@)]
  BY DEF WindowEnds
<1>2. \A l : Faithful(l) => /\ Faithful(Dated(l)) /\ Dated(l) \in List
                            /\ Dated(l).seen = l.seen \ {p}
  BY OldFaithful
<1> HIDE DEF Dated
<1>3. Faithful(file') /\ FlushOK(flush')
  BY <1>1, <1>2 DEF WatchIInv, Copies, FlushOK
<1>8. CmdOK(cmd')
  <2>1. Dated(cmd.list).known = cmd.list.known
    BY DEF Dated, WatchIInv, Copies, CmdOK, List
  <2> QED BY <1>1, <1>2, <2>1 DEF WatchIInv, Copies, CmdOK
<1>4. \A h \in Session : HookOK(hooks'[h])
  BY <1>1, <1>2 DEF WatchIInv, Copies, HookOK
<1>5. hooks' \in [Session -> [pc : HookPc, list : List, p : Key]]
  BY <1>1, <1>4 DEF HookOK
<1>6. Stamped'
  BY <1>1, <1>2 DEF WatchIInv, Copies, Stamped
<1>7. Copies'
  <2>1. relay' = relay /\ relay \in Seq(RelayList)
    BY <1>1 DEF WatchIInv, Copies
  <2>2. Faithful(file)'
    BY <1>3, <2>1 DEF Faithful
  <2>3. FlushOK(flush)'
    BY <1>3, <2>1 DEF FlushOK, Faithful
  <2>4. CmdOK(cmd)'
    BY <1>8, <2>1 DEF CmdOK, Faithful
  <2>5. \A h \in Session : HookOK(hooks[h])'
    BY <1>4, <2>1 DEF HookOK, Faithful
  <2> QED BY <1>5, <2>1, <2>2, <2>3, <2>4, <2>5 DEF Copies
<1> QED BY <1>6, <1>7 DEF WatchIInv

LEMMA StutterStep == WatchIInv /\ UNCHANGED watchVars => WatchIInv'
BY DEF watchVars, WatchIInv, Copies, Stamped, HookOK, FlushOK, CmdOK, Faithful

-----------------------------------------------------------------------------
(* The inductive invariant: every copy that may be saved is faithful to    *)
(* the version it bears.                                                   *)
THEOREM WatchListInv == WatchSpec => []WatchIInv
<1>1. WatchIInv /\ [WatchNext]_watchVars => WatchIInv'
  BY HookKeepsStep, HookSavesStep, FlushStep, FlushSavesStep, CmdLoadsStep, CmdAsksStep,
     CmdSavesStep, PhoneStep, WindowStep, StutterStep DEF WatchNext
<1> QED BY <1>1, WatchInitHolds, PTL DEF WatchSpec

(* BR-11 (watch.go's ApplyRelayList and Save): whichever writers overwrite *)
(* each other, the file never mixes two of the relay's lists.              *)
THEOREM WatchListWholeList == WatchSpec => []WholeList
<1>1. WatchIInv => WholeList
  BY DEF WatchIInv, Copies, Faithful, WholeList
<1> QED BY <1>1, WatchListInv, PTL

(* BR-10 (watch.go's Decide): one project_seen of an unwatched project in  *)
(* a window, for any number of hooks, unless two writers overlapped or the *)
(* relay sent a list without the project.                                  *)
THEOREM WatchListSeenOnce == WatchSpec => []SeenOncePerWindow
<1>1. WatchIInv => SeenOncePerWindow
  BY DEF WatchIInv, Stamped, SeenOncePerWindow
<1> QED BY <1>1, WatchListInv, PTL

(* Type correctness (watch.go's List): in the file and in every copy only  *)
(* a known project is on or has a stamp, and no copy is ahead of the relay. *)
THEOREM WatchListTypeOK == WatchSpec => []WatchTypeOK
<1> DEFINE Small == fresh \in BOOLEAN /\ cmds \in 0..MaxCmd
<1>1. WatchInit => Small
  <2> SUFFICES ASSUME WatchInit PROVE Small
    OBVIOUS
  <2>1. fresh \in BOOLEAN
    BY DEF WatchInit
  <2>2. cmds \in 0..MaxCmd
    BY WatchAssumption DEF WatchInit
  <2> QED BY <2>1, <2>2
<1>2. Small /\ [WatchNext]_watchVars => Small'
  <2> SUFFICES ASSUME Small, [WatchNext]_watchVars PROVE Small'
    OBVIOUS
  <2>1. fresh' \in BOOLEAN
    BY DEF WatchNext, watchVars, HookLoads, HookDrops, HookSaves, HookSpools, FlushStarts,
           FlushAnswered, FlushFails, FlushCommits, FlushSaves, FlushDies, CmdLoads, CmdAsks,
           CmdSaves, PhoneSets, WindowEnds
  <2>2. cmds' = cmds \/ (cmds < MaxCmd /\ cmds' = cmds + 1)
    BY DEF WatchNext, watchVars, HookLoads, HookDrops, HookSaves, HookSpools, FlushStarts,
           FlushAnswered, FlushFails, FlushCommits, FlushSaves, FlushDies, CmdLoads, CmdAsks,
           CmdSaves, PhoneSets, WindowEnds
  <2> QED BY <2>1, <2>2, WatchAssumption
<1>3. WatchIInv /\ Small => WatchTypeOK
  <2>1. \A l : Faithful(l) => ListOK(l)
    BY DEF Faithful, List, ListOK
  <2> QED BY <2>1 DEF WatchIInv, Copies, Stamped, HookOK, FlushOK, CmdOK, WatchTypeOK
<1> HIDE DEF Small
<1> QED BY <1>1, <1>2, <1>3, WatchListInv, PTL DEF WatchSpec
=============================================================================
