--------------------------- MODULE SchedulerProofs ---------------------------
(***************************************************************************)
(* Proofs about Scheduler, for any set of hosts, any configurations and    *)
(* any number of reloads.                                                  *)
(*                                                                         *)
(* SortedAtFire needs a fact about Reload: the entries it stages are all   *)
(* due at one time, so whichever order the map iteration gives them is     *)
(* sorted, and installing them behind the loop's back does no harm.        *)
(***************************************************************************)
EXTENDS Scheduler, FiniteSetTheorems, TLAPS

\* The entries Reload has built are due at one time.
StagedTogether == \A g, h \in DOMAIN staged : staged[g].next = staged[h].next

IInv == TypeOK /\ SortedAtFire /\ StagedTogether
-----------------------------------------------------------------------------
\* A slice of n distinct hosts out of n leaves none out.
LEMMA OrderCovers ==
    ASSUME NEW S, IsFiniteSet(S), NEW o \in Orders(S), NEW h \in S
    PROVE  \E i \in DOMAIN o : o[i] = h
<1>1. Cardinality(S) \in Nat
  BY FS_CardinalityType
<1>2. IsFiniteSet(1..Cardinality(S)) /\ Cardinality(1..Cardinality(S)) = Cardinality(S)
  BY <1>1, FS_Interval
<1>3. o \in Injection(1..Cardinality(S), S)
  <2>1. /\ o \in [1..Cardinality(S) -> S] /\ DOMAIN o = 1..Cardinality(S)
        /\ \A i, j \in DOMAIN o : o[i] = o[j] => i = j
    BY DEF Orders
  <2> QED BY <2>1 DEF Injection, IsInjective
<1>4. o \in Surjection(1..Cardinality(S), S)
  BY <1>2, <1>3, FS_Injection
<1> QED BY <1>4 DEF Surjection

\* buildEntries gives every host with jobs a positive interval and one due time.
LEMMA BuildType ==
    ASSUME NEW c \in Cfgs, NEW t \in Int
    PROVE  /\ DOMAIN Build(c, t) = DOMAIN c /\ DOMAIN c \subseteq Hosts
           /\ \A h \in DOMAIN c : Build(c, t)[h] \in Entry /\ Build(c, t)[h].next = t
<1>1. DOMAIN c \subseteq Hosts /\ \A h \in DOMAIN c : c[h] \in Int
  BY SchedulerAssumption
<1> QED BY <1>1 DEF Build, Entry, DefaultInterval

\* A new scheduler satisfies the invariant.
LEMMA InitIInv == Init => IInv
<1> SUFFICES ASSUME Init PROVE IInv
  OBVIOUS
<1>1. InitCfg \in Cfgs /\ MaxReloads \in Nat
  BY SchedulerAssumption
<1>2. TypeOK
  <2>1. /\ DOMAIN entries = DOMAIN InitCfg /\ DOMAIN InitCfg \subseteq Hosts
        /\ \A h \in DOMAIN InitCfg : entries[h] \in Entry
    BY <1>1, BuildType DEF Init
  <2>2. Scheduled(entries, order)
    BY <2>1 DEF Init, Scheduled
  <2>3. DOMAIN staged \subseteq Hosts /\ \A h \in DOMAIN staged : staged[h] \in Entry
    BY <2>1 DEF Init
  <2>4. /\ clock \in Nat /\ wake \in Int /\ now \in Int /\ reloads \in 0..MaxReloads
        /\ pc = "top" /\ rpc = "idle"
    BY <1>1 DEF Init
  <2>5. cancelled \in BOOLEAN
    BY DEF Init
  <2> QED BY <2>2, <2>3, <2>4, <2>5 DEF TypeOK
<1>3. SortedAtFire /\ StagedTogether
  BY <1>1, BuildType DEF Init, SortedAtFire, StagedTogether
<1> QED BY <1>2, <1>3 DEF IInv

\* Each step of the loop keeps the invariant.
LEMMA LoopIInv == ASSUME IInv, Loop \/ Exit PROVE IInv'
<1> USE DEF IInv, loopVars, reloadVars
<1>1. CASE LoopEmpty
  BY <1>1 DEF LoopEmpty, TypeOK, SortedAtFire, StagedTogether
<1>2. CASE IdleOver
  BY <1>2 DEF IdleOver, TypeOK, SortedAtFire, StagedTogether
<1>3. CASE LoopSort
  <2> USE <1>3 DEF LoopSort
  <2>1. order' \in [1..Cardinality(DOMAIN entries) -> DOMAIN entries]
    BY DEF Orders
  <2>2. 1 \in 1..Cardinality(DOMAIN entries)
    <3>1. IsFiniteSet(DOMAIN entries)
      BY SchedulerAssumption, FS_Subset DEF TypeOK, Scheduled
    <3> QED BY <3>1, FS_CardinalityType, FS_EmptySet
  <2>3. wake' \in Int
    BY <2>1, <2>2 DEF TypeOK, Scheduled, Entry
  <2>4. TypeOK'
    BY <2>3 DEF TypeOK, Scheduled
  <2> QED BY <2>4 DEF SortedAtFire, StagedTogether
<1>4. CASE TimerFires
  BY <1>4 DEF TimerFires, TypeOK, SortedAtFire, StagedTogether
<1>5. CASE Fire
  <2> USE <1>5 DEF Fire
  <2>1. DOMAIN entries' = DOMAIN entries
    OBVIOUS
  <2>2. \A h \in DOMAIN entries : entries'[h] \in Entry
    <3> SUFFICES ASSUME NEW h \in DOMAIN entries
                 PROVE  entries'[h] \in Entry
      OBVIOUS
    <3>1. entries[h] \in Entry /\ now \in Int
      BY DEF TypeOK, Scheduled
    <3>2. [entries[h] EXCEPT !.next = now + entries[h].interval] \in Entry
      BY <3>1 DEF Entry
    <3> QED BY <3>1, <3>2
  <2>3. TypeOK'
    BY <2>1, <2>2 DEF TypeOK, Scheduled
  <2> QED BY <2>3 DEF SortedAtFire, StagedTogether
<1>6. CASE Exit
  BY <1>6 DEF Exit, TypeOK, SortedAtFire, StagedTogether
<1> QED BY <1>1, <1>2, <1>3, <1>4, <1>5, <1>6 DEF Loop

\* Each half of Reload, the clock and the context keep the invariant.
LEMMA ReloadIInv ==
    ASSUME IInv, (\E c \in Cfgs : ReloadBuild(c)) \/ ReloadInstall \/ Tick \/ Cancel
    PROVE  IInv'
<1> USE DEF IInv, loopVars, reloadVars
<1>1. ASSUME NEW c \in Cfgs, ReloadBuild(c) PROVE IInv'
  <2> USE <1>1 DEF ReloadBuild
  <2>1. clock \in Int
    BY DEF TypeOK
  <2>2. /\ DOMAIN staged' \subseteq Hosts /\ \A h \in DOMAIN staged' : staged'[h] \in Entry
        /\ StagedTogether'
    BY <2>1, BuildType DEF StagedTogether
  <2>3. TypeOK'
    BY <2>2, SchedulerAssumption DEF TypeOK, Scheduled
  <2> QED BY <2>2, <2>3 DEF SortedAtFire
<1>2. CASE ReloadInstall
  <2> USE <1>2 DEF ReloadInstall
  <2>1. TypeOK'
    BY DEF TypeOK, Scheduled
  <2>2. Sorted(order', entries')
    <3>1. ASSUME NEW i \in DOMAIN order', NEW j \in DOMAIN order'
          PROVE  entries'[order'[i]].next <= entries'[order'[j]].next
      <4>1. order'[i] \in DOMAIN staged /\ order'[j] \in DOMAIN staged
        BY DEF Orders
      <4> QED BY <4>1 DEF StagedTogether, TypeOK, Entry
    <3> QED BY <3>1 DEF Sorted
  <2> QED BY <2>1, <2>2 DEF SortedAtFire, StagedTogether
<1>3. CASE Tick
  BY <1>3 DEF Tick, TypeOK, SortedAtFire, StagedTogether
<1>4. CASE Cancel
  BY <1>4 DEF Cancel, TypeOK, SortedAtFire, StagedTogether
<1> QED BY <1>1, <1>2, <1>3, <1>4

\* The invariant holds in every reachable state.
LEMMA Invariance == Spec => []IInv
<1>1. IInv /\ [Next]_vars => IInv'
  <2>1. ASSUME IInv, UNCHANGED vars PROVE IInv'
    BY <2>1 DEF vars, loopVars, reloadVars, IInv, TypeOK, SortedAtFire, StagedTogether
  <2> QED BY <2>1, LoopIInv, ReloadIInv DEF Next
<1> QED BY <1>1, InitIInv, PTL DEF Spec

\* The break skips nothing: what Fire does not reach is not due at its now.
LEMMA UnreachedIsLater ==
    ASSUME IInv, pc = "fire", NEW h \in DOMAIN entries \ Reached
    PROVE  entries[h].next > now
<1> USE DEF IInv, TypeOK, Scheduled
<1>1. IsFiniteSet(DOMAIN entries)
  BY SchedulerAssumption, FS_Subset
<1>2. PICK i \in DOMAIN order : order[i] = h
  BY <1>1, OrderCovers
<1>3. DOMAIN order = 1..Cardinality(DOMAIN entries) /\ Cardinality(DOMAIN entries) \in Nat
  BY <1>1, FS_CardinalityType DEF Orders
<1>4. PICK j \in 1..i : ~(entries[order[j]].next <= now)
  BY <1>2 DEF Reached
<1>5. j \in DOMAIN order /\ j <= i
  BY <1>3, <1>4
<1>6. order[j] \in DOMAIN entries /\ order[i] \in DOMAIN entries
  BY <1>5 DEF Orders
<1>7. /\ entries[order[j]].next \in Int /\ entries[order[i]].next \in Int /\ now \in Int
  BY <1>6 DEF Entry
<1>8. entries[order[j]].next <= entries[order[i]].next
  <2>1. CASE j = i
    BY <2>1, <1>7
  <2>2. CASE j # i
    BY <2>2, <1>3, <1>5 DEF SortedAtFire, Sorted
  <2> QED BY <2>1, <2>2
<1> QED BY <1>2, <1>4, <1>7, <1>8
-----------------------------------------------------------------------------
\* The scheduler's state stays of its type: the slice holds every scheduled
\* host exactly once, with a positive interval, across any reloads.
THEOREM TypeCorrect == Spec => []TypeOK
<1>1. IInv => TypeOK
  BY DEF IInv
<1> QED BY <1>1, Invariance, PTL

\* Whenever the loop is about to fire, the slice is sorted by due time, even if
\* a Reload replaced it while the loop slept.
THEOREM SortedCorrect == Spec => []SortedAtFire
<1>1. IInv => SortedAtFire
  BY DEF IInv
<1> QED BY <1>1, Invariance, PTL

\* The loop fires every host that is due at its now, and moves each of them
\* past it: nothing is passed over by the break and nothing spins.
THEOREM FiresAllCorrect == Spec => FiresAllDue
<1>1. IInv /\ [Next]_vars =>
        [pc = "fire" /\ pc' = "top" => \A h \in DOMAIN entries' : entries'[h].next > now]_vars
  <2> SUFFICES ASSUME IInv, Next, pc = "fire", pc' = "top", NEW h \in DOMAIN entries'
               PROVE  entries'[h].next > now
    OBVIOUS
  <2>1. Fire
    BY DEF Next, Loop, LoopEmpty, IdleOver, LoopSort, TimerFires, Exit, ReloadBuild,
           ReloadInstall, Tick, Cancel, loopVars
  <2>2. h \in DOMAIN entries /\ entries[h] \in Entry /\ now \in Int
    BY <2>1 DEF Fire, IInv, TypeOK, Scheduled
  <2>3. CASE h \in Reached
    BY <2>1, <2>2, <2>3 DEF Fire, Entry
  <2>4. CASE h \notin Reached
    BY <2>1, <2>2, <2>4, UnreachedIsLater DEF Fire
  <2> QED BY <2>3, <2>4
<1> QED BY <1>1, Invariance, PTL DEF Spec, FiresAllDue
=============================================================================
