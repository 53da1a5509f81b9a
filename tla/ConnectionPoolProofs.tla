------------------------ MODULE ConnectionPoolProofs ------------------------
(***************************************************************************)
(* Proofs about ConnectionPool, for every value of its constants: its      *)
(* types, the accounting of the semaphores, the bound on a device's        *)
(* sessions, who owns a session, and that the pool as a whole is a lease   *)
(* manager (SessionLease).                                                 *)
(***************************************************************************)
EXTENDS ConnectionPool, FiniteSetTheorems, TLAPS

-----------------------------------------------------------------------------
(* Typing *)

\* A new device pool has room for at least one session.
LEMMA CapacityType == ASSUME NEW c \in Configs PROVE Capacity(c) \in Nat \ {0}
BY PoolAssumption DEF Capacity

\* Ageing an idle entry keeps it an entry of the same session.
LEMMA OlderType ==
    ASSUME NEW e \in Entry
    PROVE  Older(e) \in Entry /\ Older(e).conn = e.conn
BY PoolAssumption DEF Older, Entry

\* What popIdle leaves of a stack is a stack with the same bottom entries.
LEMMA SubSeqType ==
    ASSUME NEW S, NEW s \in Seq(S), NEW n \in DOMAIN s
    PROVE  /\ SubSeq(s, 1, n - 1) \in Seq(S)
           /\ Len(SubSeq(s, 1, n - 1)) = n - 1
           /\ DOMAIN SubSeq(s, 1, n - 1) = 1..(n - 1)
           /\ 1..(n - 1) \subseteq DOMAIN s
           /\ \A i \in 1..(n - 1) : SubSeq(s, 1, n - 1)[i] = s[i]
OBVIOUS

\* The initial state of the pool is well typed.
LEMMA InitType == Init => TypeOK
<1> SUFFICES ASSUME Init PROVE TypeOK
  OBVIOUS
<1>1. idle \in [Devices -> Seq(Entry)]
  BY DEF Init
<1>2. pc \in [Workers -> Slotted \cup {"ready", "create", "check", "acquire"}]
  BY DEF Init
<1>3. \A w \in Workers : /\ job[w] = NoJob <=> pc[w] = "ready"
                         /\ held[w] = NoConn <=> pc[w] \notin Using
  BY DEF Init, Using
<1>4. /\ config \in [Devices -> Configs] /\ reloads \in 0..MaxReloads
      /\ cap \in [Devices -> Nat] /\ sem \in [Devices -> Nat]
      /\ dialled \in [Conns -> Job \cup {NoJob}]
      /\ job \in [Workers -> Job \cup {NoJob}]
      /\ held \in [Workers -> Conns \cup {NoConn}]
  BY PoolAssumption DEF Init
<1>5. /\ cancelled \in BOOLEAN /\ closed \in BOOLEAN /\ panicked \in BOOLEAN
      /\ kpc \in [Closers -> {"start", "signal", "lock", "drain", "done"}]
      /\ mu \in Closers \cup {NoCloser} /\ todrain \subseteq Devices
  BY DEF Init
<1> QED BY <1>1, <1>2, <1>3, <1>4, <1>5 DEF TypeOK

\* Every step of a worker inside Get keeps the types.
LEMMA GetType ==
    ASSUME TypeOK, NEW w \in Workers, Get(w)
    PROVE  TypeOK'
<1> USE DEF TypeOK, Slotted, Using, Goto, Finish, Dev, Job,
            workerVars, poolVars, envVars, closeVars
<1>1. ASSUME NEW d \in Devices, Lookup(w, d) PROVE TypeOK'
  BY <1>1, PoolAssumption DEF Lookup
<1>2. CASE Create(w)
  BY <1>2, CapacityType DEF Create
<1>3. CASE CheckClosed(w)
  BY <1>3 DEF CheckClosed
<1>4. CASE Acquire(w)
  BY <1>4 DEF Acquire
<1>5. CASE AbortAcquire(w)
  BY <1>5 DEF AbortAcquire
<1>6. CASE PopIdle(w)
  <2>1. PICK n \in DOMAIN idle[Dev(w)] :
           /\ held' = [held EXCEPT ![w] = idle[Dev(w)][n].conn]
           /\ idle' = [idle EXCEPT ![Dev(w)] = SubSeq(idle[Dev(w)], 1, n - 1)]
    BY <1>6 DEF PopIdle
  <2>2. Dev(w) \in Devices /\ idle[Dev(w)] \in Seq(Entry)
    BY <1>6 DEF PopIdle
  <2>3. idle[Dev(w)][n] \in Entry
    BY <2>2
  <2>4. idle[Dev(w)][n].conn \in Conns /\ idle[Dev(w)][n].conn # NoConn
    BY <2>3, PoolAssumption DEF Entry
  <2>5. SubSeq(idle[Dev(w)], 1, n - 1) \in Seq(Entry)
    BY <2>2, SubSeqType
  <2>6. dialled' \in [Conns -> Job \cup {NoJob}]
    BY <1>6 DEF PopIdle, Shut
  <2> QED BY <1>6, <2>1, <2>2, <2>4, <2>5, <2>6 DEF PopIdle
<1>7. CASE PopNone(w)
  BY <1>7 DEF PopNone, Shut
<1>8. CASE Dial(w)
  BY <1>8, PoolAssumption DEF Dial, Open
<1>9. CASE DialFail(w)
  BY <1>9 DEF DialFail
<1> QED BY <1>1, <1>2, <1>3, <1>4, <1>5, <1>6, <1>7, <1>8, <1>9 DEF Get

\* Every step of a worker from the request to the release keeps the types.
LEMMA ReturnType ==
    ASSUME TypeOK, NEW w \in Workers, Return(w)
    PROVE  TypeOK'
<1> USE DEF TypeOK, Slotted, Using, Goto, Finish, Dev, Job,
            workerVars, poolVars, envVars, closeVars
<1>1. CASE PollDone(w)
  BY <1>1 DEF PollDone
<1>2. CASE PutLookup(w)
  BY <1>2 DEF PutLookup
<1>3. CASE PutStore(w)
  <2>1. Dev(w) \in Devices /\ idle[Dev(w)] \in Seq(Entry) /\ held[w] \in Conns
    BY <1>3 DEF PutStore
  <2>2. [conn |-> held[w], age |-> 0] \in Entry
    BY <2>1, PoolAssumption DEF Entry
  <2>3. Append(idle[Dev(w)], [conn |-> held[w], age |-> 0]) \in Seq(Entry)
    BY <2>1, <2>2
  <2>4. dialled' \in [Conns -> Job \cup {NoJob}]
    BY <1>3 DEF PutStore, Shut
  <2>5. idle' \in [Devices -> Seq(Entry)]
    BY <1>3, <2>1, <2>3 DEF PutStore
  <2> QED BY <1>3, <2>4, <2>5 DEF PutStore
<1>4. CASE DiscardClose(w)
  BY <1>4 DEF DiscardClose, Shut
<1>5. CASE DiscardLookup(w)
  BY <1>5 DEF DiscardLookup
<1>6. CASE Release(w)
  BY <1>6 DEF Release
<1> QED BY <1>1, <1>2, <1>3, <1>4, <1>5, <1>6 DEF Return

\* Every step of Close keeps the types.
LEMMA CloseType ==
    ASSUME TypeOK, NEW k \in Closers, Close(k)
    PROVE  TypeOK'
<1> USE DEF TypeOK, KGoto, workerVars, poolVars, envVars
<1>1. CASE CloseCheck(k)
  BY <1>1 DEF CloseCheck
<1>2. CASE CloseSignal(k)
  BY <1>2 DEF CloseSignal
<1>3. CASE CloseLock(k)
  BY <1>3 DEF CloseLock
<1>4. CASE CloseDrain(k)
  BY <1>4 DEF CloseDrain, Shut
<1>5. CASE CloseUnlock(k)
  BY <1>5 DEF CloseUnlock
<1> QED BY <1>1, <1>2, <1>3, <1>4, <1>5 DEF Close

\* Reload, Cancel, the passage of time and stuttering keep the types.
LEMMA EnvType ==
    ASSUME TypeOK,
           \/ \E d \in Devices, c \in Configs : Reload(d, c)
           \/ Cancel
           \/ Tick
           \/ UNCHANGED vars
    PROVE  TypeOK'
<1> USE DEF TypeOK, workerVars, poolVars, envVars, closeVars
<1>1. ASSUME NEW d \in Devices, NEW c \in Configs, Reload(d, c) PROVE TypeOK'
  BY <1>1, PoolAssumption DEF Reload
<1>2. CASE Cancel
  BY <1>2 DEF Cancel
<1>3. CASE Tick
  <2>1. ASSUME NEW d \in Devices
        PROVE  [i \in DOMAIN idle[d] |-> Older(idle[d][i])] \in Seq(Entry)
    <3>1. idle[d] \in Seq(Entry) /\ DOMAIN idle[d] = 1..Len(idle[d])
      OBVIOUS
    <3>2. \A i \in DOMAIN idle[d] : Older(idle[d][i]) \in Entry
      BY <3>1, OlderType
    <3> QED BY <3>1, <3>2
  <2> QED BY <1>3, <2>1 DEF Tick
<1>4. CASE UNCHANGED vars
  BY <1>4 DEF vars
<1> QED BY <1>1, <1>2, <1>3, <1>4

\* A step of the pool keeps the types.
LEMMA TypeStep == TypeOK /\ [Next]_vars => TypeOK'
BY GetType, ReturnType, CloseType, EnvType DEF Next

\* TypeOK holds in every state of ConnectionPool, for any workers, devices,
\* sessions, limits and reloads: in particular a worker inside Poll has a job,
\* one that uses a session has it, and no other has one.
THEOREM TypeCorrect == Spec => []TypeOK
BY InitType, TypeStep, PTL DEF Spec
-----------------------------------------------------------------------------
(* The semaphore *)

\* Counting a set of workers when one joins or leaves it.
LEMMA CountWorkers ==
    ASSUME NEW S \in SUBSET Workers, NEW w \in Workers
    PROVE  /\ Cardinality(S) \in Nat
           /\ w \notin S => Cardinality(S \cup {w}) = Cardinality(S) + 1
           /\ w \in S => Cardinality(S \ {w}) = Cardinality(S) - 1
<1>1. IsFiniteSet(S)
  BY PoolAssumption, FS_Subset
<1> QED BY <1>1, FS_CardinalityType, FS_AddElement, FS_RemoveElement

\* The slot holders of every device stay the same when no worker takes or
\* gives back a slot and none that has one changes its job.
LEMMA SlotFrame ==
    ASSUME \A v \in Workers : /\ pc[v] \in Slotted <=> pc'[v] \in Slotted
                              /\ pc[v] \in Slotted => job'[v] = job[v]
    PROVE  \A d \in Devices : SlotHolders(d)' = SlotHolders(d)
BY DEF SlotHolders, Dev

\* A step that leaves sem and the slot holders alone and lets a semaphore only
\* come into being keeps the account.
LEMMA SemFrame ==
    ASSUME TypeOK, TypeOK', SemAccounting, sem' = sem,
           \A d \in Devices : cap[d] <= cap'[d],
           \A d \in Devices : SlotHolders(d)' = SlotHolders(d)
    PROVE  SemAccounting'
BY DEF SemAccounting, TypeOK

\* Acquire adds its worker to the holders of its device.
LEMMA AcquireHolders ==
    ASSUME TypeOK, NEW w \in Workers, Acquire(w)
    PROVE  /\ Dev(w) \in Devices
           /\ w \notin SlotHolders(Dev(w))
           /\ \A d \in Devices : SlotHolders(d)' =
                IF d = Dev(w) THEN SlotHolders(d) \cup {w} ELSE SlotHolders(d)
BY DEF TypeOK, Acquire, SlotHolders, Slotted, Dev, Goto, Job

\* Release removes its worker from the holders of its device.
LEMMA ReleaseHolders ==
    ASSUME TypeOK, NEW w \in Workers, Release(w)
    PROVE  /\ Dev(w) \in Devices
           /\ w \in SlotHolders(Dev(w))
           /\ \A d \in Devices : SlotHolders(d)' =
                IF d = Dev(w) THEN SlotHolders(d) \ {w} ELSE SlotHolders(d)
BY DEF TypeOK, Release, SlotHolders, Slotted, Dev, Goto, Finish, Job

\* A step keeps the account of the semaphores.
LEMMA SemStep == TypeOK /\ TypeOK' /\ SemAccounting /\ [Next]_vars => SemAccounting'
<1> SUFFICES ASSUME TypeOK, TypeOK', SemAccounting, [Next]_vars
             PROVE  SemAccounting'
  OBVIOUS
<1>f. ASSUME sem' = sem, \A d \in Devices : cap[d] <= cap'[d],
             \A v \in Workers : /\ pc[v] \in Slotted <=> pc'[v] \in Slotted
                                /\ pc[v] \in Slotted => job'[v] = job[v]
      PROVE  SemAccounting'
  BY <1>f, SlotFrame, SemFrame
<1> USE DEF Goto, Finish, workerVars, poolVars, envVars, closeVars
<1>1. ASSUME NEW w \in Workers, Get(w) PROVE SemAccounting'
  <2>1. CASE Acquire(w)
    <3>1. sem' = [sem EXCEPT ![Dev(w)] = @ + 1] /\ cap' = cap
          /\ sem[Dev(w)] < cap[Dev(w)]
      BY <2>1 DEF Acquire
    <3>2. Cardinality(SlotHolders(Dev(w)) \cup {w})
             = Cardinality(SlotHolders(Dev(w))) + 1
      BY <2>1, AcquireHolders, CountWorkers DEF SlotHolders
    <3>3. Cardinality(SlotHolders(Dev(w))) \in Nat
      BY CountWorkers DEF SlotHolders
    <3>4. ASSUME NEW d \in Devices
          PROVE  sem'[d] = Cardinality(SlotHolders(d)') /\ sem'[d] <= cap'[d]
      <4>1. /\ sem \in [Devices -> Nat] /\ cap \in [Devices -> Nat]
            /\ sem[d] = Cardinality(SlotHolders(d)) /\ sem[d] <= cap[d]
        BY DEF TypeOK, SemAccounting
      <4>2. CASE d = Dev(w)
        <5>1. SlotHolders(d)' = SlotHolders(d) \cup {w}
          BY <2>1, <4>2, AcquireHolders
        <5>2. Cardinality(SlotHolders(d)') = Cardinality(SlotHolders(d)) + 1
          BY <3>2, <4>2, <5>1
        <5> QED BY <3>1, <4>1, <4>2, <5>2
      <4>3. CASE d # Dev(w)
        <5>1. SlotHolders(d)' = SlotHolders(d)
          BY <2>1, <4>3, AcquireHolders
        <5> QED BY <3>1, <4>1, <4>3, <5>1
      <4> QED BY <4>2, <4>3
    <3> QED BY <3>4 DEF SemAccounting
  <2>2. CASE Create(w)
    <3>1. \A d \in Devices : cap[d] <= cap'[d]
      BY <2>2 DEF Create, TypeOK
    <3> QED BY <1>f, <2>2, <3>1 DEF Create, TypeOK, Slotted
  <2>3. CASE ~Acquire(w) /\ ~Create(w)
    <3>1. sem' = sem /\ cap' = cap
      BY <1>1, <2>3 DEF Get, Lookup, CheckClosed, AbortAcquire, PopIdle, PopNone,
                        Dial, DialFail
    <3>2. \A v \in Workers : /\ pc[v] \in Slotted <=> pc'[v] \in Slotted
                             /\ pc[v] \in Slotted => job'[v] = job[v]
      BY <1>1, <2>3 DEF Get, Lookup, CheckClosed, AbortAcquire, PopIdle, PopNone,
                        Dial, DialFail, TypeOK, Slotted
    <3> QED BY <1>f, <3>1, <3>2 DEF TypeOK
  <2> QED BY <2>1, <2>2, <2>3
<1>2. ASSUME NEW w \in Workers, Return(w) PROVE SemAccounting'
  <2>1. CASE Release(w)
    <3>1. sem' = [sem EXCEPT ![Dev(w)] = @ - 1] /\ cap' = cap
      BY <2>1 DEF Release
    <3>2. Cardinality(SlotHolders(Dev(w)) \ {w})
             = Cardinality(SlotHolders(Dev(w))) - 1
      BY <2>1, ReleaseHolders, CountWorkers DEF SlotHolders
    <3>3. Cardinality(SlotHolders(Dev(w))) \in Nat
      BY CountWorkers DEF SlotHolders
    <3>4. ASSUME NEW d \in Devices
          PROVE  sem'[d] = Cardinality(SlotHolders(d)') /\ sem'[d] <= cap'[d]
      <4>1. /\ sem \in [Devices -> Nat] /\ cap \in [Devices -> Nat]
            /\ sem[d] = Cardinality(SlotHolders(d)) /\ sem[d] <= cap[d]
        BY DEF TypeOK, SemAccounting
      <4>2. CASE d = Dev(w)
        <5>1. SlotHolders(d)' = SlotHolders(d) \ {w}
          BY <2>1, <4>2, ReleaseHolders
        <5>2. Cardinality(SlotHolders(d)') = Cardinality(SlotHolders(d)) - 1
          BY <3>2, <4>2, <5>1
        <5> QED BY <3>1, <4>1, <4>2, <5>2
      <4>3. CASE d # Dev(w)
        <5>1. SlotHolders(d)' = SlotHolders(d)
          BY <2>1, <4>3, ReleaseHolders
        <5> QED BY <3>1, <4>1, <4>3, <5>1
      <4> QED BY <4>2, <4>3
    <3> QED BY <3>4 DEF SemAccounting
  <2>2. CASE ~Release(w)
    <3>1. sem' = sem /\ cap' = cap /\ job' = job
      BY <1>2, <2>2 DEF Return, PollDone, PutLookup, PutStore, DiscardClose,
                        DiscardLookup
    <3>2. \A v \in Workers : pc[v] \in Slotted <=> pc'[v] \in Slotted
      BY <1>2, <2>2 DEF Return, PollDone, PutLookup, PutStore, DiscardClose,
                        DiscardLookup, TypeOK, Slotted
    <3> QED BY <1>f, <3>1, <3>2 DEF TypeOK
  <2> QED BY <2>1, <2>2
<1>3. CASE \E k \in Closers : Close(k)
  <2>1. UNCHANGED <<sem, cap, pc, job>>
    BY <1>3 DEF Close, CloseCheck, CloseSignal, CloseLock, CloseDrain, CloseUnlock
  <2> QED BY <1>f, <2>1 DEF TypeOK
<1>4. CASE \/ \E d \in Devices, c \in Configs : Reload(d, c)
           \/ Cancel \/ Tick \/ UNCHANGED vars
  <2>1. UNCHANGED <<sem, cap, pc, job>>
    BY <1>4 DEF Reload, Cancel, Tick, vars
  <2> QED BY <1>f, <2>1 DEF TypeOK
<1> QED BY <1>1, <1>2, <1>3, <1>4 DEF Next

\* Before the first job nobody holds a slot.
LEMMA SemInit == Init => SemAccounting
<1> SUFFICES ASSUME Init, NEW d \in Devices
             PROVE  sem[d] = Cardinality(SlotHolders(d)) /\ sem[d] <= cap[d]
  BY DEF SemAccounting
<1>1. SlotHolders(d) = {}
  BY DEF Init, SlotHolders, Slotted
<1> QED BY <1>1, FS_EmptySet DEF Init

\* The semaphore of a device always counts exactly the workers between their
\* acquire and their release, and never more than its capacity.
THEOREM SemCorrect == Spec => []SemAccounting
BY InitType, TypeStep, SemInit, SemStep, PTL DEF Spec
-----------------------------------------------------------------------------
(* The number of sockets per device *)

\* The bound of one device.
Fits(d) == Len(idle[d]) + Cardinality(Sessions(d)) <= cap[d]

\* A device keeps its bound when it gains neither an idle nor a used session.
LEMMA FitsFrame ==
    ASSUME TypeOK, TypeOK', NEW d \in Devices, Fits(d), cap[d] <= cap'[d],
           Len(idle'[d]) <= Len(idle[d]), Sessions(d)' \subseteq Sessions(d)
    PROVE  Fits(d)'
<1>1. IsFiniteSet(Sessions(d))
  BY PoolAssumption, FS_Subset DEF Sessions
<1>2. /\ Cardinality(Sessions(d)) \in Nat /\ Cardinality(Sessions(d)') \in Nat
      /\ Cardinality(Sessions(d)') <= Cardinality(Sessions(d))
  BY <1>1, FS_Subset, FS_CardinalityType
<1>3. /\ Len(idle[d]) \in Nat /\ Len(idle'[d]) \in Nat
      /\ cap[d] \in Nat /\ cap'[d] \in Nat
  BY DEF TypeOK
<1> QED BY <1>2, <1>3 DEF Fits

\* popIdle moves one session from the stack to its worker.
LEMMA PopIdleFits ==
    ASSUME TypeOK, TypeOK', NEW w \in Workers, PopIdle(w), NEW d \in Devices, Fits(d)
    PROVE  Fits(d)'
<1>1. PICK n \in DOMAIN idle[Dev(w)] :
         idle' = [idle EXCEPT ![Dev(w)] = SubSeq(idle[Dev(w)], 1, n - 1)]
  BY DEF PopIdle
<1>2. Dev(w) \in Devices /\ idle \in [Devices -> Seq(Entry)]
  BY DEF TypeOK, PopIdle, Dev, Job
<1>3. CASE d = Dev(w)
  <2>1. w \notin Sessions(d) /\ Sessions(d)' = Sessions(d) \cup {w}
    BY <1>3 DEF TypeOK, PopIdle, Sessions, Using, Goto, Dev, workerVars
  <2>2. /\ Cardinality(Sessions(d)) \in Nat
        /\ Cardinality(Sessions(d)') = Cardinality(Sessions(d)) + 1
    BY <2>1, CountWorkers DEF Sessions
  <2>3. Len(idle'[d]) = n - 1 /\ n \in 1..Len(idle[d])
    BY <1>1, <1>2, <1>3, SubSeqType
  <2>4. Len(idle[d]) \in Nat /\ cap[d] \in Nat /\ cap' = cap
    BY <1>2 DEF TypeOK, PopIdle
  <2> QED BY <2>2, <2>3, <2>4 DEF Fits
<1>4. CASE d # Dev(w)
  <2>1. Sessions(d)' \subseteq Sessions(d) /\ cap' = cap
    BY <1>4 DEF TypeOK, PopIdle, Sessions, Using, Goto, Dev
  <2>2. idle'[d] = idle[d]
    BY <1>1, <1>2, <1>4
  <2>3. cap[d] <= cap'[d] /\ Len(idle'[d]) <= Len(idle[d])
    BY <1>2, <2>1, <2>2 DEF TypeOK
  <2> QED BY <2>1, <2>3, FitsFrame
<1> QED BY <1>3, <1>4

\* A worker that found nothing idle may dial: the stack of its device is empty
\* and every session there is or will be belongs to the holder of a slot.
LEMMA PopNoneFits ==
    ASSUME TypeOK, TypeOK', SemAccounting', NEW w \in Workers, PopNone(w),
           NEW d \in Devices, Fits(d)
    PROVE  Fits(d)'
<1>1. idle' = [idle EXCEPT ![Dev(w)] = <<>>] /\ cap' = cap
      /\ idle \in [Devices -> Seq(Entry)]
  BY DEF PopNone, TypeOK
<1>2. CASE d = Dev(w)
  <2>1. Len(idle'[d]) = 0
    BY <1>1, <1>2
  <2>2. Sessions(d)' \subseteq SlotHolders(d)'
    BY DEF Sessions, SlotHolders, Using, Slotted
  <2>3. IsFiniteSet(SlotHolders(d)')
    BY PoolAssumption, FS_Subset DEF SlotHolders
  <2>4. /\ Cardinality(Sessions(d)') \in Nat /\ Cardinality(SlotHolders(d)') \in Nat
        /\ Cardinality(Sessions(d)') <= Cardinality(SlotHolders(d)')
    BY <2>2, <2>3, FS_Subset, FS_CardinalityType
  <2>5. Cardinality(SlotHolders(d)') <= cap'[d] /\ cap'[d] \in Nat
    BY DEF SemAccounting, TypeOK
  <2> QED BY <2>1, <2>4, <2>5 DEF Fits
<1>3. CASE d # Dev(w)
  <2>1. Sessions(d)' \subseteq Sessions(d)
    BY <1>3 DEF TypeOK, PopNone, Sessions, Using, Goto, Dev
  <2>2. cap[d] <= cap'[d] /\ Len(idle'[d]) <= Len(idle[d])
    BY <1>1, <1>3 DEF TypeOK
  <2> QED BY <2>1, <2>2, FitsFrame
<1> QED BY <1>2, <1>3

\* Put moves a session from its worker to the stack, or closes it.
LEMMA PutStoreFits ==
    ASSUME TypeOK, TypeOK', NEW w \in Workers, PutStore(w), NEW d \in Devices, Fits(d)
    PROVE  Fits(d)'
<1>1. /\ idle \in [Devices -> Seq(Entry)] /\ Dev(w) \in Devices
      /\ cap' = cap /\ cap[d] \in Nat
      /\ \/ idle' = idle
         \/ idle' = [idle EXCEPT ![Dev(w)] =
                        Append(idle[Dev(w)], [conn |-> held[w], age |-> 0])]
  BY DEF TypeOK, PutStore, Dev, Job
<1>2. CASE d = Dev(w)
  <2>1. w \in Sessions(d) /\ Sessions(d)' = Sessions(d) \ {w}
    BY <1>2 DEF TypeOK, PutStore, Sessions, Using, Goto, Dev
  <2>2. /\ Cardinality(Sessions(d)) \in Nat
        /\ Cardinality(Sessions(d)') = Cardinality(Sessions(d)) - 1
    BY <2>1, CountWorkers DEF Sessions
  <2>3. Len(idle'[d]) <= Len(idle[d]) + 1 /\ Len(idle[d]) \in Nat
        /\ Len(idle'[d]) \in Nat
    BY <1>1, <1>2
  <2> QED BY <1>1, <2>2, <2>3 DEF Fits
<1>3. CASE d # Dev(w)
  <2>1. Sessions(d)' \subseteq Sessions(d)
    BY <1>3 DEF TypeOK, PutStore, Sessions, Using, Goto, Dev
  <2>2. cap[d] <= cap'[d] /\ Len(idle'[d]) <= Len(idle[d])
    BY <1>1, <1>3 DEF TypeOK
  <2> QED BY <2>1, <2>2, FitsFrame
<1> QED BY <1>2, <1>3

\* A step keeps the bound of every device.
LEMMA BoundStep ==
    TypeOK /\ TypeOK' /\ SemAccounting' /\ SessionBound /\ [Next]_vars => SessionBound'
<1> SUFFICES ASSUME TypeOK, TypeOK', SemAccounting', SessionBound, [Next]_vars,
                    NEW d \in Devices
             PROVE  Fits(d)'
  BY DEF SessionBound, Fits
<1>0. Fits(d)
  BY DEF SessionBound, Fits
<1>f. ASSUME cap[d] <= cap'[d], Len(idle'[d]) <= Len(idle[d]),
             Sessions(d)' \subseteq Sessions(d)
      PROVE  Fits(d)'
  BY <1>0, <1>f, FitsFrame
<1>t. cap[d] \in Nat /\ Len(idle[d]) \in Nat
  BY DEF TypeOK
<1> USE DEF Goto, Finish, workerVars, poolVars, envVars, closeVars
<1>1. ASSUME NEW w \in Workers, Get(w) PROVE Fits(d)'
  <2>1. CASE PopIdle(w) \/ PopNone(w)
    BY <1>0, <2>1, PopIdleFits, PopNoneFits
  <2>2. CASE Create(w)
    <3>1. cap[d] <= cap'[d] /\ idle' = idle
      BY <2>2 DEF Create, TypeOK
    <3>2. Sessions(d)' \subseteq Sessions(d)
      BY <2>2 DEF Create, Sessions, Using, Dev, TypeOK
    <3> QED BY <1>f, <1>t, <3>1, <3>2
  <2>3. CASE ~PopIdle(w) /\ ~PopNone(w) /\ ~Create(w)
    <3>1. idle' = idle /\ cap' = cap
      BY <1>1, <2>3 DEF Get, Lookup, CheckClosed, Acquire, AbortAcquire, Dial, DialFail
    <3>2. Sessions(d)' \subseteq Sessions(d)
      <4>1. ASSUME NEW e \in Devices, Lookup(w, e) PROVE Sessions(d)' \subseteq Sessions(d)
        BY <4>1 DEF Lookup, Sessions, Using, Dev, TypeOK
      <4>2. CASE CheckClosed(w) \/ AbortAcquire(w)
        BY <4>2 DEF CheckClosed, AbortAcquire, Sessions, Using, Dev, TypeOK
      <4>3. CASE Acquire(w) \/ Dial(w) \/ DialFail(w)
        BY <4>3 DEF Acquire, Dial, DialFail, Sessions, Using, Dev, TypeOK
      <4> QED BY <1>1, <2>3, <4>1, <4>2, <4>3 DEF Get
    <3> QED BY <1>f, <1>t, <3>1, <3>2
  <2> QED BY <2>1, <2>2, <2>3
<1>2. ASSUME NEW w \in Workers, Return(w) PROVE Fits(d)'
  <2>1. CASE PutStore(w)
    BY <1>0, <2>1, PutStoreFits
  <2>2. CASE ~PutStore(w)
    <3>1. idle' = idle /\ cap' = cap
      BY <1>2, <2>2 DEF Return, PollDone, PutLookup, DiscardClose, DiscardLookup, Release
    <3>2. Sessions(d)' \subseteq Sessions(d)
      BY <1>2, <2>2 DEF Return, PollDone, PutLookup, DiscardClose, DiscardLookup,
                        Release, Sessions, Using, Dev, TypeOK
    <3> QED BY <1>f, <1>t, <3>1, <3>2
  <2> QED BY <2>1, <2>2
<1>3. ASSUME NEW k \in Closers, Close(k) PROVE Fits(d)'
  <2>1. UNCHANGED <<cap, pc, job>>
    BY <1>3 DEF Close, CloseCheck, CloseSignal, CloseLock, CloseDrain, CloseUnlock
  <2>2. idle' = idle \/ \E e \in Devices : idle' = [idle EXCEPT ![e] = <<>>]
    BY <1>3 DEF Close, CloseCheck, CloseSignal, CloseLock, CloseDrain, CloseUnlock, TypeOK
  <2>3. idle'[d] = idle[d] \/ idle'[d] = <<>>
    BY <2>2 DEF TypeOK
  <2>4. Len(idle'[d]) <= Len(idle[d])
    BY <1>t, <2>3
  <2>5. Sessions(d)' \subseteq Sessions(d)
    BY <2>1 DEF Sessions, Dev
  <2> QED BY <1>f, <1>t, <2>1, <2>4, <2>5
<1>4. CASE \/ \E e \in Devices, c \in Configs : Reload(e, c)
           \/ Cancel \/ Tick \/ UNCHANGED vars
  <2>1. UNCHANGED <<cap, pc, job>>
    BY <1>4 DEF Reload, Cancel, Tick, vars
  <2>2. idle'[d] = idle[d] \/ idle'[d] = [i \in DOMAIN idle[d] |-> Older(idle[d][i])]
    BY <1>4 DEF Reload, Cancel, Tick, vars
  <2>3. Len(idle'[d]) <= Len(idle[d])
    <3>1. idle[d] \in Seq(Entry) /\ DOMAIN idle[d] = 1..Len(idle[d])
      BY DEF TypeOK
    <3>2. idle'[d] = idle[d] \/ idle'[d] = [i \in 1..Len(idle[d]) |-> Older(idle[d][i])]
      BY <2>2, <3>1
    <3>3. Len([i \in 1..Len(idle[d]) |-> Older(idle[d][i])]) = Len(idle[d])
      BY <1>t
    <3> QED BY <1>t, <3>2, <3>3
  <2>4. Sessions(d)' \subseteq Sessions(d)
    BY <2>1 DEF Sessions, Dev
  <2> QED BY <1>f, <1>t, <2>1, <2>3, <2>4
<1> QED BY <1>1, <1>2, <1>3, <1>4 DEF Next

\* Before the first job there is no session.
LEMMA BoundInit == Init => SessionBound
<1> SUFFICES ASSUME Init, NEW d \in Devices PROVE Fits(d)
  BY DEF SessionBound, Fits
<1>1. Sessions(d) = {}
  BY DEF Init, Sessions, Using
<1> QED BY <1>1, FS_EmptySet DEF Init, Fits

\* A device never sees more sessions, idle, in use or being dialled, than the
\* capacity its semaphore was created with.
THEOREM BoundCorrect == Spec => []SessionBound
BY InitType, TypeStep, SemInit, SemStep, BoundInit, BoundStep, PTL DEF Spec

-----------------------------------------------------------------------------
(***************************************************************************)
(* Who owns a session: ExclusiveUse and NoLeak.                            *)
(*                                                                         *)
(* Neither is inductive alone.  That a dialled session is new to the pool  *)
(* needs NoLeak (what is not open is nowhere), and that closing a session  *)
(* leaves no reference to it needs ExclusiveUse (it was in one place only).*)
(* Their conjunction is proved in the form Own, in which the idle stacks   *)
(* appear only through At: each action is first shown to move sessions     *)
(* between places in a certain way, and then that such a move keeps Own.   *)
(***************************************************************************)

\* Session c is at position n of the idle stack of d.
At(c, d, n) == n \in DOMAIN idle[d] /\ idle[d][n].conn = c

Held(c) == \E w \in Workers : held[w] = c
Idle(c) == \E d \in Devices, n \in Nat : At(c, d, n)

\* A session is in one place at most, and in one exactly if it is open.
OnePlace ==
    /\ \A v, w \in Workers : v # w /\ held[v] = held[w] => held[v] = NoConn
    /\ \A c \in Conns : ~(Held(c) /\ Idle(c))
    /\ \A c \in Conns, d, e \in Devices, m, n \in Nat :
          At(c, d, m) /\ At(c, e, n) => d = e /\ m = n
OpenPlaced == \A c \in Conns : dialled[c] # NoJob <=> Held(c) \/ Idle(c)
Own == OnePlace /\ OpenPlaced

\* What stands on a stack is a session, at a natural position.
LEMMA AtType ==
    ASSUME TypeOK, NEW d \in Devices, NEW n \in DOMAIN idle[d]
    PROVE  n \in Nat /\ idle[d][n] \in Entry /\ idle[d][n].conn \in Conns
<1>1. idle[d] \in Seq(Entry)
  BY DEF TypeOK
<1>2. n \in Nat /\ idle[d][n] \in Entry
  BY <1>1
<1> QED BY <1>2 DEF Entry

\* Own is ExclusiveUse and NoLeak together.
LEMMA OwnGives == TypeOK /\ Own => ExclusiveUse /\ NoLeak
<1> SUFFICES ASSUME TypeOK, Own PROVE ExclusiveUse /\ NoLeak
  OBVIOUS
<1>1. \A w \in Workers, d \in Devices : held[w] \notin IdleConns(d)
  <2> SUFFICES ASSUME NEW w \in Workers, NEW d \in Devices,
                      NEW n \in DOMAIN idle[d], held[w] = idle[d][n].conn
               PROVE  FALSE
    BY DEF IdleConns
  <2>1. n \in Nat /\ held[w] \in Conns
    BY AtType
  <2>2. Held(held[w]) /\ Idle(held[w])
    BY <2>1 DEF Held, Idle, At
  <2> QED BY <2>1, <2>2 DEF Own, OnePlace
<1>2. \A d, e \in Devices : \A i \in DOMAIN idle[d], j \in DOMAIN idle[e] :
         idle[d][i].conn = idle[e][j].conn => d = e /\ i = j
  BY AtType DEF Own, OnePlace, At
<1>3. ExclusiveUse
  BY <1>1, <1>2 DEF Own, OnePlace, ExclusiveUse
<1>4. ASSUME NEW c \in Conns
      PROVE  Held(c) <=> c \in {held[w] : w \in {v \in Workers : pc[v] \in Using}}
  BY PoolAssumption DEF Held, TypeOK
<1>5. ASSUME NEW c \in Conns
      PROVE  Idle(c) <=> c \in UNION {IdleConns(d) : d \in Devices}
  BY AtType DEF Idle, At, IdleConns
<1>6. {held[w] : w \in {v \in Workers : pc[v] \in Using}} \subseteq Conns
  BY DEF TypeOK
<1>7. UNION {IdleConns(d) : d \in Devices} \subseteq Conns
  BY AtType DEF IdleConns
<1>8. NoLeak
  BY <1>4, <1>5, <1>6, <1>7 DEF Own, OpenPlaced, NoLeak, Open
<1> QED BY <1>3, <1>8

\* The pool starts without sessions.
LEMMA OwnInit == Init => Own
<1> SUFFICES ASSUME Init PROVE Own
  OBVIOUS
<1>1. \A c \in Conns : ~Held(c)
  BY PoolAssumption DEF Init, Held
<1>2. \A c, d, n : d \in Devices => ~At(c, d, n)
  BY DEF Init, At
<1>3. \A c \in Conns : ~Idle(c)
  BY <1>2 DEF Idle
<1> QED BY <1>1, <1>2, <1>3 DEF Init, Own, OnePlace, OpenPlaced
-----------------------------------------------------------------------------
(* Moves that keep Own *)

\* Nothing moves.
LEMMA StayOwn ==
    ASSUME Own, held' = held, dialled' = dialled,
           \A c \in Conns, d \in Devices, n \in Nat : At(c, d, n)' <=> At(c, d, n)
    PROVE  Own'
BY DEF Own, OnePlace, OpenPlaced, Held, Idle

\* The sessions of the set S leave the idle stacks and are closed.
LEMMA DropOwn ==
    ASSUME TypeOK, Own, held' = held, NEW S \in SUBSET Conns, Shut(S),
           \A c \in Conns, d \in Devices, n \in Nat :
              At(c, d, n)' <=> At(c, d, n) /\ c \notin S,
           \A c \in S : Idle(c)
    PROVE  Own'
<1>1. \A c \in Conns : Held(c)' <=> Held(c)
  BY DEF Held
<1>2. \A c \in Conns : Idle(c)' <=> Idle(c) /\ c \notin S
  BY DEF Idle
<1>3. \A c \in Conns : dialled'[c] # NoJob <=> dialled[c] # NoJob /\ c \notin S
  BY DEF Shut
<1>4. OpenPlaced'
  BY <1>1, <1>2, <1>3 DEF Own, OnePlace, OpenPlaced
<1>5. OnePlace'
  BY <1>1, <1>2 DEF Own, OnePlace
<1> QED BY <1>4, <1>5 DEF Own

\* A worker without a session takes one that is idle or new.
LEMMA TakeOwn ==
    ASSUME TypeOK, Own, NEW w \in Workers, NEW s \in Conns,
           held[w] = NoConn, ~Held(s),
           held' = [held EXCEPT ![w] = s],
           \A c \in Conns, d \in Devices, n \in Nat :
              At(c, d, n)' <=> At(c, d, n) /\ c # s,
           \A c \in Conns : dialled'[c] # NoJob <=> dialled[c] # NoJob \/ c = s
    PROVE  Own'
<1>1. \A c \in Conns : Held(c)' <=> Held(c) \/ c = s
  BY PoolAssumption DEF Held, TypeOK
<1>2. \A c \in Conns : Idle(c)' <=> Idle(c) /\ c # s
  BY DEF Idle
<1>3. OpenPlaced'
  BY <1>1, <1>2 DEF Own, OpenPlaced
<1>4. \A u, v \in Workers : u # v /\ held'[u] = held'[v] => held'[u] = NoConn
  BY DEF Own, OnePlace, Held, TypeOK
<1>5. OnePlace'
  BY <1>1, <1>2, <1>4 DEF Own, OnePlace
<1> QED BY <1>3, <1>5 DEF Own

\* A worker closes its session.
LEMMA CloseOwn ==
    ASSUME TypeOK, Own, NEW w \in Workers, held[w] \in Conns,
           held' = [held EXCEPT ![w] = NoConn], Shut({held[w]}),
           \A c \in Conns, d \in Devices, n \in Nat : At(c, d, n)' <=> At(c, d, n)
    PROVE  Own'
<1>1. \A c \in Conns : Held(c)' <=> Held(c) /\ c # held[w]
  BY PoolAssumption DEF Held, TypeOK, Own, OnePlace
<1>2. \A c \in Conns : Idle(c)' <=> Idle(c)
  BY DEF Idle
<1>3. \A c \in Conns : dialled'[c] # NoJob <=> dialled[c] # NoJob /\ c # held[w]
  BY DEF Shut
<1>4. Held(held[w]) /\ ~Idle(held[w])
  BY DEF Held, Own, OnePlace
<1>5. OpenPlaced'
  BY <1>1, <1>2, <1>3, <1>4 DEF Own, OpenPlaced
<1>6. \A u, v \in Workers : u # v /\ held'[u] = held'[v] => held'[u] = NoConn
  BY DEF Own, OnePlace, TypeOK
<1>7. OnePlace'
  BY <1>1, <1>2, <1>6 DEF Own, OnePlace
<1> QED BY <1>5, <1>7 DEF Own

\* Session s comes to position k of the stack of e; nothing else moves.
Arrives(s, e, k) ==
    \A c \in Conns, d \in Devices, n \in Nat :
       At(c, d, n)' <=> At(c, d, n) \/ (c = s /\ d = e /\ n = k)

\* A worker puts its session on a stack, at a position of its own.
LEMMA StoreOwn ==
    ASSUME TypeOK, Own, NEW w \in Workers, held[w] \in Conns,
           held' = [held EXCEPT ![w] = NoConn], dialled' = dialled,
           NEW e \in Devices, NEW k \in Nat, Arrives(held[w], e, k)
    PROVE  Own'
<1>1. \A c \in Conns : Held(c)' <=> Held(c) /\ c # held[w]
  BY PoolAssumption DEF Held, TypeOK, Own, OnePlace
<1>2. \A c \in Conns : Idle(c)' <=> Idle(c) \/ c = held[w]
  BY DEF Idle, Arrives
<1>3. Held(held[w]) /\ ~Idle(held[w])
  BY DEF Held, Own, OnePlace
<1>4. OpenPlaced'
  BY <1>1, <1>2, <1>3 DEF Own, OpenPlaced
<1>5. \A u, v \in Workers : u # v /\ held'[u] = held'[v] => held'[u] = NoConn
  BY DEF Own, OnePlace, TypeOK
<1>6. \A c \in Conns, d, f \in Devices, m, n \in Nat :
         At(c, d, m)' /\ At(c, f, n)' => d = f /\ m = n
  BY <1>3 DEF Own, OnePlace, Idle, Arrives
<1>7. OnePlace'
  BY <1>1, <1>2, <1>5, <1>6 DEF Own, OnePlace
<1> QED BY <1>4, <1>7 DEF Own

\* A worker without a session takes s from the stacks, while those of S leave
\* them and are closed.
LEMMA TakeDropOwn ==
    ASSUME TypeOK, Own, NEW w \in Workers, NEW s \in Conns, NEW S \in SUBSET Conns,
           held[w] = NoConn, Idle(s), s \notin S, \A c \in S : Idle(c), Shut(S),
           held' = [held EXCEPT ![w] = s],
           \A c \in Conns, d \in Devices, n \in Nat :
              At(c, d, n)' <=> At(c, d, n) /\ c # s /\ c \notin S
    PROVE  Own'
<1>1. \A c \in Conns : Held(c)' <=> Held(c) \/ c = s
  BY PoolAssumption DEF Held, TypeOK
<1>2. \A c \in Conns : Idle(c)' <=> Idle(c) /\ c # s /\ c \notin S
  BY DEF Idle
<1>3. \A c \in Conns : dialled'[c] # NoJob <=> dialled[c] # NoJob /\ c \notin S
  BY DEF Shut
<1>4. ~Held(s) /\ \A c \in S : ~Held(c)
  BY DEF Own, OnePlace
<1>5. OpenPlaced'
  BY <1>1, <1>2, <1>3, <1>4 DEF Own, OpenPlaced
<1>6. \A u, v \in Workers : u # v /\ held'[u] = held'[v] => held'[u] = NoConn
  BY <1>4 DEF Own, OnePlace, Held, TypeOK
<1>7. OnePlace'
  BY <1>1, <1>2, <1>6 DEF Own, OnePlace
<1> QED BY <1>5, <1>7 DEF Own
-----------------------------------------------------------------------------
(* What each action moves *)

\* The sessions above position k of the stack of e.
Above(e, k) == {idle[e][i].conn : i \in (k + 1)..Len(idle[e])}

\* Cutting the stack of e down to its first k entries removes from the stacks
\* exactly the sessions that were above k.
LEMMA CutMoves ==
    ASSUME TypeOK, Own, NEW e \in Devices, NEW k \in Nat, k <= Len(idle[e]),
           DOMAIN idle'[e] = 1..k, \A i \in 1..k : idle'[e][i] = idle[e][i],
           \A d \in Devices : d # e => idle'[d] = idle[d]
    PROVE  /\ Above(e, k) \subseteq Conns
           /\ \A c \in Above(e, k) : Idle(c)
           /\ \A c \in Conns, d \in Devices, n \in Nat :
                 At(c, d, n)' <=> At(c, d, n) /\ c \notin Above(e, k)
<1>1. idle[e] \in Seq(Entry) /\ Len(idle[e]) \in Nat /\ DOMAIN idle[e] = 1..Len(idle[e])
  BY DEF TypeOK
<1>2. ASSUME NEW i \in (k + 1)..Len(idle[e])
      PROVE  i \in Nat /\ i \in DOMAIN idle[e] /\ At(idle[e][i].conn, e, i)
  BY <1>1 DEF At
<1>3. ASSUME NEW i \in (k + 1)..Len(idle[e])
      PROVE  idle[e][i].conn \in Conns /\ Idle(idle[e][i].conn)
  BY <1>2, AtType DEF Idle
<1>4. Above(e, k) \subseteq Conns /\ \A c \in Above(e, k) : Idle(c)
  BY <1>3 DEF Above
<1>5. ASSUME NEW c \in Conns, NEW d \in Devices, NEW n \in Nat
      PROVE  At(c, d, n)' <=> At(c, d, n) /\ c \notin Above(e, k)
  <2>1. CASE d # e
    <3>1. At(c, d, n)' <=> At(c, d, n)
      BY <2>1 DEF At
    <3>2. At(c, d, n) => c \notin Above(e, k)
      BY <1>2, <2>1 DEF Above, Own, OnePlace
    <3> QED BY <3>1, <3>2
  <2>2. CASE d = e
    <3>1. At(c, e, n)' <=> n \in 1..k /\ At(c, e, n)
      BY <1>1 DEF At
    <3>2. ASSUME At(c, e, n) PROVE n \in 1..k <=> c \notin Above(e, k)
      <4>1. n \in 1..Len(idle[e]) /\ idle[e][n].conn = c
        BY <1>1, <3>2 DEF At
      <4>2. n \notin 1..k => c \in Above(e, k)
        BY <1>1, <4>1 DEF Above
      <4>3. ASSUME c \in Above(e, k) PROVE n \notin 1..k
        <5>1. PICK i \in (k + 1)..Len(idle[e]) : c = idle[e][i].conn
          BY <4>3 DEF Above
        <5>2. i \in Nat /\ At(c, e, i)
          BY <1>2, <5>1
        <5>3. i = n
          BY <3>2, <5>2 DEF Own, OnePlace
        <5> QED BY <5>1, <5>3
      <4> QED BY <4>2, <4>3
    <3> QED BY <2>2, <3>1, <3>2
  <2> QED BY <2>1, <2>2
<1> QED BY <1>4, <1>5

\* Emptying a stack and closing what was on it.
LEMMA EmptyOwn ==
    ASSUME TypeOK, Own, held' = held, NEW e \in Devices, Shut(IdleConns(e)),
           idle' = [idle EXCEPT ![e] = <<>>]
    PROVE  Own'
<1>1. /\ idle \in [Devices -> Seq(Entry)] /\ Len(idle[e]) \in Nat
      /\ DOMAIN idle[e] = 1..Len(idle[e])
  BY DEF TypeOK
<1>2. IdleConns(e) = Above(e, 0)
  BY <1>1 DEF IdleConns, Above
<1>3. /\ DOMAIN idle'[e] = 1..0 /\ \A i \in 1..0 : idle'[e][i] = idle[e][i]
      /\ \A d \in Devices : d # e => idle'[d] = idle[d]
  BY <1>1
<1>4. /\ Above(e, 0) \subseteq Conns /\ \A c \in Above(e, 0) : Idle(c)
      /\ \A c \in Conns, d \in Devices, n \in Nat :
            At(c, d, n)' <=> At(c, d, n) /\ c \notin Above(e, 0)
  BY <1>1, <1>3, CutMoves
<1> QED BY <1>2, <1>4, DropOwn

\* popIdle moves one session to its worker and closes those above it.
LEMMA PopIdleOwn ==
    ASSUME TypeOK, Own, NEW w \in Workers, PopIdle(w)
    PROVE  Own'
<1>0. Dev(w) \in Devices /\ held[w] = NoConn
  BY DEF TypeOK, PopIdle, Dev, Job, Using
<1>e. PICK e \in Devices : e = Dev(w)
  BY <1>0
<1>1. /\ idle \in [Devices -> Seq(Entry)] /\ idle[e] \in Seq(Entry)
      /\ Len(idle[e]) \in Nat /\ DOMAIN idle[e] = 1..Len(idle[e])
  BY DEF TypeOK
<1>2. PICK n \in DOMAIN idle[e] :
         /\ held' = [held EXCEPT ![w] = idle[e][n].conn]
         /\ idle' = [idle EXCEPT ![e] = SubSeq(idle[e], 1, n - 1)]
         /\ Shut(Above(e, n))
  <2>1. \E n \in DOMAIN idle[Dev(w)] :
           /\ held' = [held EXCEPT ![w] = idle[Dev(w)][n].conn]
           /\ idle' = [idle EXCEPT ![Dev(w)] = SubSeq(idle[Dev(w)], 1, n - 1)]
           /\ Shut(Above(Dev(w), n))
    BY DEF PopIdle, Above
  <2> QED BY <1>e, <2>1
<1>3. n \in Nat /\ n - 1 \in Nat /\ n - 1 <= Len(idle[e]) /\ n <= Len(idle[e])
  BY <1>1
<1>4. /\ DOMAIN idle'[e] = 1..(n - 1) /\ \A i \in 1..(n - 1) : idle'[e][i] = idle[e][i]
      /\ \A d \in Devices : d # e => idle'[d] = idle[d]
  BY <1>1, <1>2, SubSeqType
<1>5. /\ Above(e, n - 1) \subseteq Conns /\ \A c \in Above(e, n - 1) : Idle(c)
      /\ \A c \in Conns, d \in Devices, m \in Nat :
            At(c, d, m)' <=> At(c, d, m) /\ c \notin Above(e, n - 1)
  BY <1>1, <1>3, <1>4, CutMoves
<1>6. Above(e, n - 1) = Above(e, n) \cup {idle[e][n].conn}
  <2>1. ((n - 1) + 1)..Len(idle[e]) = ((n + 1)..Len(idle[e])) \cup {n}
    BY <1>1, <1>3
  <2> QED BY <2>1 DEF Above
<1>7. idle[e][n].conn \notin Above(e, n)
  <2> SUFFICES ASSUME NEW i \in (n + 1)..Len(idle[e]), idle[e][i].conn = idle[e][n].conn
               PROVE  FALSE
    BY DEF Above
  <2>1. i \in Nat /\ i # n /\ At(idle[e][n].conn, e, i) /\ At(idle[e][n].conn, e, n)
    BY <1>1, <1>3 DEF At
  <2>2. idle[e][n].conn \in Conns
    BY <1>5, <1>6
  <2> QED BY <1>1, <1>3, <2>1, <2>2 DEF Own, OnePlace
<1>8. /\ idle[e][n].conn \in Conns /\ Above(e, n) \in SUBSET Conns
      /\ Idle(idle[e][n].conn) /\ \A c \in Above(e, n) : Idle(c)
  BY <1>5, <1>6
<1>9. \A c \in Conns, d \in Devices, m \in Nat :
         At(c, d, m)' <=> At(c, d, m) /\ c # idle[e][n].conn /\ c \notin Above(e, n)
  BY <1>5, <1>6
<1> QED BY <1>0, <1>1, <1>2, <1>7, <1>8, <1>9, TakeDropOwn

\* A dialled session was closed until then, so it was nowhere.
LEMMA DialOwn ==
    ASSUME TypeOK, Own, NEW w \in Workers, Dial(w)
    PROVE  Own'
<1>1. PICK s \in Conns \ Open : /\ dialled' = [dialled EXCEPT ![s] = job[w]]
                               /\ held' = [held EXCEPT ![w] = s]
  BY DEF Dial
<1>2. idle' = idle /\ held[w] = NoConn /\ job[w] # NoJob
  BY DEF Dial, TypeOK, Using
<1>3. ~Held(s) /\ ~Idle(s)
  BY <1>1 DEF Own, OpenPlaced, Open
<1>4. \A c \in Conns, d \in Devices, n \in Nat : At(c, d, n)' <=> At(c, d, n) /\ c # s
  BY <1>2, <1>3 DEF At, Idle
<1>5. \A c \in Conns : dialled'[c] # NoJob <=> dialled[c] # NoJob \/ c = s
  BY <1>1, <1>2 DEF TypeOK
<1> QED BY <1>1, <1>2, <1>3, <1>4, <1>5, TakeOwn

\* Put pushes the session of its worker or closes it.
LEMMA PutStoreOwn ==
    ASSUME TypeOK, Own, NEW w \in Workers, PutStore(w)
    PROVE  Own'
<1>0. Dev(w) \in Devices /\ held[w] \in Conns
  BY DEF TypeOK, PutStore, Dev, Job, Using
<1>e. PICK e \in Devices : e = Dev(w)
  BY <1>0
<1>1. /\ idle \in [Devices -> Seq(Entry)] /\ idle[e] \in Seq(Entry)
      /\ Len(idle[e]) \in Nat /\ DOMAIN idle[e] = 1..Len(idle[e])
  BY DEF TypeOK
<1>2. held' = [held EXCEPT ![w] = NoConn]
  BY DEF PutStore
<1>3. CASE Shut({held[w]}) /\ idle' = idle
  <2>1. \A c \in Conns, d \in Devices, n \in Nat : At(c, d, n)' <=> At(c, d, n)
    BY <1>3 DEF At
  <2> QED BY <1>0, <1>2, <1>3, <2>1, CloseOwn
<1>4. CASE /\ idle' = [idle EXCEPT ![e] = Append(idle[e], [conn |-> held[w], age |-> 0])]
           /\ dialled' = dialled
  <2>1. PICK k \in Nat : k = Len(idle[e]) + 1
    BY <1>1
  <2>2. /\ idle'[e] = Append(idle[e], [conn |-> held[w], age |-> 0])
        /\ \A d \in Devices : d # e => idle'[d] = idle[d]
    BY <1>1, <1>4
  <2>3. /\ DOMAIN idle'[e] = 1..k /\ \A i \in 1..Len(idle[e]) : idle'[e][i] = idle[e][i]
        /\ idle'[e][k] = [conn |-> held[w], age |-> 0]
    BY <1>1, <2>1, <2>2
  <2>4. ASSUME NEW c \in Conns, NEW n \in Nat
        PROVE  At(c, e, n)' <=> At(c, e, n) \/ (c = held[w] /\ n = k)
    <3>1. CASE n = k
      BY <1>1, <2>1, <2>3, <3>1 DEF At
    <3>2. CASE n # k
      <4>1. n \in 1..k <=> n \in 1..Len(idle[e])
        BY <1>1, <2>1, <3>2
      <4> QED BY <1>1, <2>3, <3>2, <4>1 DEF At
    <3> QED BY <3>1, <3>2
  <2>5. Arrives(held[w], e, k)
    <3> SUFFICES ASSUME NEW c \in Conns, NEW d \in Devices, NEW n \in Nat
                 PROVE  At(c, d, n)' <=> At(c, d, n) \/ (c = held[w] /\ d = e /\ n = k)
      BY DEF Arrives
    <3>1. CASE d = e
      BY <2>4, <3>1
    <3>2. CASE d # e
      BY <2>2, <3>2 DEF At
    <3> QED BY <3>1, <3>2
  <2>6. dialled' = dialled
    BY <1>4
  <2> QED BY <1>0, <1>2, <2>5, <2>6, StoreOwn
<1> QED BY <1>e, <1>3, <1>4 DEF PutStore

\* Time moves no session.
LEMMA TickOwn == ASSUME TypeOK, Own, Tick PROVE Own'
<1>1. \A d \in Devices : idle'[d] = [i \in DOMAIN idle[d] |-> Older(idle[d][i])]
  BY DEF Tick
<1>2. ASSUME NEW d \in Devices, NEW n \in DOMAIN idle[d]
      PROVE  idle'[d][n].conn = idle[d][n].conn
  <2>1. idle[d][n] \in Entry
    BY <1>2, AtType
  <2>2. idle'[d][n] = Older(idle[d][n])
    BY <1>1, <1>2
  <2>3. Older(idle[d][n]).conn = idle[d][n].conn
    BY <2>1, OlderType
  <2> QED BY <2>2, <2>3
<1>3. \A c \in Conns, d \in Devices, n \in Nat : At(c, d, n)' <=> At(c, d, n)
  BY <1>1, <1>2 DEF At
<1> QED BY <1>3, StayOwn DEF Tick, workerVars

\* A step keeps every session in its one place.
LEMMA OwnStep == TypeOK /\ Own /\ [Next]_vars => Own'
<1> SUFFICES ASSUME TypeOK, Own, [Next]_vars PROVE Own'
  OBVIOUS
<1>f. ASSUME held' = held, dialled' = dialled, idle' = idle PROVE Own'
  <2>1. \A c \in Conns, d \in Devices, n \in Nat : At(c, d, n)' <=> At(c, d, n)
    BY <1>f DEF At
  <2> QED BY <1>f, <2>1, StayOwn
<1> USE DEF workerVars, poolVars
<1>1. ASSUME NEW w \in Workers, Get(w) PROVE Own'
  <2>1. CASE PopIdle(w) \/ Dial(w)
    BY <2>1, PopIdleOwn, DialOwn
  <2>2. CASE PopNone(w)
    <3>1. Dev(w) \in Devices
      BY <2>2 DEF PopNone, TypeOK, Dev, Job
    <3> QED BY <2>2, <3>1, EmptyOwn DEF PopNone
  <2>3. CASE ~PopIdle(w) /\ ~Dial(w) /\ ~PopNone(w)
    BY <1>1, <1>f, <2>3 DEF Get, Lookup, Create, CheckClosed, Acquire, AbortAcquire, DialFail
  <2> QED BY <2>1, <2>2, <2>3
<1>2. ASSUME NEW w \in Workers, Return(w) PROVE Own'
  <2>1. CASE PutStore(w)
    BY <2>1, PutStoreOwn
  <2>2. CASE DiscardClose(w)
    <3>1. held[w] \in Conns
      BY <2>2 DEF DiscardClose, TypeOK, Using
    <3>2. \A c \in Conns, d \in Devices, n \in Nat : At(c, d, n)' <=> At(c, d, n)
      BY <2>2 DEF At, DiscardClose
    <3> QED BY <2>2, <3>1, <3>2, CloseOwn DEF DiscardClose
  <2>3. CASE ~PutStore(w) /\ ~DiscardClose(w)
    BY <1>2, <1>f, <2>3 DEF Return, PollDone, PutLookup, DiscardLookup, Release
  <2> QED BY <2>1, <2>2, <2>3
<1>3. ASSUME NEW k \in Closers, Close(k) PROVE Own'
  <2>1. CASE CloseDrain(k)
    <3>1. PICK d \in todrain : Shut(IdleConns(d)) /\ idle' = [idle EXCEPT ![d] = <<>>]
      BY <2>1 DEF CloseDrain
    <3>2. d \in Devices /\ held' = held
      BY <2>1 DEF CloseDrain, TypeOK
    <3> QED BY <3>1, <3>2, EmptyOwn
  <2>2. CASE ~CloseDrain(k)
    BY <1>3, <1>f, <2>2 DEF Close, CloseCheck, CloseSignal, CloseLock, CloseUnlock
  <2> QED BY <2>1, <2>2
<1>4. CASE Tick
  BY <1>4, TickOwn
<1>5. CASE \/ \E d \in Devices, c \in Configs : Reload(d, c)
           \/ Cancel \/ UNCHANGED vars
  BY <1>5, <1>f DEF Reload, Cancel, vars
<1> QED BY <1>1, <1>2, <1>3, <1>4, <1>5 DEF Next

\* Get never hands one session to two goroutines: a session is held by one
\* worker or stands once on one idle stack, whatever the workers, the devices,
\* the limits, the expiry and the calls of Close.
THEOREM ExclusiveCorrect == Spec => []ExclusiveUse
<1>1. TypeOK /\ Own => ExclusiveUse
  BY OwnGives
<1> QED BY <1>1, InitType, TypeStep, OwnInit, OwnStep, PTL DEF Spec

\* The sockets that are open are exactly those of the sessions held or idle:
\* popIdle, Put, Discard and Close neither leak one nor close one in use.
THEOREM NoLeakCorrect == Spec => []NoLeak
<1>1. TypeOK /\ Own => NoLeak
  BY OwnGives
<1> QED BY <1>1, InitType, TypeStep, OwnInit, OwnStep, PTL DEF Spec

-----------------------------------------------------------------------------
(***************************************************************************)
(* What callers of the pool may rely on: the session they get was dialled  *)
(* for their device, the idle stack is bounded and ordered by age, and the *)
(* pool as a whole is a lease manager (SessionLease).                      *)
(*                                                                         *)
(* These rest on Own: a session is in one place.  DeviceIsolation also     *)
(* uses it after the step, where it says that whatever is held or idle was *)
(* not closed, so that it is still dialled for the job it was.             *)
(***************************************************************************)

(* The device a session belongs to *)

\* DeviceIsolation, with the idle stacks seen through At.
Isolated ==
    /\ \A w \in Workers : held[w] # NoConn => dialled[held[w]].dev = job[w].dev
    /\ \A c \in Conns, d \in Devices, n \in Nat : At(c, d, n) => dialled[c].dev = d

\* The inductive form of the isolation of devices implies the stated one.
LEMMA IsolatedGives == TypeOK /\ Isolated => DeviceIsolation
<1> SUFFICES ASSUME TypeOK, Isolated PROVE DeviceIsolation
  OBVIOUS
<1>1. \A w \in Workers : pc[w] \in Using => dialled[held[w]].dev = Dev(w)
  BY DEF TypeOK, Isolated, Dev
<1>2. ASSUME NEW d \in Devices, NEW c \in IdleConns(d) PROVE dialled[c].dev = d
  <2>1. PICK n \in DOMAIN idle[d] : idle[d][n].conn = c
    BY DEF IdleConns
  <2>2. n \in Nat /\ c \in Conns /\ At(c, d, n)
    BY <2>1, AtType DEF At
  <2> QED BY <2>2 DEF Isolated
<1> QED BY <1>1, <1>2 DEF DeviceIsolation

\* Sessions that are open after the step were dialled for the same job before.
Kept == \A c \in Conns : dialled'[c] # NoJob => dialled'[c] = dialled[c]

\* A step that dials nothing keeps the devices apart if a worker gets sessions
\* only from its device's stack, and a stack only from workers of its device.
LEMMA KeptIsolated ==
    ASSUME TypeOK', Own', Isolated, Kept,
           \A v \in Workers : held'[v] # NoConn =>
              \/ held'[v] = held[v] /\ job'[v] = job[v]
              \/ job'[v].dev \in Devices /\ \E n \in Nat : At(held'[v], job'[v].dev, n),
           \A c \in Conns, d \in Devices, n \in Nat : At(c, d, n)' =>
              \/ At(c, d, n)
              \/ \E v \in Workers : held[v] = c /\ job[v].dev = d
    PROVE  Isolated'
<1>1. ASSUME NEW c \in Conns, Held(c)' \/ Idle(c)' PROVE dialled'[c] = dialled[c]
  BY <1>1 DEF Own, OpenPlaced, Kept
<1>2. ASSUME NEW v \in Workers, held'[v] # NoConn PROVE dialled'[held'[v]].dev = job'[v].dev
  <2>1. PICK c \in Conns : c = held'[v]
    BY <1>2 DEF TypeOK
  <2>2. Held(c)'
    BY <2>1 DEF Held
  <2>3. dialled'[c] = dialled[c]
    BY <1>1, <2>2
  <2> QED BY <1>2, <2>1, <2>3 DEF Isolated
<1>3. ASSUME NEW c \in Conns, NEW d \in Devices, NEW n \in Nat, At(c, d, n)'
      PROVE  dialled'[c].dev = d
  <2>1. dialled'[c] = dialled[c]
    BY <1>1, <1>3 DEF Idle
  <2> QED BY <1>3, <2>1, PoolAssumption DEF Isolated
<1> QED BY <1>2, <1>3 DEF Isolated

\* popIdle takes from the stack of the worker's device.
LEMMA PopIdleIsolated ==
    ASSUME TypeOK, TypeOK', Own', Isolated, NEW w \in Workers, PopIdle(w)
    PROVE  Isolated'
<1>1. PICK n \in DOMAIN idle[Dev(w)] :
         /\ held' = [held EXCEPT ![w] = idle[Dev(w)][n].conn]
         /\ idle' = [idle EXCEPT ![Dev(w)] = SubSeq(idle[Dev(w)], 1, n - 1)]
         /\ Shut({idle[Dev(w)][i].conn : i \in (n + 1)..Len(idle[Dev(w)])})
  BY DEF PopIdle
<1>2. Dev(w) \in Devices /\ job' = job /\ idle \in [Devices -> Seq(Entry)]
  BY DEF PopIdle, TypeOK, Dev, Job
<1>3. n \in Nat /\ At(held'[w], Dev(w), n)
  BY <1>1, <1>2, AtType DEF At, TypeOK
<1>4. \A v \in Workers : held'[v] # NoConn =>
         \/ held'[v] = held[v] /\ job'[v] = job[v]
         \/ job'[v].dev \in Devices /\ \E m \in Nat : At(held'[v], job'[v].dev, m)
  BY <1>1, <1>2, <1>3 DEF Dev, TypeOK
<1>5. ASSUME NEW c \in Conns, NEW d \in Devices, NEW m \in Nat, At(c, d, m)'
      PROVE  At(c, d, m)
  <2>1. CASE d = Dev(w)
    <3>1. idle'[d] = SubSeq(idle[d], 1, n - 1) /\ idle[d] \in Seq(Entry) /\ n \in DOMAIN idle[d]
      BY <1>1, <1>2, <2>1
    <3>2. m \in 1..(n - 1) /\ m \in DOMAIN idle[d] /\ idle'[d][m] = idle[d][m]
      BY <1>5, <3>1, SubSeqType DEF At
    <3> QED BY <1>5, <3>2 DEF At
  <2>2. CASE d # Dev(w)
    BY <1>1, <1>2, <1>5, <2>2 DEF At
  <2> QED BY <2>1, <2>2
<1>6. Kept
  BY <1>1 DEF Shut, Kept
<1> QED BY <1>4, <1>5, <1>6, KeptIsolated

\* Put stores on the stack of the worker's device.
LEMMA PutStoreIsolated ==
    ASSUME TypeOK, TypeOK', Own', Isolated, NEW w \in Workers, PutStore(w)
    PROVE  Isolated'
<1>1. Dev(w) \in Devices /\ job' = job /\ idle \in [Devices -> Seq(Entry)] /\ held[w] # NoConn
  BY DEF PutStore, TypeOK, Dev, Job, Using
<1>2. \A v \in Workers : held'[v] # NoConn => held'[v] = held[v] /\ job'[v] = job[v]
  BY <1>1 DEF PutStore, TypeOK
<1>3. ASSUME NEW c \in Conns, NEW d \in Devices, NEW m \in Nat, At(c, d, m)'
      PROVE  At(c, d, m) \/ \E v \in Workers : held[v] = c /\ job[v].dev = d
  <2>1. CASE idle'[d] = idle[d]
    BY <1>3, <2>1 DEF At
  <2>2. CASE idle'[d] # idle[d]
    <3>1. d = Dev(w) /\ idle'[d] = Append(idle[d], [conn |-> held[w], age |-> 0])
      BY <1>1, <2>2 DEF PutStore
    <3>2. idle[d] \in Seq(Entry)
      BY <1>1
    <3>3. (m \in DOMAIN idle[d] /\ idle'[d][m] = idle[d][m]) \/ idle'[d][m] = [conn |-> held[w], age |-> 0]
      BY <1>3, <3>1, <3>2 DEF At
    <3>4. CASE m \in DOMAIN idle[d] /\ idle'[d][m] = idle[d][m]
      BY <1>3, <3>4 DEF At
    <3>5. CASE idle'[d][m] = [conn |-> held[w], age |-> 0]
      BY <1>3, <3>1, <3>5 DEF At, Dev
    <3> QED BY <3>3, <3>4, <3>5
  <2> QED BY <2>1, <2>2
<1>4. Kept
  BY DEF PutStore, Shut, Kept
<1> QED BY <1>2, <1>3, <1>4, KeptIsolated

\* Dial opens a session for the worker's own job.
LEMMA DialIsolated ==
    ASSUME TypeOK, TypeOK', Own, Isolated, NEW w \in Workers, Dial(w)
    PROVE  Isolated'
<1>1. PICK s \in Conns \ Open : /\ dialled' = [dialled EXCEPT ![s] = job[w]]
                               /\ held' = [held EXCEPT ![w] = s]
  BY DEF Dial
<1>2. idle' = idle /\ job' = job
  BY DEF Dial
<1>3. ~Held(s) /\ ~Idle(s)
  BY <1>1 DEF Own, OpenPlaced, Open
<1>4. \A v \in Workers : held'[v] # NoConn => dialled'[held'[v]].dev = job'[v].dev
  BY <1>1, <1>2, <1>3 DEF Isolated, Held, TypeOK
<1>5. \A c \in Conns, d \in Devices, n \in Nat : At(c, d, n)' => dialled'[c].dev = d
  BY <1>1, <1>2, <1>3 DEF Isolated, Idle, At, TypeOK
<1> QED BY <1>4, <1>5 DEF Isolated

\* A step keeps the sessions of different devices apart.
LEMMA IsolatedStep ==
    TypeOK /\ TypeOK' /\ Own /\ Own' /\ Isolated /\ [Next]_vars => Isolated'
<1> SUFFICES ASSUME TypeOK, TypeOK', Own, Own', Isolated, [Next]_vars PROVE Isolated'
  OBVIOUS
<1>f. ASSUME Kept,
             \A v \in Workers : held'[v] # NoConn => held'[v] = held[v] /\ job'[v] = job[v],
             \A d \in Devices : idle'[d] = idle[d] \/ idle'[d] = <<>>
      PROVE  Isolated'
  <2>1. \A c \in Conns, d \in Devices, n \in Nat : At(c, d, n)' => At(c, d, n)
    BY <1>f DEF At
  <2> QED BY <1>f, <2>1, KeptIsolated
<1> USE DEF workerVars, poolVars, envVars, closeVars, Goto, Finish
<1>1. ASSUME NEW w \in Workers, Get(w) PROVE Isolated'
  <2>1. CASE PopIdle(w) \/ Dial(w)
    BY <2>1, PopIdleIsolated, DialIsolated
  <2>2. CASE PopNone(w)
    BY <1>f, <2>2 DEF PopNone, Shut, Kept, TypeOK
  <2>3. CASE ~PopIdle(w) /\ ~Dial(w) /\ ~PopNone(w)
    <3>1. held' = held /\ dialled' = dialled /\ idle' = idle
      BY <1>1, <2>3 DEF Get, Lookup, Create, CheckClosed, Acquire, AbortAcquire, DialFail
    <3>2. \A v \in Workers : held[v] # NoConn => job'[v] = job[v]
      <4>1. \A v \in Workers : job'[v] # job[v] => v = w /\ pc[w] \notin Using
        BY <1>1, <2>3 DEF Get, Lookup, Create, CheckClosed, Acquire, AbortAcquire, DialFail,
                          TypeOK, Using
      <4> QED BY <4>1 DEF TypeOK
    <3> QED BY <1>f, <3>1, <3>2 DEF Kept
  <2> QED BY <2>1, <2>2, <2>3
<1>2. ASSUME NEW w \in Workers, Return(w) PROVE Isolated'
  <2>1. CASE PutStore(w)
    BY <2>1, PutStoreIsolated
  <2>2. CASE ~PutStore(w)
    <3>1. idle' = idle /\ Kept
      BY <1>2, <2>2 DEF Return, PollDone, PutLookup, DiscardClose, DiscardLookup, Release,
                        Shut, Kept
    <3>2. \A v \in Workers : held'[v] # NoConn => held'[v] = held[v] /\ job'[v] = job[v]
      BY <1>2, <2>2 DEF Return, PollDone, PutLookup, DiscardClose, DiscardLookup, Release,
                        TypeOK, Using
    <3> QED BY <1>f, <3>1, <3>2
  <2> QED BY <2>1, <2>2
<1>3. ASSUME NEW k \in Closers, Close(k) PROVE Isolated'
  <2>1. held' = held /\ job' = job /\ Kept
    BY <1>3 DEF Close, CloseCheck, CloseSignal, CloseLock, CloseDrain, CloseUnlock, Shut, Kept
  <2>2. \A d \in Devices : idle'[d] = idle[d] \/ idle'[d] = <<>>
    BY <1>3 DEF Close, CloseCheck, CloseSignal, CloseLock, CloseDrain, CloseUnlock, TypeOK
  <2> QED BY <1>f, <2>1, <2>2
<1>4. CASE Tick
  <2>1. held' = held /\ job' = job /\ Kept
    BY <1>4 DEF Tick, Kept
  <2>2. ASSUME NEW c \in Conns, NEW d \in Devices, NEW n \in Nat, At(c, d, n)'
        PROVE  At(c, d, n)
    <3>1. n \in DOMAIN idle[d] /\ idle'[d][n] = Older(idle[d][n])
      BY <1>4, <2>2 DEF Tick, At
    <3> QED BY <2>2, <3>1, AtType, OlderType DEF At
  <2> QED BY <2>1, <2>2, KeptIsolated
<1>5. CASE \/ \E d \in Devices, c \in Configs : Reload(d, c)
           \/ Cancel \/ UNCHANGED vars
  <2>1. UNCHANGED <<held, job, idle, dialled>>
    BY <1>5 DEF Reload, Cancel, vars
  <2> QED BY <1>f, <2>1 DEF Kept
<1> QED BY <1>1, <1>2, <1>3, <1>4, <1>5 DEF Next

\* A poll never runs on a session that was dialled for another device, and no
\* device's stack ever holds one.
THEOREM IsolationCorrect == Spec => []DeviceIsolation
<1>1. Init => Isolated
  BY PoolAssumption DEF Init, Isolated, At
<1>2. TypeOK /\ Isolated => DeviceIsolation
  BY IsolatedGives
<1> QED BY <1>1, <1>2, IsolatedStep, InitType, TypeStep, OwnInit, OwnStep, PTL DEF Spec
-----------------------------------------------------------------------------
(* The order of the idle stacks *)

\* The limit and the order of one device's stack.
Stacked(s) ==
    /\ Len(s) <= MaxIdle
    /\ \A i, j \in DOMAIN s : i < j => s[i].age >= s[j].age

\* The cap on idle sessions is positive, as NewConnectionPool makes it.
LEMMA MaxIdleType == MaxIdle \in Nat \ {0}
BY PoolAssumption DEF MaxIdle

\* The bottom of an ordered stack is one.
LEMMA CutStacked ==
    ASSUME NEW s \in Seq(Entry), Stacked(s), NEW n \in DOMAIN s
    PROVE  Stacked(SubSeq(s, 1, n - 1))
<1>1. n \in 1..Len(s) /\ Len(s) \in Nat
  OBVIOUS
<1>2. Len(SubSeq(s, 1, n - 1)) <= MaxIdle
  BY <1>1, SubSeqType, MaxIdleType DEF Stacked
<1> DEFINE t == SubSeq(s, 1, n - 1)
<1>3. DOMAIN t \subseteq DOMAIN s /\ \A i \in DOMAIN t : t[i] = s[i]
  BY SubSeqType
<1> HIDE DEF t
<1>4. \A i, j \in DOMAIN t : i < j => t[i].age >= t[j].age
  BY <1>3 DEF Stacked
<1> QED BY <1>2, <1>4 DEF Stacked, t

\* A session that is put back is the youngest.
LEMMA PushStacked ==
    ASSUME NEW s \in Seq(Entry), Stacked(s), ~(Len(s) >= MaxIdle), NEW c \in Conns
    PROVE  Stacked(Append(s, [conn |-> c, age |-> 0]))
<1> DEFINE e == [conn |-> c, age |-> 0]
           t == Append(s, e)
<1>1. /\ Len(s) \in Nat /\ DOMAIN s = 1..Len(s)
      /\ \A i \in DOMAIN s : s[i] \in Entry
  OBVIOUS
<1>2. /\ DOMAIN t = 1..(Len(s) + 1) /\ Len(t) = Len(s) + 1
      /\ \A i \in 1..Len(s) : t[i] = s[i]
      /\ t[Len(s) + 1] = e
  BY <1>1
<1>3. \A i \in DOMAIN s : s[i].age \in Nat
  BY <1>1, PoolAssumption DEF Entry
<1> HIDE DEF t
<1>4. ASSUME NEW i \in DOMAIN t, NEW j \in DOMAIN t, i < j PROVE t[i].age >= t[j].age
  <2>1. i \in 1..Len(s) /\ t[i] = s[i] /\ i \in DOMAIN s
    BY <1>1, <1>2, <1>4
  <2>2. CASE j = Len(s) + 1
    <3>1. t[j].age = 0
      BY <1>2, <2>2
    <3> QED BY <1>3, <2>1, <3>1
  <2>3. CASE j # Len(s) + 1
    <3>1. j \in DOMAIN s /\ t[j] = s[j]
      BY <1>1, <1>2, <2>3
    <3> QED BY <1>4, <2>1, <3>1 DEF Stacked
  <2> QED BY <2>2, <2>3
<1>5. Len(t) <= MaxIdle
  BY <1>1, <1>2, MaxIdleType
<1> QED BY <1>4, <1>5 DEF Stacked, t

\* Ageing keeps the order, although it stops at the timeout.
LEMMA AgeStacked ==
    ASSUME NEW s \in Seq(Entry), Stacked(s)
    PROVE  Stacked([i \in DOMAIN s |-> Older(s[i])])
<1> DEFINE t == [i \in DOMAIN s |-> Older(s[i])]
<1>1. DOMAIN s = 1..Len(s) /\ Len(s) \in Nat /\ \A i \in DOMAIN s : s[i] \in Entry
  OBVIOUS
<1>2. Len(t) = Len(s)
  BY <1>1
<1>3. ASSUME NEW i \in DOMAIN s, NEW j \in DOMAIN s, i < j
      PROVE  Older(s[i]).age >= Older(s[j]).age
  <2>1. s[i] \in Entry /\ s[j] \in Entry /\ s[i].age >= s[j].age
    BY <1>1, <1>3 DEF Stacked
  <2>2. s[i].age \in Nat /\ s[j].age \in Nat /\ IdleTimeout \in Nat
    BY <2>1, PoolAssumption DEF Entry
  <2>3. /\ Older(s[i]).age = IF s[i].age > IdleTimeout THEN s[i].age ELSE s[i].age + 1
        /\ Older(s[j]).age = IF s[j].age > IdleTimeout THEN s[j].age ELSE s[j].age + 1
        /\ s[j].age <= IdleTimeout + 1
    BY <2>1 DEF Older, Entry
  <2> QED BY <2>1, <2>2, <2>3
<1> QED BY <1>2, <1>3 DEF Stacked

\* A step keeps every stack bounded and ordered.
LEMMA StackedStep == TypeOK /\ IdleOrdered /\ [Next]_vars => IdleOrdered'
<1> SUFFICES ASSUME TypeOK, IdleOrdered, [Next]_vars, NEW d \in Devices
             PROVE  Stacked(idle'[d])
  BY DEF IdleOrdered, Stacked
<1>0. idle \in [Devices -> Seq(Entry)] /\ idle[d] \in Seq(Entry) /\ Stacked(idle[d])
  BY DEF TypeOK, IdleOrdered, Stacked
<1>e. Stacked(<<>>)
  BY MaxIdleType DEF Stacked
<1> USE DEF workerVars, poolVars
<1>1. ASSUME NEW w \in Workers, Get(w) PROVE Stacked(idle'[d])
  <2>1. CASE PopIdle(w)
    <3>1. PICK n \in DOMAIN idle[Dev(w)] :
             idle' = [idle EXCEPT ![Dev(w)] = SubSeq(idle[Dev(w)], 1, n - 1)]
      BY <2>1 DEF PopIdle
    <3> QED BY <1>0, <3>1, CutStacked
  <2>2. CASE ~PopIdle(w)
    <3>1. idle'[d] = idle[d] \/ idle'[d] = <<>>
      BY <1>0, <1>1, <2>2 DEF Get, Lookup, Create, CheckClosed, Acquire, AbortAcquire,
                              PopNone, Dial, DialFail
    <3> QED BY <1>0, <1>e, <3>1
  <2> QED BY <2>1, <2>2
<1>2. ASSUME NEW w \in Workers, Return(w) PROVE Stacked(idle'[d])
  <2>1. CASE PutStore(w)
    <3>1. held[w] \in Conns
      BY <2>1 DEF PutStore, TypeOK, Using
    <3>2. \/ idle'[d] = idle[d]
          \/ /\ idle'[d] = Append(idle[d], [conn |-> held[w], age |-> 0])
             /\ ~(Len(idle[d]) >= MaxIdle)
      BY <1>0, <2>1 DEF PutStore
    <3> QED BY <1>0, <3>1, <3>2, PushStacked
  <2>2. CASE ~PutStore(w)
    <3>1. idle' = idle
      BY <1>2, <2>2 DEF Return, PollDone, PutLookup, DiscardClose, DiscardLookup, Release
    <3> QED BY <1>0, <3>1
  <2> QED BY <2>1, <2>2
<1>3. ASSUME NEW k \in Closers, Close(k) PROVE Stacked(idle'[d])
  <2>1. idle'[d] = idle[d] \/ idle'[d] = <<>>
    BY <1>0, <1>3 DEF Close, CloseCheck, CloseSignal, CloseLock, CloseDrain, CloseUnlock, TypeOK
  <2> QED BY <1>0, <1>e, <2>1
<1>4. CASE Tick
  <2>1. idle'[d] = [i \in DOMAIN idle[d] |-> Older(idle[d][i])]
    BY <1>4 DEF Tick
  <2> QED BY <1>0, <2>1, AgeStacked
<1>5. CASE \/ \E e \in Devices, c \in Configs : Reload(e, c)
           \/ Cancel \/ UNCHANGED vars
  <2>1. idle' = idle
    BY <1>5 DEF Reload, Cancel, vars
  <2> QED BY <1>0, <2>1
<1> QED BY <1>1, <1>2, <1>3, <1>4, <1>5 DEF Next

\* The idle stack of a device never exceeds its limit and is ordered by age,
\* newest on top, so popIdle never throws away a session that has not expired.
THEOREM OrderedCorrect == Spec => []IdleOrdered
<1>1. Init => IdleOrdered
  BY MaxIdleType DEF Init, IdleOrdered
<1> QED BY <1>1, StackedStep, InitType, TypeStep, PTL DEF Spec
-----------------------------------------------------------------------------
(* The pool is a lease manager *)

\* A step that neither sizes a pool nor moves a slot or a session is no step of
\* the lease manager.
LEMMA LeaseStutter ==
    ASSUME cap' = cap, held' = held,
           \A v \in Workers : /\ pc[v] \in Slotted <=> pc'[v] \in Slotted
                              /\ pc[v] \in Slotted => job'[v] = job[v]
    PROVE  [Lease!Next]_(Lease!leaseVars)
<1>1. \A d \in Devices : SlotHolders(d)' = SlotHolders(d)
  BY SlotFrame
<1>2. [d \in Devices |-> SlotHolders(d)]' = [d \in Devices |-> SlotHolders(d)]
  BY <1>1
<1> QED BY <1>2 DEF Lease!leaseVars

\* The first look at a device sizes its pool; a second one finds it sized.
LEMMA CreateLease ==
    ASSUME TypeOK, TypeOK', NEW w \in Workers, Create(w)
    PROVE  [Lease!Next]_(Lease!leaseVars)
<1>1. Dev(w) \in Devices /\ job[w].cfg \in Configs
  BY DEF Create, TypeOK, Dev, Job
<1>2. /\ held' = held
      /\ \A v \in Workers : /\ pc[v] \in Slotted <=> pc'[v] \in Slotted
                            /\ pc[v] \in Slotted => job'[v] = job[v]
  BY DEF Create, TypeOK, Slotted, Goto
<1>3. CASE cap[Dev(w)] # 0
  BY <1>2, <1>3, LeaseStutter DEF Create
<1>4. CASE cap[Dev(w)] = 0
  <2>1. cap' = [cap EXCEPT ![Dev(w)] = Capacity(job[w].cfg)]
    BY <1>4 DEF Create
  <2>2. cap'[Dev(w)] = Capacity(job[w].cfg) /\ cap'[Dev(w)] \in Nat \ {0}
    BY <1>1, <2>1, CapacityType DEF TypeOK
  <2>3. [d \in Devices |-> SlotHolders(d)]' = [d \in Devices |-> SlotHolders(d)]
    BY <1>2, SlotFrame
  <2>4. Lease!Size(Dev(w))
    BY <1>2, <1>4, <2>1, <2>2, <2>3 DEF Lease!Size
  <2> QED BY <1>1, <2>4 DEF Lease!Next
<1> QED BY <1>3, <1>4

\* Taking a slot is the grant of a lease, within the limit.
LEMMA AcquireLease ==
    ASSUME TypeOK, SemAccounting, NEW w \in Workers, Acquire(w)
    PROVE  Lease!Next
<1>1. PICK e \in Devices : e = Dev(w)
  BY AcquireHolders
<1>2. \A d \in Devices : w \notin SlotHolders(d)
  BY DEF Acquire, SlotHolders, Slotted
<1>3. Cardinality(SlotHolders(e)) < cap[e]
  BY <1>1 DEF Acquire, SemAccounting
<1>4. [d \in Devices |-> SlotHolders(d)]' =
         [[d \in Devices |-> SlotHolders(d)] EXCEPT ![e] = SlotHolders(e) \cup {w}]
  BY <1>1, AcquireHolders
<1>5. cap' = cap /\ held' = held
  BY DEF Acquire
<1>6. Lease!Cardinality(SlotHolders(e)) = Cardinality(SlotHolders(e))
  BY Zenon DEF Lease!Cardinality, Cardinality, Lease!IsFiniteSet, IsFiniteSet
<1>7. Lease!Grant(w, e)
  BY <1>2, <1>3, <1>4, <1>5, <1>6 DEF Lease!Grant
<1> QED BY <1>7 DEF Lease!Next

\* A session is lent under a lease, and to nobody else.
LEMMA LendLease ==
    ASSUME TypeOK, TypeOK', Own, Own', NEW w \in Workers, PopIdle(w) \/ Dial(w)
    PROVE  Lease!Next
<1>1. pc[w] \in Slotted /\ job[w].dev \in Devices /\ held[w] = NoConn
  BY DEF PopIdle, Dial, TypeOK, Slotted, Using, Job
<1>2. /\ cap' = cap /\ job' = job
      /\ \E c : held' = [held EXCEPT ![w] = c]
      /\ pc' = [pc EXCEPT ![w] = "poll"]
  BY DEF PopIdle, Dial, Goto
<1>3. PICK c : held' = [held EXCEPT ![w] = c]
  BY <1>2
<1>4. held'[w] = c /\ pc'[w] = "poll"
  BY <1>2, <1>3 DEF TypeOK
<1>5. c \in Conns
  BY <1>4 DEF TypeOK, Using
<1>6. c \notin {held[v] : v \in Workers}
  <2> SUFFICES ASSUME NEW v \in Workers, held[v] = c PROVE FALSE
    OBVIOUS
  <2>1. v # w
    BY <1>1, <1>5, PoolAssumption
  <2>2. held'[v] = held'[w]
    BY <1>3, <1>4, <2>1 DEF TypeOK
  <2> QED BY <1>4, <1>5, <2>1, <2>2, PoolAssumption DEF Own, OnePlace
<1>7. [d \in Devices |-> SlotHolders(d)]' = [d \in Devices |-> SlotHolders(d)]
  <2>1. \A v \in Workers : /\ pc[v] \in Slotted <=> pc'[v] \in Slotted
                           /\ pc[v] \in Slotted => job'[v] = job[v]
    BY <1>1, <1>2 DEF Slotted, TypeOK
  <2> QED BY <2>1, SlotFrame
<1>8. w \in SlotHolders(job[w].dev)
  BY <1>1 DEF SlotHolders, Dev
<1>9. Lease!Lend(w)
  BY <1>1, <1>2, <1>3, <1>5, <1>6, <1>7, <1>8 DEF Lease!Lend
<1> QED BY <1>9 DEF Lease!Next

\* The session goes back before the lease does.
LEMMA RecallLease ==
    ASSUME TypeOK, NEW w \in Workers, PutStore(w) \/ DiscardClose(w)
    PROVE  Lease!Next
<1>1. /\ held[w] # NoConn /\ held' = [held EXCEPT ![w] = NoConn]
      /\ cap' = cap /\ job' = job
      /\ \A v \in Workers : pc[v] \in Slotted <=> pc'[v] \in Slotted
  BY DEF PutStore, DiscardClose, TypeOK, Using, Slotted, Goto
<1>2. [d \in Devices |-> SlotHolders(d)]' = [d \in Devices |-> SlotHolders(d)]
  BY <1>1, SlotFrame
<1>3. Lease!Recall(w)
  BY <1>1, <1>2 DEF Lease!Recall
<1> QED BY <1>3 DEF Lease!Next

\* Giving the slot back ends the lease.
LEMMA ReleaseLease ==
    ASSUME TypeOK, NEW w \in Workers, Release(w)
    PROVE  Lease!Next
<1>1. PICK e \in Devices : e = Dev(w)
  BY ReleaseHolders
<1>2. w \in SlotHolders(e)
  BY <1>1, ReleaseHolders
<1>3. [d \in Devices |-> SlotHolders(d)]' =
         [[d \in Devices |-> SlotHolders(d)] EXCEPT ![e] = SlotHolders(e) \ {w}]
  BY <1>1, ReleaseHolders
<1>4. held[w] = NoConn /\ cap' = cap /\ held' = held
  BY DEF Release, TypeOK, Using
<1>5. Lease!Expire(w, e)
  BY <1>2, <1>3, <1>4 DEF Lease!Expire
<1> QED BY <1>5 DEF Lease!Next

\* A step of the pool is a step of the lease manager, or none.
LEMMA LeaseStep ==
    TypeOK /\ TypeOK' /\ SemAccounting /\ Own /\ Own' /\ [Next]_vars
       => [Lease!Next]_(Lease!leaseVars)
<1> SUFFICES ASSUME TypeOK, TypeOK', SemAccounting, Own, Own', [Next]_vars
             PROVE  [Lease!Next]_(Lease!leaseVars)
  OBVIOUS
<1> USE DEF workerVars, poolVars, envVars, closeVars, Goto, Finish
<1>1. ASSUME NEW w \in Workers, Get(w) PROVE [Lease!Next]_(Lease!leaseVars)
  <2>1. CASE Create(w)
    BY <2>1, CreateLease
  <2>2. CASE Acquire(w)
    BY <2>2, AcquireLease
  <2>3. CASE PopIdle(w) \/ Dial(w)
    BY <2>3, LendLease
  <2>4. CASE ~Create(w) /\ ~Acquire(w) /\ ~PopIdle(w) /\ ~Dial(w)
    <3>1. cap' = cap /\ held' = held
      BY <1>1, <2>4 DEF Get, Lookup, CheckClosed, AbortAcquire, PopNone, DialFail
    <3>2. \A v \in Workers : /\ pc[v] \in Slotted <=> pc'[v] \in Slotted
                             /\ pc[v] \in Slotted => job'[v] = job[v]
      BY <1>1, <2>4 DEF Get, Lookup, CheckClosed, AbortAcquire, PopNone, DialFail,
                        TypeOK, Slotted
    <3> QED BY <3>1, <3>2, LeaseStutter
  <2> QED BY <2>1, <2>2, <2>3, <2>4
<1>2. ASSUME NEW w \in Workers, Return(w) PROVE [Lease!Next]_(Lease!leaseVars)
  <2>1. CASE PutStore(w) \/ DiscardClose(w)
    BY <2>1, RecallLease
  <2>2. CASE Release(w)
    BY <2>2, ReleaseLease
  <2>3. CASE ~PutStore(w) /\ ~DiscardClose(w) /\ ~Release(w)
    <3>1. cap' = cap /\ held' = held /\ job' = job
      BY <1>2, <2>3 DEF Return, PollDone, PutLookup, DiscardLookup
    <3>2. \A v \in Workers : pc[v] \in Slotted <=> pc'[v] \in Slotted
      BY <1>2, <2>3 DEF Return, PollDone, PutLookup, DiscardLookup, TypeOK, Slotted
    <3> QED BY <3>1, <3>2, LeaseStutter
  <2> QED BY <2>1, <2>2, <2>3
<1>3. CASE \/ \E k \in Closers : Close(k)
           \/ \E d \in Devices, c \in Configs : Reload(d, c)
           \/ Cancel \/ Tick \/ UNCHANGED vars
  <2>1. UNCHANGED <<cap, held, pc, job>>
    BY <1>3 DEF Close, CloseCheck, CloseSignal, CloseLock, CloseDrain, CloseUnlock,
                Reload, Cancel, Tick, vars
  <2> QED BY <2>1, LeaseStutter
<1> QED BY <1>1, <1>2, <1>3 DEF Next

\* The pool implements the lease manager: with its semaphores, idle stacks,
\* double-checked map and concurrent Close it never grants more leases than a
\* device's limit, lends a session to one worker at a time, and takes it back
\* before the lease.
THEOREM LeaseCorrect == Spec => ImplementsLease
<1>1. Init => Lease!Init
  <2> SUFFICES ASSUME Init PROVE Lease!Init
    OBVIOUS
  <2>1. \A d \in Devices : SlotHolders(d) = {}
    BY DEF Init, SlotHolders, Slotted
  <2> QED BY <2>1 DEF Init, Lease!Init
<1> QED BY <1>1, LeaseStep, InitType, TypeStep, SemInit, SemStep, OwnInit, OwnStep, PTL
        DEF Spec, ImplementsLease, Lease!Spec
=============================================================================
