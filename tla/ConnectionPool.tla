--------------------------- MODULE ConnectionPool ---------------------------
(***************************************************************************)
(* The per-device SNMP session pool (poller/pool.go) and its only caller,  *)
(* SNMPPoller.Poll (poller/poller.go), run by concurrent worker goroutines.*)
(*                                                                         *)
(* A worker performs one Poll at a time:                                   *)
(*   Get     = getOrCreatePool; closed?; take a slot; popIdle or Dial      *)
(*   Poll    = the SNMP request on the session                             *)
(*   Put     = getPool; push on the idle stack; free the slot   (success)  *)
(*   Discard = close the session; getPool; free the slot        (failure)  *)
(* while the configuration may be reloaded, the context cancelled, time    *)
(* pass and the pool be closed.  One action is one critical section, one   *)
(* channel operation or one call into gosnmp.                              *)
(*                                                                         *)
(* Time enters only through "time.Since(returnedAt) > IdleTimeout", so an  *)
(* idle entry carries its age, which stops counting once it has expired.   *)
(***************************************************************************)
EXTENDS Integers, Sequences, FiniteSets

CONSTANTS
    Workers,          \* goroutines that call Poll
    Closers,          \* goroutines that call ConnectionPool.Close
    Devices,          \* hostnames
    Configs,          \* values of config.DeviceConfig
    Conns,            \* identities of gosnmp sessions
    InitConfig,       \* the DeviceConfig each device starts with
    MaxPolls,         \* DeviceConfig.MaxConcurrentPolls of each configuration
    MaxIdlePerDevice, \* PoolOptions.MaxIdlePerDevice
    IdleTimeout,      \* PoolOptions.IdleTimeout; 0 is "no expiry"
    MaxReloads,       \* bound: configuration reloads per behaviour
    NoConn, NoJob, NoCloser

\* What Poll needs of a PollJob: the hostname and the DeviceConfig.
Job == [dev : Devices, cfg : Configs]

ASSUME PoolAssumption ==
    /\ IsFiniteSet(Workers)
    /\ InitConfig \in [Devices -> Configs]
    /\ MaxPolls \in [Configs -> Int]
    /\ MaxIdlePerDevice \in Int
    /\ IdleTimeout \in Nat
    /\ MaxReloads \in Nat
    /\ NoConn \notin Conns
    /\ NoJob \notin Job
    /\ NoCloser \notin Closers

VARIABLES
    config,   \* the DeviceConfig a newly scheduled job of each device carries
    reloads,  \* reloads so far
    cap,      \* cap(dp.sem) of each device's pool; 0: no entry in p.pools
    sem,      \* len(dp.sem)
    idle,     \* dp.idle: a stack of entries, newest last
    dialled,  \* the job each open session was dialled for; NoJob: not open
    pc, job, held,    \* per worker: position in Poll, its job, its session
    cancelled,        \* the context passed to Poll is done
    closed,           \* p.closed is closed
    kpc, mu, todrain, \* per closer: position in Close; holder of p.mu; pools left
    panicked          \* the process has died of a close of a closed channel

workerVars == <<pc, job, held>>
poolVars   == <<cap, sem, idle, dialled>>
envVars    == <<config, reloads, cancelled>>
closeVars  == <<closed, kpc, mu, todrain, panicked>>
vars == <<workerVars, poolVars, envVars, closeVars>>

Entry == [conn : Conns, age : 0..(IdleTimeout + 1)]

\* PoolOptions.defaults: a non-positive MaxIdlePerDevice becomes 2.
MaxIdle == IF MaxIdlePerDevice <= 0 THEN 2 ELSE MaxIdlePerDevice

\* The capacity getOrCreatePool gives a new semaphore.
Capacity(cfg) == IF MaxPolls[cfg] <= 0 THEN 4 ELSE MaxPolls[cfg]

\* popIdle's test of an entry.
Expired(e) == IdleTimeout > 0 /\ e.age > IdleTimeout

\* The sessions whose socket is open.
Open == {c \in Conns : dialled[c] # NoJob}

\* conn.Conn.Close() on each session of S.
Shut(S) == dialled' = [c \in Conns |-> IF c \in S THEN NoJob ELSE dialled[c]]

IdleConns(d) == {idle[d][i].conn : i \in DOMAIN idle[d]}

\* p.mu can be taken, for reading or writing.  Only Close holds it for more
\* than one step.
Unlocked == mu = NoCloser

Dev(w) == job[w].dev

Goto(w, l) == pc' = [pc EXCEPT ![w] = l]

\* Poll returns; its parameters go out of scope.
Finish(w) ==
    /\ Goto(w, "ready")
    /\ job' = [job EXCEPT ![w] = NoJob]
-----------------------------------------------------------------------------
\* NewConnectionPool; the workers are between two jobs.
Init ==
    /\ config = InitConfig
    /\ reloads = 0
    /\ cap = [d \in Devices |-> 0]
    /\ sem = [d \in Devices |-> 0]
    /\ idle = [d \in Devices |-> <<>>]
    /\ dialled = [c \in Conns |-> NoJob]
    /\ pc = [w \in Workers |-> "ready"]
    /\ job = [w \in Workers |-> NoJob]
    /\ held = [w \in Workers |-> NoConn]
    /\ cancelled = FALSE
    /\ closed = FALSE
    /\ kpc = [k \in Closers |-> "start"]
    /\ mu = NoCloser
    /\ todrain = {}
    /\ panicked = FALSE
-----------------------------------------------------------------------------
(* Get *)

\* Poll is called with a job; getOrCreatePool looks the device up under RLock.
Lookup(w, d) ==
    /\ pc[w] = "ready"
    /\ Unlocked
    /\ job' = [job EXCEPT ![w] = [dev |-> d, cfg |-> config[d]]]
    /\ Goto(w, IF cap[d] = 0 THEN "create" ELSE "check")
    /\ UNCHANGED <<held, poolVars, envVars, closeVars>>

\* getOrCreatePool's write-locked half, with its second look at the map.
Create(w) ==
    /\ pc[w] = "create"
    /\ Unlocked
    /\ cap' = IF cap[Dev(w)] = 0
                THEN [cap EXCEPT ![Dev(w)] = Capacity(job[w].cfg)]
                ELSE cap
    /\ Goto(w, "check")
    /\ UNCHANGED <<job, held, sem, idle, dialled, envVars, closeVars>>

\* The fast path: a closed pool rejects the call.
CheckClosed(w) ==
    /\ pc[w] = "check"
    /\ IF closed THEN Finish(w) ELSE Goto(w, "acquire") /\ UNCHANGED job
    /\ UNCHANGED <<held, poolVars, envVars, closeVars>>

\* Mutant of Acquire: room for one more than the capacity.
AcquireOneMore(w) ==
    /\ pc[w] = "acquire"
    /\ sem[Dev(w)] <= cap[Dev(w)]
    /\ sem' = [sem EXCEPT ![Dev(w)] = @ + 1]
    /\ Goto(w, "pop")
    /\ UNCHANGED <<job, held, cap, idle, dialled, envVars, closeVars>>

\* case dp.sem <- struct{}{}
Acquire(w) ==
    /\ pc[w] = "acquire"
    /\ sem[Dev(w)] < cap[Dev(w)]
    /\ sem' = [sem EXCEPT ![Dev(w)] = @ + 1]
    /\ Goto(w, "pop")
    /\ UNCHANGED <<job, held, cap, idle, dialled, envVars, closeVars>>

\* case <-ctx.Done() and case <-p.closed
AbortAcquire(w) ==
    /\ pc[w] = "acquire"
    /\ cancelled \/ closed
    /\ Finish(w)
    /\ UNCHANGED <<held, poolVars, envVars, closeVars>>

\* Mutant of PopIdle: the entry it returns stays on the stack.
PopIdleKeep(w) ==
    /\ pc[w] = "pop"
    /\ \E n \in DOMAIN idle[Dev(w)] :
          /\ n = Len(idle[Dev(w)])
          /\ ~Expired(idle[Dev(w)][n])
          /\ held' = [held EXCEPT ![w] = idle[Dev(w)][n].conn]
    /\ Goto(w, "poll")
    /\ UNCHANGED <<job, cap, sem, idle, dialled, envVars, closeVars>>

\* Mutant of PopIdle: one stack for all devices.
PopIdleAny(w) ==
    /\ pc[w] = "pop"
    /\ \E d \in Devices :
          /\ idle[d] # <<>>
          /\ held' = [held EXCEPT ![w] = idle[d][Len(idle[d])].conn]
          /\ idle' = [idle EXCEPT ![d] = SubSeq(@, 1, Len(@) - 1)]
    /\ Goto(w, "poll")
    /\ UNCHANGED <<job, cap, sem, dialled, envVars, closeVars>>

\* popIdle finds the newest session that has not expired; the expired ones
\* above it are closed on the way.
PopIdle(w) ==
    /\ pc[w] = "pop"
    /\ \E n \in DOMAIN idle[Dev(w)] :
          LET s == idle[Dev(w)] IN
          /\ ~Expired(s[n])
          /\ \A i \in (n + 1)..Len(s) : Expired(s[i])
          /\ held' = [held EXCEPT ![w] = s[n].conn]
          /\ idle' = [idle EXCEPT ![Dev(w)] = SubSeq(s, 1, n - 1)]
          /\ Shut({s[i].conn : i \in (n + 1)..Len(s)})
    /\ Goto(w, "poll")
    /\ UNCHANGED <<job, cap, sem, envVars, closeVars>>

\* Mutant of PopNone: expired entries are passed over, not removed and closed.
PopNoneKeep(w) ==
    /\ pc[w] = "pop"
    /\ \A i \in DOMAIN idle[Dev(w)] : Expired(idle[Dev(w)][i])
    /\ Goto(w, "dial")
    /\ UNCHANGED <<job, held, poolVars, envVars, closeVars>>

\* popIdle finds none: every entry has expired and is closed.
PopNone(w) ==
    /\ pc[w] = "pop"
    /\ \A i \in DOMAIN idle[Dev(w)] : Expired(idle[Dev(w)][i])
    /\ Shut(IdleConns(Dev(w)))
    /\ idle' = [idle EXCEPT ![Dev(w)] = <<>>]
    /\ Goto(w, "dial")
    /\ UNCHANGED <<job, held, cap, sem, envVars, closeVars>>

\* Dial succeeds: a session that exists nowhere else.
Dial(w) ==
    /\ pc[w] = "dial"
    /\ \E c \in Conns \ Open :
          /\ dialled' = [dialled EXCEPT ![c] = job[w]]
          /\ held' = [held EXCEPT ![w] = c]
    /\ Goto(w, "poll")
    /\ UNCHANGED <<job, cap, sem, idle, envVars, closeVars>>

\* Mutant of DialFail: the slot is not given back.
DialFailLeak(w) ==
    /\ pc[w] = "dial"
    /\ Finish(w)
    /\ UNCHANGED <<held, poolVars, envVars, closeVars>>

\* Mutant of DialFail: the missing session is Put all the same.
DialFailPut(w) ==
    /\ pc[w] = "dial"
    /\ Goto(w, "put")
    /\ UNCHANGED <<job, held, poolVars, envVars, closeVars>>

\* Dial fails: nothing is held but the slot.
DialFail(w) ==
    /\ pc[w] = "dial"
    /\ Goto(w, "release")
    /\ UNCHANGED <<job, held, poolVars, envVars, closeVars>>
-----------------------------------------------------------------------------
(* Poll, Put and Discard *)

\* doGet, doWalk or doBulkWalk returns; an error leads to Discard.
PollDone(w) ==
    /\ pc[w] = "poll"
    /\ \E next \in {"put", "discard"} : Goto(w, next)
    /\ UNCHANGED <<job, held, poolVars, envVars, closeVars>>

\* Put finds the device's pool.
PutLookup(w) ==
    /\ pc[w] = "put"
    /\ Unlocked
    /\ Goto(w, "store")
    /\ UNCHANGED <<job, held, poolVars, envVars, closeVars>>

\* Mutant of PutStore: a session that does not fit is dropped, not closed.
PutStoreDrop(w) ==
    /\ pc[w] = "store"
    /\ idle' = IF Len(idle[Dev(w)]) >= MaxIdle THEN idle
               ELSE [idle EXCEPT ![Dev(w)] = Append(@, [conn |-> held[w], age |-> 0])]
    /\ held' = [held EXCEPT ![w] = NoConn]
    /\ Goto(w, "release")
    /\ UNCHANGED <<job, cap, sem, dialled, envVars, closeVars>>

\* Mutant of PutStore: the session goes to the bottom of the stack.
PutStoreBottom(w) ==
    /\ pc[w] = "store"
    /\ IF Len(idle[Dev(w)]) >= MaxIdle
         THEN /\ Shut({held[w]})
              /\ UNCHANGED idle
         ELSE /\ idle' = [idle EXCEPT ![Dev(w)] =
                             <<[conn |-> held[w], age |-> 0]>> \o @]
              /\ UNCHANGED dialled
    /\ held' = [held EXCEPT ![w] = NoConn]
    /\ Goto(w, "release")
    /\ UNCHANGED <<job, cap, sem, envVars, closeVars>>

\* Put's critical section: push the session, or close it when the stack is
\* full.  The deferred calls unlock first and free the slot afterwards.
PutStore(w) ==
    /\ pc[w] = "store"
    /\ IF Len(idle[Dev(w)]) >= MaxIdle
         THEN /\ Shut({held[w]})
              /\ UNCHANGED idle
         ELSE /\ idle' = [idle EXCEPT ![Dev(w)] =
                             Append(@, [conn |-> held[w], age |-> 0])]
              /\ UNCHANGED dialled
    /\ held' = [held EXCEPT ![w] = NoConn]
    /\ Goto(w, "release")
    /\ UNCHANGED <<job, cap, sem, envVars, closeVars>>

\* Discard closes the session first ...
DiscardClose(w) ==
    /\ pc[w] = "discard"
    /\ Shut({held[w]})
    /\ held' = [held EXCEPT ![w] = NoConn]
    /\ Goto(w, "getpool")
    /\ UNCHANGED <<job, cap, sem, idle, envVars, closeVars>>

\* Mutant of DiscardLookup: the slot of a failed poll is not given back.
DiscardLeak(w) ==
    /\ pc[w] = "getpool"
    /\ Finish(w)
    /\ UNCHANGED <<held, poolVars, envVars, closeVars>>

\* ... and then looks the pool up.
DiscardLookup(w) ==
    /\ pc[w] = "getpool"
    /\ Unlocked
    /\ Goto(w, "release")
    /\ UNCHANGED <<job, held, poolVars, envVars, closeVars>>

\* <-dp.sem at the end of Put, of Discard and of a Get whose Dial failed.
Release(w) ==
    /\ pc[w] = "release"
    /\ sem[Dev(w)] > 0
    /\ sem' = [sem EXCEPT ![Dev(w)] = @ - 1]
    /\ Finish(w)
    /\ UNCHANGED <<held, cap, idle, dialled, envVars, closeVars>>
-----------------------------------------------------------------------------
(* Close *)

KGoto(k, l) == kpc' = [kpc EXCEPT ![k] = l]

\* The select on p.closed: a closed pool is left alone.
CloseCheck(k) ==
    /\ kpc[k] = "start"
    /\ KGoto(k, IF closed THEN "done" ELSE "signal")
    /\ UNCHANGED <<workerVars, poolVars, envVars, closed, mu, todrain, panicked>>

\* close(p.closed), which panics when the channel is closed already.
CloseSignal(k) ==
    /\ kpc[k] = "signal"
    /\ closed' = TRUE
    /\ panicked' = closed
    /\ KGoto(k, "lock")
    /\ UNCHANGED <<workerVars, poolVars, envVars, mu, todrain>>

\* p.mu.Lock() and the range over p.pools.
CloseLock(k) ==
    /\ kpc[k] = "lock"
    /\ Unlocked
    /\ mu' = k
    /\ todrain' = {d \in Devices : cap[d] # 0}
    /\ KGoto(k, "drain")
    /\ UNCHANGED <<workerVars, poolVars, envVars, closed, panicked>>

\* One iteration of the range: close what is idle, under dp.mu.
CloseDrain(k) ==
    /\ kpc[k] = "drain"
    /\ \E d \in todrain :
          /\ Shut(IdleConns(d))
          /\ idle' = [idle EXCEPT ![d] = <<>>]
          /\ todrain' = todrain \ {d}
    /\ UNCHANGED <<workerVars, cap, sem, envVars, closed, kpc, mu, panicked>>

CloseUnlock(k) ==
    /\ kpc[k] = "drain"
    /\ todrain = {}
    /\ mu' = NoCloser
    /\ KGoto(k, "done")
    /\ UNCHANGED <<workerVars, poolVars, envVars, closed, todrain, panicked>>
-----------------------------------------------------------------------------
(* Environment *)

\* App.Reload: from now on the jobs of d carry another DeviceConfig.
Reload(d, c) ==
    /\ reloads < MaxReloads
    /\ c # config[d]
    /\ config' = [config EXCEPT ![d] = c]
    /\ reloads' = reloads + 1
    /\ UNCHANGED <<workerVars, poolVars, cancelled, closeVars>>

Cancel ==
    /\ ~cancelled
    /\ cancelled' = TRUE
    /\ UNCHANGED <<workerVars, poolVars, config, reloads, closeVars>>

\* Time passes for the idle sessions.
Older(e) == [e EXCEPT !.age = IF @ > IdleTimeout THEN @ ELSE @ + 1]

Tick ==
    /\ idle' = [d \in Devices |-> [i \in DOMAIN idle[d] |-> Older(idle[d][i])]]
    /\ idle' # idle
    /\ UNCHANGED <<workerVars, cap, sem, dialled, envVars, closeVars>>
-----------------------------------------------------------------------------
Get(w) ==
    \/ \E d \in Devices : Lookup(w, d)
    \/ Create(w)
    \/ CheckClosed(w)
    \/ Acquire(w)
    \/ AbortAcquire(w)
    \/ PopIdle(w)
    \/ PopNone(w)
    \/ Dial(w)
    \/ DialFail(w)

Return(w) ==
    \/ PollDone(w)
    \/ PutLookup(w)
    \/ PutStore(w)
    \/ DiscardClose(w)
    \/ DiscardLookup(w)
    \/ Release(w)

Close(k) ==
    \/ CloseCheck(k)
    \/ CloseSignal(k)
    \/ CloseLock(k)
    \/ CloseDrain(k)
    \/ CloseUnlock(k)

Next ==
    /\ ~panicked
    /\ \/ \E w \in Workers : Get(w) \/ Return(w)
       \/ \E k \in Closers : Close(k)
       \/ \E d \in Devices, c \in Configs : Reload(d, c)
       \/ Cancel
       \/ Tick

Spec == Init /\ [][Next]_vars

\* Everything a worker does but take a new job.
Step(w) == ~panicked /\ pc[w] # "ready" /\ (Get(w) \/ Return(w))

\* A goroutine that can run does run: gosnmp bounds Dial and every request by
\* its timeout and retries.  A slot is handed to the blocked sender that has
\* waited longest, so one that is freed again and again reaches every waiter.
\* Nobody has to call Close, but a Close that was called goes on.
Fairness ==
    /\ \A w \in Workers : WF_vars(Step(w)) /\ SF_vars(~panicked /\ Acquire(w))
    /\ \A k \in Closers : WF_vars(~panicked /\ kpc[k] # "start" /\ Close(k))

FairSpec == Spec /\ Fairness
-----------------------------------------------------------------------------
(* Properties *)

\* Between taking a slot of the semaphore and giving it back.
Slotted == {"pop", "dial", "poll", "put", "store", "discard", "getpool", "release"}

\* Between obtaining a session and handing it back.
Using == {"poll", "put", "store", "discard"}

SlotHolders(d) == {w \in Workers : pc[w] \in Slotted /\ Dev(w) = d}

\* Workers of d that hold a session or are about to dial one.
Sessions(d) == {w \in Workers : pc[w] \in Using \cup {"dial"} /\ Dev(w) = d}

\* Every variable has the type of the Go value it stands for; a worker has a
\* job exactly while it is inside Poll and a session exactly while it uses one.
TypeOK ==
    /\ config \in [Devices -> Configs]
    /\ reloads \in 0..MaxReloads
    /\ cap \in [Devices -> Nat]
    /\ sem \in [Devices -> Nat]
    /\ idle \in [Devices -> Seq(Entry)]
    /\ dialled \in [Conns -> Job \cup {NoJob}]
    /\ pc \in [Workers -> Slotted \cup {"ready", "create", "check", "acquire"}]
    /\ job \in [Workers -> Job \cup {NoJob}]
    /\ held \in [Workers -> Conns \cup {NoConn}]
    /\ \A w \in Workers : /\ job[w] = NoJob <=> pc[w] = "ready"
                          /\ held[w] = NoConn <=> pc[w] \notin Using
    /\ cancelled \in BOOLEAN /\ closed \in BOOLEAN /\ panicked \in BOOLEAN
    /\ kpc \in [Closers -> {"start", "signal", "lock", "drain", "done"}]
    /\ mu \in Closers \cup {NoCloser}
    /\ todrain \subseteq Devices

\* Get hands a session to one goroutine at a time: no two workers hold the
\* same one, and none that is held is on an idle stack, where another Get
\* could take it; no session is on the stacks twice.
ExclusiveUse ==
    /\ \A v, w \in Workers : v # w /\ held[v] = held[w] => held[v] = NoConn
    /\ \A w \in Workers, d \in Devices : held[w] \notin IdleConns(d)
    /\ \A d, e \in Devices : \A i \in DOMAIN idle[d], j \in DOMAIN idle[e] :
          idle[d][i].conn = idle[e][j].conn => d = e /\ i = j

\* popIdle, Put, Discard and Close together close each session exactly when
\* the pool lets go of it: a held or idle session is open (no use after close),
\* and an open one is held or idle (no socket leaks).
NoLeak ==
    Open = {held[w] : w \in {v \in Workers : pc[v] \in Using}}
              \cup UNION {IdleConns(d) : d \in Devices}

\* A session is only ever used for the device it was dialled for.
DeviceIsolation ==
    /\ \A w \in Workers : pc[w] \in Using => dialled[held[w]].dev = Dev(w)
    /\ \A d \in Devices : \A c \in IdleConns(d) : dialled[c].dev = d

\* On every path out of Get, Put and Discard the slot is given back once: the
\* semaphore counts the workers between acquire and release, within its capacity.
SemAccounting ==
    \A d \in Devices : sem[d] = Cardinality(SlotHolders(d)) /\ sem[d] <= cap[d]

\* A device never sees more sockets than its concurrency limit: the idle
\* sessions and the ones in use or being dialled fit in the semaphore, because
\* Put stores before it releases and Get dials only after finding none idle.
SessionBound ==
    \A d \in Devices : Len(idle[d]) + Cardinality(Sessions(d)) <= cap[d]

\* The idle stack keeps its limit and is ordered by age, newest on top, so
\* popIdle never drops a fresh session while it looks for one below it.
IdleOrdered ==
    \A d \in Devices :
       /\ Len(idle[d]) <= MaxIdle
       /\ \A i, j \in DOMAIN idle[d] : i < j => idle[d][i].age >= idle[d][j].age

\* Every Poll returns: no slot is lost on any path, so each wait for one ends,
\* and Close does not keep the lock Put and Discard need.
PollReturns == \A w \in Workers : pc[w] # "ready" ~> pc[w] = "ready"
-----------------------------------------------------------------------------
(* The promise of the pool: leases of sessions, limited per device. *)

Lease == INSTANCE SessionLease WITH
            limit <- cap,
            holders <- [d \in Devices |-> SlotHolders(d)],
            lent <- held

\* Every behaviour of the pool is one of the abstract lease manager.
ImplementsLease == Lease!Spec
-----------------------------------------------------------------------------
(* What the comments and documents say, where the code does something else. *)

\* app.go "Reload atomically replaces the running configuration": a poll uses
\* a session dialled with the configuration its job carries.
SessionMatchesJob ==
    \A w \in Workers : pc[w] \in Using => dialled[held[w]] = job[w]
=============================================================================
