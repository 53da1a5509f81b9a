----------------------------- MODULE Scheduler -----------------------------
(***************************************************************************)
(* The polling scheduler (scheduler/scheduler.go): one loop that sorts its *)
(* entries by due time, sleeps until the first is due and fires all that   *)
(* are, while Reload replaces the entries under the same mutex.            *)
(*                                                                         *)
(* The slice of entries is a function from hostname to interval and due    *)
(* time, and the order of the hostnames in the slice.  Whether TrySubmit   *)
(* finds room for the jobs of a fired entry changes nothing here; Pipeline *)
(* models it.  Time is counted in ticks of half a second.                  *)
(***************************************************************************)
EXTENDS Integers, Sequences, FiniteSets

CONSTANTS
    Hosts,      \* hostnames
    Cfgs,       \* configurations: PollInterval of each host that has jobs
    InitCfg,    \* the one the scheduler is created with
    MaxTime,    \* bound on the clock
    Settle,     \* ticks from MaxTime in which the last sleep may not end
    MaxReloads  \* bound on the number of reloads

\* The interval buildEntries uses when none is configured: 60 s.
DefaultInterval == 120

ASSUME SchedulerAssumption ==
    /\ IsFiniteSet(Hosts)
    /\ \A c \in Cfgs : DOMAIN c \subseteq Hosts /\ \A h \in DOMAIN c : c[h] \in Int
    /\ InitCfg \in Cfgs
    /\ MaxTime \in Nat /\ Settle \in Nat
    /\ MaxReloads \in Nat

VARIABLES
    clock,
    entries,    \* per scheduled host: interval and next due time (nextRun)
    order,      \* the hosts in the order of the slice
    pc,         \* the loop: "top", "idle", "timer", "fire", "exited"
    wake,       \* when the current sleep ends
    now,        \* the loop's local now
    rpc, staged,\* Reload: "idle" or "built"; the entries it has built
    reloads,
    cancelled

loopVars   == <<pc, wake, now>>
reloadVars == <<rpc, staged, reloads>>
vars == <<clock, entries, order, loopVars, reloadVars, cancelled>>

\* All orders a slice of the hosts S can have.
Orders(S) ==
    {o \in [1..Cardinality(S) -> S] : \A i, j \in DOMAIN o : o[i] = o[j] => i = j}

\* Mutant of Build: a missing interval is taken as it is.
BuildRaw(c, t) == [h \in DOMAIN c |-> [interval |-> c[h], next |-> t]]

\* buildEntries: every host that has jobs is due at once.
Build(c, t) ==
    [h \in DOMAIN c |-> [interval |-> IF c[h] <= 0 THEN DefaultInterval ELSE c[h],
                         next |-> t]]

Sorted(o, e) ==
    \A i, j \in DOMAIN o : i < j => e[o[i]].next <= e[o[j]].next
-----------------------------------------------------------------------------
\* New; buildEntries ranges over a map, so the order is arbitrary.
Init ==
    /\ clock = 0
    /\ entries = Build(InitCfg, 0)
    /\ order \in Orders(DOMAIN InitCfg)
    /\ pc = "top"
    /\ wake = 0 /\ now = 0
    /\ rpc = "idle" /\ staged = Build(InitCfg, 0)
    /\ reloads = 0
    /\ cancelled = FALSE

\* No entries: wait half a second for a Reload.
LoopEmpty ==
    /\ pc = "top"
    /\ DOMAIN entries = {}
    /\ wake' = clock + 1
    /\ pc' = "idle"
    /\ UNCHANGED <<clock, entries, order, now, reloadVars, cancelled>>

IdleOver ==
    /\ pc = "idle"
    /\ clock >= wake
    /\ pc' = "top"
    /\ UNCHANGED <<clock, entries, order, wake, now, reloadVars, cancelled>>

\* Mutant of LoopSort: the slice is not sorted.
LoopSortNone ==
    /\ pc = "top"
    /\ DOMAIN entries # {}
    /\ wake' = entries[order[1]].next
    /\ pc' = "timer"
    /\ UNCHANGED <<clock, entries, order, now, reloadVars, cancelled>>

\* Mutant of LoopSort: the timer is set for the last entry.
LoopSortLast ==
    /\ pc = "top"
    /\ DOMAIN entries # {}
    /\ order' \in Orders(DOMAIN entries)
    /\ Sorted(order', entries)
    /\ wake' = entries[order'[Len(order')]].next
    /\ pc' = "timer"
    /\ UNCHANGED <<clock, entries, now, reloadVars, cancelled>>

\* Sort, and set the timer for the first entry.
LoopSort ==
    /\ pc = "top"
    /\ DOMAIN entries # {}
    /\ order' \in Orders(DOMAIN entries)
    /\ Sorted(order', entries)
    /\ wake' = entries[order'[1]].next
    /\ pc' = "timer"
    /\ UNCHANGED <<clock, entries, now, reloadVars, cancelled>>

\* The timer fires and the loop reads the clock, before it locks again.
TimerFires ==
    /\ pc = "timer"
    /\ clock >= wake
    /\ now' = clock
    /\ pc' = "fire"
    /\ UNCHANGED <<clock, entries, order, wake, reloadVars, cancelled>>

\* Mutant of Reached: only the first entry is fired.
ReachedFirst == {order[i] : i \in {k \in DOMAIN order : k = 1 /\ entries[order[k]].next <= now}}

\* The hosts the loop reaches before the break at the first that is not due.
Reached ==
    {order[i] : i \in {k \in DOMAIN order :
                          \A j \in 1..k : entries[order[j]].next <= now}}

\* Fire the due entries and give each its next due time.
Fire ==
    /\ pc = "fire"
    /\ entries' = [h \in DOMAIN entries |->
                     IF h \in Reached
                       THEN [entries[h] EXCEPT !.next = now + entries[h].interval]
                       ELSE entries[h]]
    /\ pc' = "top"
    /\ UNCHANGED <<clock, order, wake, now, reloadVars, cancelled>>

\* Mutant of Exit: the wait for a Reload ignores the context.
ExitTimerOnly ==
    /\ pc = "timer"
    /\ cancelled
    /\ pc' = "exited"
    /\ UNCHANGED <<clock, entries, order, wake, now, reloadVars, cancelled>>

\* ctx.Done() in either select.
Exit ==
    /\ pc \in {"idle", "timer"}
    /\ cancelled
    /\ pc' = "exited"
    /\ UNCHANGED <<clock, entries, order, wake, now, reloadVars, cancelled>>
-----------------------------------------------------------------------------
\* Reload builds the new entries without the lock ...
ReloadBuild(c) ==
    /\ rpc = "idle"
    /\ reloads < MaxReloads
    /\ staged' = Build(c, clock)
    /\ reloads' = reloads + 1
    /\ rpc' = "built"
    /\ UNCHANGED <<clock, entries, order, loopVars, cancelled>>

\* ... and installs them under it.
ReloadInstall ==
    /\ rpc = "built"
    /\ entries' = staged
    /\ order' \in Orders(DOMAIN staged)
    /\ rpc' = "idle"
    /\ UNCHANGED <<clock, loopVars, staged, reloads, cancelled>>

Tick ==
    /\ clock < MaxTime
    /\ clock' = clock + 1
    /\ UNCHANGED <<entries, order, loopVars, reloadVars, cancelled>>

Cancel ==
    /\ ~cancelled
    /\ cancelled' = TRUE
    /\ UNCHANGED <<clock, entries, order, loopVars, reloadVars>>

Loop == LoopEmpty \/ IdleOver \/ LoopSort \/ TimerFires \/ Fire

Next ==
    \/ Loop \/ Exit
    \/ \E c \in Cfgs : ReloadBuild(c)
    \/ ReloadInstall
    \/ Tick \/ Cancel

Spec == Init /\ [][Next]_vars

\* The loop runs when it can; time passes; a Reload that has built its entries
\* installs them; a select with two ready cases takes each sooner or later.
Fairness ==
    /\ WF_vars(Loop) /\ SF_vars(Exit)
    /\ WF_vars(ReloadInstall)
    /\ WF_vars(Tick)

FairSpec == Spec /\ Fairness
-----------------------------------------------------------------------------
Entry == [interval : Nat \ {0}, next : Int]

\* A scheduled set of hosts with its order.
Scheduled(e, o) ==
    /\ DOMAIN e \subseteq Hosts
    /\ \A h \in DOMAIN e : e[h] \in Entry
    /\ o \in Orders(DOMAIN e)

\* Every variable has the type of the Go value it stands for; the slice holds
\* every scheduled host once, and every interval is positive.
TypeOK ==
    /\ clock \in Nat
    /\ Scheduled(entries, order)
    /\ pc \in {"top", "idle", "timer", "fire", "exited"}
    /\ wake \in Int /\ now \in Int
    /\ rpc \in {"idle", "built"}
    /\ DOMAIN staged \subseteq Hosts /\ \A h \in DOMAIN staged : staged[h] \in Entry
    /\ reloads \in 0..MaxReloads
    /\ cancelled \in BOOLEAN

\* The break is sound: when the loop is about to fire, the slice is in order of
\* due time, although a Reload may have replaced it since it was sorted.
SortedAtFire == pc \in {"timer", "fire"} => Sorted(order, entries)

\* After the loop has fired, nothing that was due at its now is left: no entry
\* is passed over, and none becomes due again at once.
FiresAllDue ==
    [][pc = "fire" /\ pc' = "top" => \A h \in DOMAIN entries' : entries'[h].next > now]_vars

\* A host that is due is polled, or removed by a Reload, or the loop ends: not
\* even a Reload during the loop's sleep loses an entry.  (Hosts that become due
\* when the clock is about to stop are left out.)
DueIsPolled ==
    \A h \in Hosts :
       LET Due == h \in DOMAIN entries /\ entries[h].next <= clock /\ pc # "exited"
       IN  Due /\ clock + Settle <= MaxTime ~> ~Due

\* Cancelling the context ends the loop, so that Stop returns.
StopReturns == cancelled ~> pc = "exited"
=============================================================================
