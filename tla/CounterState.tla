---------------------------- MODULE CounterState ----------------------------
(***************************************************************************)
(* Counter deltas (producer/metrics/normalize.go) as Build                 *)
(* (producer/metrics/poll.go) uses them: poll results carry a cumulative   *)
(* counter of the device, and the producer turns each value into the       *)
(* increase since the value before it.                                     *)
(*                                                                         *)
(* One CounterKey is modelled, for keys do not interact.  The device       *)
(* counts without bound (total); its agent reports the count modulo the    *)
(* counter's width, and offers it as a Counter32, as a Counter64 or as     *)
(* both under one attribute name; when the device restarts, what it        *)
(* reports starts from zero again.  A poll reads the value, is stamped     *)
(* with CollectedAt when the answer has arrived, and reaches the producer  *)
(* some time later; the results of concurrent polls arrive in any order.   *)
(***************************************************************************)
EXTENDS Integers

CONSTANTS
    Pollers,   \* workers that may be polling this counter at the same time
    Mod32,     \* 2^32, scaled down
    Mod64,     \* 2^64, scaled down: also the modulus of uint64 arithmetic
    Offers,    \* the sets of syntaxes in which an agent may offer it
    Partial,   \* whether an answer may lack one of the syntaxes offered
    MaxTotal,  \* bound on the count
    MaxTime,   \* bound on the clock
    MaxReboots, \* bound on the restarts of the device
    NoEntry    \* no entry in CounterState.entries

Syntaxes == {"Counter32", "Counter64"}

ASSUME CounterAssumption ==
    /\ Mod32 \in Nat \ {0} /\ Mod64 \in Nat \ {0}
    /\ Mod32 < Mod64 /\ Mod64 % Mod32 = 0
    /\ Offers \subseteq (SUBSET Syntaxes) \ {{}}
    /\ Partial \in BOOLEAN
    /\ MaxTotal \in Nat /\ MaxTime \in Nat /\ MaxReboots \in Nat
    /\ NoEntry \notin [value : Nat, seenAt : Nat]

VARIABLES
    offer,    \* the syntaxes in which this device's agent offers the counter
    total,    \* what the device has counted, over all its restarts
    base,     \* the count at its last restart: it reports what came after
    boots,    \* how often it restarted
    clock,
    pc,       \* each poller: "idle", "read", "stamped"
    sample,   \* each poller's result in flight: what was read, when, in which syntaxes
    entry,    \* entries[key]
    last,     \* what the last value that reached the producer stood for
    emitted,  \* the DeltaResult of the last step, with the counts it lies between
    reported, \* the sum of the values emitted
    newest,   \* the highest count of which the producer has had the value
    upsets    \* deltas between values out of order, or not counted alike

device == <<offer, total, base, boots>>
history == <<last, reported, newest, upsets>>
vars == <<offer, total, base, boots, clock, pc, sample, entry,
          last, emitted, reported, newest, upsets>>

Modulus(syntax) == IF syntax = "Counter32" THEN Mod32 ELSE Mod64

\* Mutant of WrapForSyntax: the wide boundary for every counter.
WrapForSyntaxWide(syntax) == Mod64 - 1

WrapForSyntax(syntax) == Modulus(syntax) - 1

syntaxPriority(syntax) == IF syntax = "Counter64" THEN 20 ELSE 10

\* Build's override resolution among the varbinds of one name and instance.
Winner(view) ==
    CHOOSE s \in view : \A t \in view : syntaxPriority(t) <= syntaxPriority(s)

\* Mutant of Increase: no wrap detection, in signed arithmetic.
IncreaseSigned(prev, current, wrap) == current - prev

\* Delta's arithmetic, in uint64.
Increase(prev, current, wrap) ==
    IF current >= prev THEN current - prev
                       ELSE ((wrap - prev) + current + 1) % Mod64

NoDelta == [valid |-> FALSE, delta |-> 0,
            syntax |-> "Counter64", from |-> 0, to |-> 0, like |-> TRUE]

\* What the agent says when it has counted t since the restart at b.
Report(t, b, syntax) == (t - b) % Modulus(syntax)

NoSample == [total |-> 0, base |-> 0, at |-> 0, view |-> {}]

Nothing == [total |-> 0, base |-> 0, syntax |-> "Counter64"]
-----------------------------------------------------------------------------
\* NewCounterState
Init ==
    /\ offer \in Offers
    /\ total = 0 /\ base = 0 /\ boots = 0 /\ clock = 0
    /\ pc = [p \in Pollers |-> "idle"]
    /\ sample = [p \in Pollers |-> NoSample]
    /\ entry = NoEntry
    /\ last = Nothing /\ emitted = NoDelta
    /\ reported = 0 /\ newest = 0 /\ upsets = 0

\* A step in which the producer takes no value.
NoResult == emitted' = NoDelta /\ UNCHANGED history

\* The device counts.
Grow ==
    /\ total < MaxTotal
    /\ total' = total + 1
    /\ UNCHANGED <<offer, base, boots, clock, pc, sample, entry>>
    /\ NoResult

\* The device restarts, and its counter with it.
Reboot ==
    /\ boots < MaxReboots
    /\ boots' = boots + 1
    /\ base' = total
    /\ UNCHANGED <<offer, total, clock, pc, sample, entry>>
    /\ NoResult

Tick ==
    /\ clock < MaxTime
    /\ clock' = clock + 1
    /\ UNCHANGED <<device, pc, sample, entry>>
    /\ NoResult

\* The agent answers the request of a poll.
Read(p, view) ==
    /\ pc[p] = "idle"
    /\ IF Partial THEN view \subseteq offer ELSE view = offer
    /\ sample' = [sample EXCEPT ![p] =
                    [total |-> total, base |-> base, at |-> 0, view |-> view]]
    /\ pc' = [pc EXCEPT ![p] = "read"]
    /\ UNCHANGED <<device, clock, entry>>
    /\ NoResult

\* Poll sets CollectedAt once the answer is complete.
Stamp(p) ==
    /\ pc[p] = "read"
    /\ sample' = [sample EXCEPT ![p].at = clock]
    /\ pc' = [pc EXCEPT ![p] = "stamped"]
    /\ UNCHANGED <<device, clock, entry>>
    /\ NoResult

\* The entry for a value of sample s, and the result of comparing it with the
\* entry before.
Entry(s, syntax) == [value |-> Report(s.total, s.base, syntax), seenAt |-> s.at]

Result(s, syntax) ==
    LET current == Report(s.total, s.base, syntax)
    IN  [valid |-> TRUE,
         delta |-> Increase(entry.value, current, WrapForSyntax(syntax)),
         syntax |-> syntax, from |-> last.total, to |-> s.total,
         like |-> last.syntax = syntax /\ last.base = s.base]

\* Mutant of Delta: a value is recorded only when there was none.
DeltaSeedOnly(s, syntax) ==
    /\ entry' = IF entry = NoEntry THEN Entry(s, syntax) ELSE entry
    /\ emitted' = IF entry # NoEntry /\ s.at > entry.seenAt
                    THEN Result(s, syntax) ELSE NoDelta

\* Delta: records the value and compares it with the one before, if that is
\* older.
Delta(s, syntax) ==
    /\ entry' = Entry(s, syntax)
    /\ emitted' = IF entry # NoEntry /\ s.at > entry.seenAt
                    THEN Result(s, syntax) ELSE NoDelta

\* A delta from or to a value that a later one overtook, or between values of
\* different widths or from before and after a restart.
Upset(d) == d.valid /\ (d.from < newest \/ d.to < newest \/ ~d.like)

\* Build for this counter: the winning varbind's delta is emitted, or 0.
Build(p) ==
    /\ pc[p] = "stamped"
    /\ Delta(sample[p], Winner(sample[p].view))
    /\ last' = [total |-> sample[p].total, base |-> sample[p].base,
                syntax |-> Winner(sample[p].view)]
    /\ newest' = IF sample[p].total < newest THEN newest ELSE sample[p].total
    /\ upsets' = IF Upset(emitted') THEN upsets + 1 ELSE upsets
    /\ reported' = reported + emitted'.delta
    /\ pc' = [pc EXCEPT ![p] = "idle"]
    /\ sample' = [sample EXCEPT ![p] = NoSample]
    /\ UNCHANGED <<device, clock>>

\* Remove, for a device that leaves the inventory.
Remove ==
    /\ entry # NoEntry
    /\ entry' = NoEntry
    /\ UNCHANGED <<device, clock, pc, sample>>
    /\ NoResult

\* Purge removes an entry whose last observation is older than maxAge.
Purge(maxAge) ==
    /\ entry # NoEntry
    /\ entry.seenAt < clock - maxAge
    /\ entry' = NoEntry
    /\ UNCHANGED <<device, clock, pc, sample>>
    /\ NoResult

Next ==
    \/ Grow \/ Reboot \/ Tick
    \/ \E p \in Pollers : \/ \E view \in (SUBSET Syntaxes) \ {{}} : Read(p, view)
                          \/ Stamp(p) \/ Build(p)
    \/ Remove
    \/ \E maxAge \in 0..MaxTime : Purge(maxAge)

Spec == Init /\ [][Next]_vars
-----------------------------------------------------------------------------
\* Every variable has the type of the Go value it stands for; the delta is a
\* uint64.
TypeOK ==
    /\ offer \in Offers
    /\ total \in 0..MaxTotal /\ base \in 0..total
    /\ boots \in 0..MaxReboots /\ clock \in 0..MaxTime
    /\ pc \in [Pollers -> {"idle", "read", "stamped"}]
    /\ sample \in [Pollers -> [total : Nat, base : Nat, at : Nat, view : SUBSET Syntaxes]]
    /\ entry \in [value : 0..(Mod64 - 1), seenAt : Nat] \cup {NoEntry}
    /\ last \in [total : Nat, base : Nat, syntax : Syntaxes]
    /\ emitted \in [valid : BOOLEAN, delta : 0..(Mod64 - 1),
                    syntax : Syntaxes, from : Nat, to : Nat, like : BOOLEAN]
    /\ reported \in Nat /\ newest \in Nat /\ upsets \in Nat

\* Two values in the order in which they were read, less than one turn apart.
WithinATurn ==
    /\ emitted.valid
    /\ emitted.to - emitted.from \in 0..(Modulus(emitted.syntax) - 1)

\* Between two values of one width that the device counted without a restart,
\* a delta is what it counted between them, across a wrap of the counter too,
\* whatever overlapping polls, missing rows, purges and removals came before.
DeltaIsIncrease ==
    WithinATurn /\ emitted.like => emitted.delta = emitted.to - emitted.from

\* Nothing is counted twice: the emitted deltas add up to no more than the
\* device has counted, whatever is purged or removed in between and however
\* often the counter turned over.  A delta that is upset, by a value overtaken,
\* of another width or from before a restart, adds at most one uint64 to that,
\* and leaves nothing behind that makes a later one wrong.
NeverOverReports == reported <= total + (Mod64 - 1) * upsets

\* What the delta's documentation says of every value: "the computed increase
\* in counter value since the last sample" (normalize.go:48).  It is violated
\* when the value before was of the other width.
DeltaSinceLast == WithinATurn => emitted.delta = emitted.to - emitted.from
=============================================================================
