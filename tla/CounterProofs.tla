---------------------------- MODULE CounterProofs ----------------------------
(***************************************************************************)
(* Proofs about CounterState, for any counter widths, any count and any    *)
(* number of turns of the counter.                                         *)
(*                                                                         *)
(* The core is arithmetic: what Delta computes from two reported values is *)
(* the increase of the count behind them, less whole turns of the counter. *)
(* Around it, the invariant relates the entry to what its value stood for  *)
(* and charges each delta either to the counts that it adds to the newest  *)
(* one or to an upset: no assumption is made about how polls overlap, what *)
(* their answers lack, or when the device restarts.                        *)
(***************************************************************************)
EXTENDS CounterState, TLAPS

-----------------------------------------------------------------------------
(* Arithmetic *)

\* Remainder and quotient.
LEMMA DivMod ==
    ASSUME NEW n \in Int, n > 0, NEW a \in Int
    PROVE  a % n \in 0..(n - 1) /\ a \div n \in Int /\ a = n * (a \div n) + (a % n)
<1>1. a % n \in 0..(n - 1) /\ a \div n \in Int
  OBVIOUS
<1>2. a = n * (a \div n) + (a % n)
  OBVIOUS
<1> QED BY <1>1, <1>2

\* A whole number of turns is none or at least one.
LEMMA Turns ==
    ASSUME NEW n \in Int, n > 0, NEW k \in Int
    PROVE  /\ n * k \in Int
           /\ k = 0 => n * k = 0
           /\ k = 1 => n * k = n
           /\ k >= 1 => n * k >= n
           /\ k >= 2 => n * k >= 2 * n
           /\ k <= -1 => n * k <= -n
OBVIOUS

\* What is below the modulus is its own remainder.
LEMMA SmallMod ==
    ASSUME NEW n \in Int, n > 0, NEW a \in 0..(n - 1)
    PROVE  a % n = a
OBVIOUS

\* The wrap arithmetic of Delta, for two counts a <= b that a counter of
\* modulus n reports: never more than the increase, and equal to it when the
\* counter has turned over at most once.
LEMMA IncreaseIsDifference ==
    ASSUME NEW n \in Int, n > 0, n <= Mod64, NEW a \in Nat, NEW b \in Nat, a <= b
    PROVE  /\ Increase(a % n, b % n, n - 1) \in 0..(n - 1)
           /\ Increase(a % n, b % n, n - 1) <= b - a
           /\ b - a < n => Increase(a % n, b % n, n - 1) = b - a
<1> DEFINE k == (b \div n) - (a \div n)
           prev == a % n
           cur  == b % n
<1>1. /\ prev \in 0..(n - 1) /\ cur \in 0..(n - 1)
      /\ a \div n \in Int /\ b \div n \in Int
      /\ a = n * (a \div n) + prev /\ b = n * (b \div n) + cur
  BY DivMod
<1>2. k \in Int
  BY <1>1
<1>3. n * k = (n * (b \div n)) - (n * (a \div n))
  BY <1>1
<1>4. /\ n * (b \div n) \in Int /\ n * (a \div n) \in Int
  BY <1>1, Turns
<1>5. n * k = (b - a) - (cur - prev)
  BY <1>1, <1>3, <1>4
<1>6. Mod64 \in Int /\ Mod64 > 0
  BY CounterAssumption
<1> HIDE DEF prev, cur, k
<1>7. CASE cur >= prev
  <2>1. Increase(prev, cur, n - 1) = cur - prev
    BY <1>7 DEF Increase
  <2>2. k >= 0
    BY <1>1, <1>2, <1>5, <1>7, Turns
  <2>3. n * k >= 0
    BY <1>2, <2>2, Turns
  <2>4. b - a < n => k = 0
    BY <1>1, <1>2, <1>5, <1>7, <2>2, Turns
  <2>5. b - a < n => n * k = 0
    BY <1>2, <2>4, Turns
  <2> QED BY <1>1, <1>2, <1>5, <1>7, <2>1, <2>3, <2>5 DEF prev, cur
<1>8. CASE cur < prev
  <2>1. ((n - 1) - prev) + cur + 1 \in 0..(Mod64 - 1)
    BY <1>1, <1>6, <1>8
  <2>2. Increase(prev, cur, n - 1) = ((n - 1) - prev) + cur + 1
    BY <1>1, <1>6, <1>8, <2>1, SmallMod DEF Increase
  <2>3. k >= 1
    BY <1>1, <1>2, <1>5, <1>8, Turns
  <2>4. n * k >= n
    BY <1>2, <2>3, Turns
  <2>5. b - a < n => k = 1
    BY <1>1, <1>2, <1>5, <1>8, <2>3, Turns
  <2>6. b - a < n => n * k = n
    BY <1>2, <2>5, Turns
  <2> QED BY <1>1, <1>2, <1>5, <1>8, <2>2, <2>4, <2>6 DEF prev, cur
<1> QED BY <1>1, <1>7, <1>8
-----------------------------------------------------------------------------
(* Types *)

\* The override resolution picks one of the syntaxes of an answer.
LEMMA WinnerType ==
    ASSUME NEW view \in SUBSET Syntaxes, view # {}
    PROVE  Winner(view) \in view /\ Winner(view) \in Syntaxes
<1>1. \E s \in view : \A t \in view : syntaxPriority(t) <= syntaxPriority(s)
  <2>1. \A t \in view : t = "Counter32" \/ t = "Counter64"
    BY DEF Syntaxes
  <2>2. CASE "Counter64" \in view
    BY <2>1, <2>2 DEF syntaxPriority
  <2>3. CASE "Counter64" \notin view
    <3>1. "Counter32" \in view /\ \A t \in view : t = "Counter32"
      BY <2>1, <2>3
    <3> QED BY <3>1 DEF syntaxPriority
  <2> QED BY <2>2, <2>3
<1> QED BY <1>1 DEF Winner

\* The width of a counter is positive and at most 64 bits.
LEMMA ModulusType ==
    ASSUME NEW s \in Syntaxes
    PROVE  Modulus(s) \in Int /\ Modulus(s) > 0 /\ Modulus(s) <= Mod64
BY CounterAssumption DEF Modulus, Syntaxes

\* Delta's result is a uint64, whatever values and boundary it is given.
LEMMA IncreaseType ==
    ASSUME NEW a \in 0..(Mod64 - 1), NEW b \in 0..(Mod64 - 1), NEW w \in Int
    PROVE  Increase(a, b, w) \in 0..(Mod64 - 1)
<1>1. Mod64 \in Int /\ Mod64 > 0 /\ ((w - a) + b + 1) \in Int
  BY CounterAssumption
<1>2. ((w - a) + b + 1) % Mod64 \in 0..(Mod64 - 1)
  BY <1>1, DivMod
<1>3. b >= a => b - a \in 0..(Mod64 - 1)
  BY <1>1
<1> QED BY <1>2, <1>3 DEF Increase

\* A value in flight has a syntax, and is a count of the device since a restart.
Answered ==
    \A p \in Pollers : pc[p] # "idle" =>
       /\ sample[p].view # {}
       /\ sample[p].base <= sample[p].total /\ sample[p].total <= total

\* The entry's value is what the agent reported for the last count.
EntryFaithful ==
    /\ last.base <= last.total /\ last.total <= newest /\ newest <= total
    /\ entry # NoEntry => entry.value = Report(last.total, last.base, last.syntax)

\* What is reported beyond the newest count is made up for by upsets.
Charged == reported <= newest + (Mod64 - 1) * upsets

IInv == TypeOK /\ Answered /\ EntryFaithful /\ DeltaIsIncrease /\ Charged

\* What an agent reports fits the width of its counter.
LEMMA ReportType ==
    ASSUME NEW t \in Nat, NEW b \in Nat, b <= t, NEW x \in Syntaxes
    PROVE  Report(t, b, x) \in 0..(Modulus(x) - 1) /\ Report(t, b, x) \in 0..(Mod64 - 1)
<1>1. Modulus(x) \in Int /\ Modulus(x) > 0 /\ Modulus(x) <= Mod64 /\ Mod64 \in Int
  BY ModulusType, CounterAssumption
<1>2. (t - b) % Modulus(x) \in 0..(Modulus(x) - 1)
  BY <1>1, DivMod
<1> QED BY <1>1, <1>2 DEF Report

\* Two reports of one width and one restart, in order: the delta is never more
\* than the difference of the counts, and equal to it within one turn.
LEMMA ReportIncrease ==
    ASSUME NEW f \in Nat, NEW t \in Nat, NEW b \in Nat, b <= f, f <= t,
           NEW x \in Syntaxes
    PROVE  /\ Increase(Report(f, b, x), Report(t, b, x), WrapForSyntax(x)) <= t - f
           /\ t - f < Modulus(x) =>
                Increase(Report(f, b, x), Report(t, b, x), WrapForSyntax(x)) = t - f
<1> DEFINE n == Modulus(x)
           c == f - b
           d == t - b
<1>1. n \in Int /\ n > 0 /\ n <= Mod64 /\ WrapForSyntax(x) = n - 1
  BY ModulusType DEF WrapForSyntax
<1>2. c \in Nat /\ d \in Nat /\ c <= d /\ d - c = t - f
  OBVIOUS
<1>3. Report(f, b, x) = c % n /\ Report(t, b, x) = d % n
  BY DEF Report
<1> HIDE DEF n, c, d
<1>4. /\ Increase(c % n, d % n, n - 1) <= d - c
      /\ d - c < n => Increase(c % n, d % n, n - 1) = d - c
  BY <1>1, <1>2, IncreaseIsDifference
<1> QED BY <1>1, <1>2, <1>3, <1>4 DEF n

\* Another upset raises the charge by one uint64.
LEMMA Charge ==
    ASSUME NEW u \in Nat
    PROVE  /\ (Mod64 - 1) * u \in Nat
           /\ (Mod64 - 1) * (u + 1) = (Mod64 - 1) * u + (Mod64 - 1)
<1>1. Mod64 - 1 \in Nat
  BY CounterAssumption
<1> DEFINE m == Mod64 - 1
<1> HIDE DEF m
<1>2. ASSUME NEW k \in Nat PROVE k * u \in Nat /\ k * (u + 1) = k * u + k
  OBVIOUS
<1> QED BY <1>1, <1>2

\* An empty counter state satisfies the invariant.
LEMMA InitIInv == Init => IInv
<1> SUFFICES ASSUME Init PROVE IInv
  OBVIOUS
<1>1. 0 \in 0..MaxTotal /\ 0 \in 0..MaxTime /\ 0 \in 0..MaxReboots /\ 0 \in 0..(Mod64 - 1)
  BY CounterAssumption
<1>2. sample \in [Pollers -> [total : Nat, base : Nat, at : Nat, view : SUBSET Syntaxes]]
  BY DEF Init, NoSample
<1>3. emitted \in [valid : BOOLEAN, delta : 0..(Mod64 - 1),
                   syntax : Syntaxes, from : Nat, to : Nat, like : BOOLEAN]
  BY <1>1 DEF Init, NoDelta, Syntaxes
<1>4. last \in [total : Nat, base : Nat, syntax : Syntaxes]
  BY DEF Init, Nothing, Syntaxes
<1>5. TypeOK
  BY <1>1, <1>2, <1>3, <1>4 DEF Init, TypeOK
<1>6. Answered
  BY DEF Init, Answered
<1>7. EntryFaithful
  BY DEF Init, Nothing, EntryFaithful
<1>8. DeltaIsIncrease
  BY DEF Init, NoDelta, WithinATurn, DeltaIsIncrease
<1>9. Charged
  <2>1. (Mod64 - 1) * 0 \in Nat
    BY Charge
  <2> QED BY <2>1 DEF Init, Charged
<1> QED BY <1>5, <1>6, <1>7, <1>8, <1>9 DEF IInv

\* The fields of a result.
LEMMA ResultFields ==
    ASSUME NEW s, NEW x
    PROVE  /\ Result(s, x).valid
           /\ Result(s, x).from = last.total /\ Result(s, x).to = s.total
           /\ Result(s, x).syntax = x
           /\ Result(s, x).like <=> last.syntax = x /\ last.base = s.base
<1> DEFINE alike == last.syntax = x /\ last.base = s.base
           d == Increase(entry.value, Report(s.total, s.base, x), WrapForSyntax(x))
<1>1. Result(s, x) = [valid |-> TRUE, delta |-> d, syntax |-> x,
                      from |-> last.total, to |-> s.total, like |-> alike]
  BY DEF Result
<1> HIDE DEF alike, d
<1>2. /\ Result(s, x).valid = TRUE /\ Result(s, x).syntax = x
      /\ Result(s, x).from = last.total /\ Result(s, x).to = s.total
      /\ Result(s, x).like = alike
  BY <1>1
<1> QED BY <1>2 DEF alike

\* What a Build records and emits.
LEMMA BuildIInv == ASSUME IInv, NEW p \in Pollers, Build(p) PROVE IInv'
<1> DEFINE s == sample[p]
           x == Winner(s.view)
           valid == entry # NoEntry /\ s.at > entry.seenAt
           d == Increase(entry.value, Report(s.total, s.base, x), WrapForSyntax(x))
           next == IF s.total < newest THEN newest ELSE s.total
<1> USE DEF IInv
<1>1. /\ s \in [total : Nat, base : Nat, at : Nat, view : SUBSET Syntaxes]
      /\ s.view # {} /\ s.base <= s.total /\ s.total <= total /\ pc[p] = "stamped"
  BY DEF TypeOK, Answered, Build
<1>2. x \in Syntaxes
  BY <1>1, WinnerType
<1>3. Report(s.total, s.base, x) \in 0..(Mod64 - 1)
  BY <1>1, <1>2, ReportType
<1>4. /\ entry' = Entry(s, x)
      /\ emitted' = IF valid THEN Result(s, x) ELSE NoDelta
      /\ last' = [total |-> s.total, base |-> s.base, syntax |-> x]
      /\ newest' = next
      /\ reported' = reported + emitted'.delta
      /\ upsets' = IF Upset(emitted') THEN upsets + 1 ELSE upsets
      /\ pc' = [pc EXCEPT ![p] = "idle"]
      /\ sample' = [sample EXCEPT ![p] = NoSample]
      /\ UNCHANGED <<offer, total, base, boots, clock>>
  BY DEF Build, Delta, device
<1>5. Result(s, x) = [valid |-> TRUE, delta |-> d, syntax |-> x,
                      from |-> last.total, to |-> s.total,
                      like |-> last.syntax = x /\ last.base = s.base]
  BY DEF Result
<1>6. Entry(s, x) = [value |-> Report(s.total, s.base, x), seenAt |-> s.at]
  BY DEF Entry
<1>7. /\ last.total \in Nat /\ last.base \in Nat /\ last.syntax \in Syntaxes
      /\ newest \in Nat /\ total \in Nat /\ reported \in Nat /\ upsets \in Nat
      /\ last.base <= last.total /\ last.total <= newest /\ newest <= total
      /\ reported <= newest + (Mod64 - 1) * upsets
  BY CounterAssumption DEF TypeOK, EntryFaithful, Charged
<1>8. valid => entry.value \in 0..(Mod64 - 1) /\ entry.value = Report(last.total, last.base, last.syntax)
  BY DEF TypeOK, EntryFaithful
<1>9. WrapForSyntax(x) \in Int /\ Modulus(x) \in Int
  BY <1>2, ModulusType DEF WrapForSyntax
<1>10. pc' \in [Pollers -> {"idle", "read", "stamped"}] /\ \A q \in Pollers : q # p => pc'[q] = pc[q]
  BY <1>4 DEF TypeOK
<1> HIDE DEF s, x
<1>11. valid => d \in 0..(Mod64 - 1)
  <2> HIDE DEF valid
  <2> QED BY <1>3, <1>8, <1>9, IncreaseType
<1> HIDE DEF d
<1>12. entry' \in [value : 0..(Mod64 - 1), seenAt : Nat] /\ entry' # NoEntry
  <2>1. entry' \in [value : 0..(Mod64 - 1), seenAt : Nat]
    BY <1>1, <1>3, <1>4, <1>6
  <2>2. entry' \in [value : Nat, seenAt : Nat]
    BY <2>1, CounterAssumption
  <2> QED BY <2>1, <2>2, CounterAssumption
<1>13. emitted' \in [valid : BOOLEAN, delta : 0..(Mod64 - 1),
                     syntax : Syntaxes, from : Nat, to : Nat, like : BOOLEAN]
  <2>1. CASE valid
    <3>1. (Report(s.total, s.base, x) < entry.value) \in BOOLEAN
          /\ (last.syntax = x /\ last.base = s.base) \in BOOLEAN
      OBVIOUS
    <3> HIDE DEF valid
    <3> QED BY <1>1, <1>2, <1>4, <1>5, <1>7, <1>11, <2>1, <3>1
  <2>2. CASE ~valid
    BY <1>4, <2>2, CounterAssumption DEF NoDelta, Syntaxes
  <2> QED BY <2>1, <2>2
<1>14. TypeOK'
  <2>1. sample' \in [Pollers -> [total : Nat, base : Nat, at : Nat, view : SUBSET Syntaxes]]
    <3>1. NoSample \in [total : Nat, base : Nat, at : Nat, view : SUBSET Syntaxes]
      BY DEF NoSample
    <3> QED BY <1>4, <3>1 DEF TypeOK
  <2>2. last' \in [total : Nat, base : Nat, syntax : Syntaxes]
    BY <1>1, <1>2, <1>4
  <2>3. newest' \in Nat /\ upsets' \in Nat
    BY <1>1, <1>4, <1>7
  <2>4. reported' \in Nat
    <3>1. emitted'.delta \in Nat
      BY <1>13, CounterAssumption
    <3> QED BY <1>4, <1>7, <3>1
  <2> QED BY <1>4, <1>10, <1>12, <1>13, <2>1, <2>2, <2>3, <2>4 DEF TypeOK
<1>15. Answered'
  BY <1>4, <1>10 DEF Answered, TypeOK
<1>16. next \in Nat /\ s.total <= next /\ newest <= next /\ next <= total
  BY <1>1, <1>7
<1>17. EntryFaithful'
  BY <1>1, <1>4, <1>6, <1>16 DEF EntryFaithful
<1>18. last.total <= s.total /\ last.syntax = x /\ last.base = s.base /\ valid
          => /\ d <= s.total - last.total
             /\ s.total - last.total < Modulus(x) => d = s.total - last.total
  BY <1>1, <1>2, <1>7, <1>8, ReportIncrease DEF d
<1>19. DeltaIsIncrease'
  <2> SUFFICES ASSUME WithinATurn', emitted'.like PROVE emitted'.delta = emitted'.to - emitted'.from
    BY DEF DeltaIsIncrease
  <2>1. valid
    BY <1>4 DEF WithinATurn, NoDelta
  <2>2. /\ emitted'.from = last.total /\ emitted'.to = s.total /\ emitted'.delta = d
        /\ emitted'.syntax = x /\ last.syntax = x /\ last.base = s.base
    <3>1. emitted' = Result(s, x)
      BY <1>4, <2>1
    <3>2. emitted'.like <=> last.syntax = x /\ last.base = s.base
      BY <3>1, ResultFields
    <3> QED BY <1>5, <3>1, <3>2
  <2>3. s.total - last.total \in 0..(Modulus(x) - 1)
    BY <2>2 DEF WithinATurn
  <2>4. last.total <= s.total /\ s.total - last.total < Modulus(x)
    BY <1>1, <1>7, <1>9, <2>3
  <2> QED BY <1>18, <2>1, <2>2, <2>4
<1>20. Charged'
  <2> DEFINE charge == (Mod64 - 1) * upsets
  <2>1. charge \in Nat /\ (Mod64 - 1) * (upsets + 1) = charge + (Mod64 - 1)
    BY <1>7, Charge
  <2>2. reported <= newest + charge
    BY <1>7
  <2> SUFFICES reported' <= next + (Mod64 - 1) * upsets'
    BY <1>4 DEF Charged
  <2> HIDE DEF charge, next
  <2>3. CASE ~valid
    <3>1. emitted' = NoDelta /\ upsets' = upsets
      BY <1>4, <2>3 DEF Upset, NoDelta
    <3>2. reported' = reported
      BY <1>4, <1>7, <3>1 DEF NoDelta
    <3>3. reported' <= next + charge
      BY <1>7, <1>16, <2>1, <2>2, <3>2
    <3> QED BY <3>1, <3>3 DEF charge
  <2>4. CASE valid /\ Upset(emitted')
    <3>1. reported' = reported + d /\ d \in 0..(Mod64 - 1)
      BY <1>4, <1>5, <1>11, <2>4
    <3>2. reported' <= next + (charge + (Mod64 - 1))
      BY <1>7, <1>16, <2>1, <2>2, <3>1, CounterAssumption
    <3> QED BY <1>4, <2>1, <2>4, <3>2
  <2>5. CASE valid /\ ~Upset(emitted')
    <3>1. emitted' = Result(s, x)
      BY <1>4, <2>5
    <3>2. /\ last.syntax = x /\ last.base = s.base
          /\ ~(last.total < newest) /\ ~(s.total < newest) /\ emitted'.delta = d
      <4>1. emitted'.like <=> last.syntax = x /\ last.base = s.base
        BY <3>1, ResultFields
      <4>2. /\ emitted'.valid /\ emitted'.from = last.total
            /\ emitted'.to = s.total
        BY <3>1, ResultFields
      <4>3. ~(emitted'.from < newest) /\ ~(emitted'.to < newest) /\ emitted'.like
        BY <2>5, <4>2, Zenon DEF Upset
      <4>4. emitted'.delta = d
        BY <1>5, <3>1
      <4> QED BY <4>1, <4>2, <4>3, <4>4
    <3>3. last.total = newest /\ newest <= s.total /\ next = s.total
      BY <1>1, <1>7, <3>2 DEF next
    <3>4. d <= s.total - last.total /\ d \in 0..(Mod64 - 1)
      <4> HIDE DEF valid
      <4> QED BY <1>11, <1>18, <2>5, <3>2, <3>3
    <3>5. reported' = reported + d /\ upsets' = upsets
      BY <1>4, <2>5, <3>2
    <3>6. reported' <= next + charge
      BY <1>1, <1>7, <2>1, <2>2, <3>3, <3>4, <3>5, CounterAssumption
    <3> QED BY <3>5, <3>6 DEF charge
  <2> QED BY <2>3, <2>4, <2>5
<1> QED BY <1>14, <1>15, <1>17, <1>19, <1>20

\* Steps that leave what the producer has seen, and the device, as they are.
LEMMA SeenUnchanged ==
    ASSUME EntryFaithful, DeltaIsIncrease, Charged,
           UNCHANGED history, emitted' = emitted \/ emitted' = NoDelta,
           entry' = entry \/ entry' = NoEntry, total' = total
    PROVE  EntryFaithful' /\ DeltaIsIncrease' /\ Charged'
<1>1. EntryFaithful'
  BY DEF history, EntryFaithful
<1>2. DeltaIsIncrease'
  BY DEF DeltaIsIncrease, WithinATurn, NoDelta
<1>3. Charged'
  BY DEF history, Charged
<1> QED BY <1>1, <1>2, <1>3

\* Every step keeps the invariant.
LEMMA NextIInv == IInv /\ [Next]_vars => IInv'
<1> SUFFICES ASSUME IInv, [Next]_vars PROVE IInv'
  OBVIOUS
<1> USE DEF IInv, NoResult
<1>0. NoDelta \in [valid : BOOLEAN, delta : 0..(Mod64 - 1),
                    syntax : Syntaxes, from : Nat, to : Nat, like : BOOLEAN]
  BY CounterAssumption DEF NoDelta, Syntaxes
<1>1. CASE Grow
  <2> USE <1>1 DEF Grow
  <2>1. TypeOK'
    BY <1>0, CounterAssumption DEF TypeOK, history
  <2>2. Answered' /\ EntryFaithful'
    BY CounterAssumption DEF TypeOK, Answered, EntryFaithful, history
  <2>3. DeltaIsIncrease' /\ Charged'
    BY DEF DeltaIsIncrease, WithinATurn, NoDelta, Charged, history
  <2> QED BY <2>1, <2>2, <2>3
<1>2. CASE Reboot
  <2>1. TypeOK'
    BY <1>0, <1>2, CounterAssumption DEF Reboot, TypeOK, history
  <2>2. Answered' /\ emitted' = NoDelta /\ UNCHANGED <<history, entry, total>>
    BY <1>2 DEF Reboot, Answered, history
  <2> QED BY <2>1, <2>2, SeenUnchanged
<1>3. CASE Tick
  <2>1. TypeOK'
    BY <1>0, <1>3, CounterAssumption DEF Tick, TypeOK, history, device
  <2>2. Answered' /\ emitted' = NoDelta /\ UNCHANGED <<history, entry, total>>
    BY <1>3 DEF Tick, Answered, history, device
  <2> QED BY <2>1, <2>2, SeenUnchanged
<1>4. ASSUME NEW p \in Pollers, NEW view \in (SUBSET Syntaxes) \ {{}}, Read(p, view)
      PROVE  IInv'
  <2> USE <1>4 DEF Read
  <2>1. /\ total \in Nat /\ base \in Nat /\ base <= total
        /\ emitted' = NoDelta /\ UNCHANGED <<history, entry, total, device, clock>>
    BY CounterAssumption DEF TypeOK, device
  <2>2. [total |-> total, base |-> base, at |-> 0, view |-> view]
          \in [total : Nat, base : Nat, at : Nat, view : SUBSET Syntaxes]
    BY <2>1
  <2>3. TypeOK'
    BY <1>0, <2>1, <2>2 DEF TypeOK, history, device
  <2>4. Answered'
    BY <2>1 DEF Answered, TypeOK
  <2> QED BY <2>1, <2>3, <2>4, SeenUnchanged
<1>5. ASSUME NEW p \in Pollers, Stamp(p) PROVE IInv'
  <2> USE <1>5 DEF Stamp
  <2>1. clock \in Nat /\ emitted' = NoDelta /\ UNCHANGED <<history, entry, total, device, clock>>
    BY CounterAssumption DEF TypeOK, device
  <2>2. sample' \in [Pollers -> [total : Nat, base : Nat, at : Nat, view : SUBSET Syntaxes]]
    BY <2>1 DEF TypeOK
  <2>3. TypeOK'
    BY <1>0, <2>1, <2>2 DEF TypeOK, history, device
  <2>4. Answered'
    BY <2>1 DEF Answered, TypeOK
  <2> QED BY <2>1, <2>3, <2>4, SeenUnchanged
<1>6. ASSUME NEW p \in Pollers, Build(p) PROVE IInv'
  BY <1>6, BuildIInv
<1>7. CASE Remove
  <2>1. TypeOK'
    BY <1>0, <1>7 DEF Remove, TypeOK, history, device
  <2>2. Answered' /\ emitted' = NoDelta /\ UNCHANGED <<history, total>> /\ entry' = NoEntry
    BY <1>7 DEF Remove, Answered, device
  <2> QED BY <2>1, <2>2, SeenUnchanged
<1>8. ASSUME NEW maxAge \in 0..MaxTime, Purge(maxAge) PROVE IInv'
  <2>1. TypeOK'
    BY <1>0, <1>8 DEF Purge, TypeOK, history, device
  <2>2. Answered' /\ emitted' = NoDelta /\ UNCHANGED <<history, total>> /\ entry' = NoEntry
    BY <1>8 DEF Purge, Answered, device
  <2> QED BY <2>1, <2>2, SeenUnchanged
<1>9. CASE UNCHANGED vars
  <2>1. TypeOK'
    BY <1>9 DEF vars, TypeOK
  <2>2. Answered' /\ UNCHANGED <<history, emitted, total, entry>>
    BY <1>9 DEF vars, Answered, history
  <2> QED BY <2>1, <2>2, SeenUnchanged
<1> QED BY <1>1, <1>2, <1>3, <1>4, <1>5, <1>6, <1>7, <1>8, <1>9 DEF Next

\* The invariant holds in every reachable state.
LEMMA Invariance == Spec => []IInv
BY InitIInv, NextIInv, PTL DEF Spec

\* The counter state stays of its type for any number of overlapping polls, any
\* mix of syntaxes and any restarts; every delta is a uint64.
THEOREM TypeCorrect == Spec => []TypeOK
<1>1. IInv => TypeOK
  BY DEF IInv
<1> QED BY <1>1, Invariance, PTL

\* Between two values of one width and one restart, in the order in which they
\* were read, a delta is exactly what the device counted, up to one whole turn
\* of the counter: for every width and count, and however many polls overlap,
\* rows are missing, entries are purged and restarts happen before or after.
THEOREM DeltaCorrect == Spec => []DeltaIsIncrease
<1>1. IInv => DeltaIsIncrease
  BY DEF IInv
<1> QED BY <1>1, Invariance, PTL

\* The deltas emitted add up to no more than the device has counted and one
\* uint64 for each upset, through any purges, removals, restarts, overlapping
\* polls and turns of the counter.
THEOREM NeverOverCorrect == Spec => []NeverOverReports
<1>1. IInv => NeverOverReports
  <2> SUFFICES ASSUME IInv PROVE NeverOverReports
    OBVIOUS
  <2>1. /\ reported \in Nat /\ newest \in Nat /\ total \in Nat /\ upsets \in Nat
        /\ newest <= total /\ reported <= newest + (Mod64 - 1) * upsets
    BY CounterAssumption DEF IInv, TypeOK, EntryFaithful, Charged
  <2>2. (Mod64 - 1) * upsets \in Nat
    BY <2>1, Charge
  <2> QED BY <2>1, <2>2 DEF NeverOverReports
<1> QED BY <1>1, Invariance, PTL
=============================================================================
