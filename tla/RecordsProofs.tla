---------------------------- MODULE RecordsProofs ----------------------------
(***************************************************************************)
(* Proofs about Records: what becomes of a poll's answer or of a trap, for *)
(* any objects, devices, registries and packets.                           *)
(*                                                                         *)
(* The properties speak of the end of a record.  The invariant of a poll   *)
(* (PollInv) speaks of every step before it: nothing is answered twice     *)
(* (Sized), every value that the object is about is still to be requested, *)
(* is answered or is decoded (Covering), and a drop has its reason         *)
(* (Endings).  Lemmas about prefixes, matching, walking and assembly come  *)
(* first, one lemma for each action after it.                              *)
(***************************************************************************)
EXTENDS Records, RankingProofs

-----------------------------------------------------------------------------
(* OIDs and their prefixes. *)

OIDs == Seq(Nat)

\* A prefix agrees with the whole as far as it goes.
LEMMA PrefixIs ==
    ASSUME NEW S, NEW s \in Seq(S), NEW t \in Seq(S)
    PROVE  IsPrefix(s, t) <=> Len(s) <= Len(t) /\ \A i \in 1..Len(s) : s[i] = t[i]
<1>1. Len(s) \in Nat /\ Len(t) \in Nat
  OBVIOUS
<1>2. SUFFICES ASSUME Len(s) <= Len(t)
               PROVE  SubSeq(s, 1, Len(s)) = SubSeq(t, 1, Len(s)) <=> \A i \in 1..Len(s) : s[i] = t[i]
  BY DEF IsPrefix
<1>3. SubSeq(s, 1, Len(s)) = s
  OBVIOUS
<1>4. /\ SubSeq(t, 1, Len(s)) \in Seq(S) /\ Len(SubSeq(t, 1, Len(s))) = Len(s)
      /\ \A i \in 1..Len(s) : SubSeq(t, 1, Len(s))[i] = t[i]
  BY <1>1, <1>2, SubSeqProperties
<1> DEFINE u == SubSeq(t, 1, Len(s))
<1> HIDE DEF u
<1>5. s = u <=> \A i \in 1..Len(s) : s[i] = u[i]
  <2>1. u \in Seq(S) /\ Len(u) = Len(s)
    BY <1>4 DEF u
  <2> QED BY <2>1, SeqEqual
<1> QED BY <1>3, <1>4, <1>5 DEF u

\* Prefixes of one OID are prefixes of each other.
LEMMA PrefixFacts ==
    ASSUME NEW o \in OIDs, NEW p \in OIDs, NEW q \in OIDs
    PROVE  /\ IsPrefix(o, o)
           /\ IsPrefix(p, o) => Len(p) <= Len(o)
           /\ IsPrefix(p, o) /\ IsPrefix(q, o) /\ Len(p) <= Len(q) => IsPrefix(p, q)
           /\ IsPrefix(p, q) /\ IsPrefix(q, o) => IsPrefix(p, o)
           /\ IsPrefix(p, q) /\ Len(q) <= Len(p) => p = q
<1>1. Len(o) \in Nat /\ Len(p) \in Nat /\ Len(q) \in Nat
  BY DEF OIDs
<1>2. IsPrefix(o, o)
  BY PrefixIs DEF OIDs
<1>3. IsPrefix(p, o) => Len(p) <= Len(o)
  BY PrefixIs DEF OIDs
<1>4. ASSUME IsPrefix(p, o), IsPrefix(q, o), Len(p) <= Len(q) PROVE IsPrefix(p, q)
  <2>1. /\ \A i \in 1..Len(p) : p[i] = o[i]
        /\ \A i \in 1..Len(q) : q[i] = o[i]
    BY <1>4, PrefixIs DEF OIDs
  <2>2. \A i \in 1..Len(p) : p[i] = q[i]
    BY <1>1, <1>4, <2>1
  <2> QED BY <1>4, <2>2, PrefixIs DEF OIDs
<1>5. ASSUME IsPrefix(p, q), IsPrefix(q, o) PROVE IsPrefix(p, o)
  <2>1. /\ Len(p) <= Len(q) /\ \A i \in 1..Len(p) : p[i] = q[i]
        /\ Len(q) <= Len(o) /\ \A i \in 1..Len(q) : q[i] = o[i]
    BY <1>5, PrefixIs DEF OIDs
  <2>2. Len(p) <= Len(o) /\ \A i \in 1..Len(p) : p[i] = o[i]
    BY <1>1, <2>1
  <2> QED BY <2>2, PrefixIs DEF OIDs
<1>6. ASSUME IsPrefix(p, q), Len(q) <= Len(p) PROVE p = q
  <2>1. Len(p) <= Len(q) /\ \A i \in 1..Len(p) : p[i] = q[i]
    BY <1>6, PrefixIs DEF OIDs
  <2>2. Len(p) = Len(q)
    BY <1>1, <1>6, <2>1
  <2> QED BY <2>1, <2>2, SeqEqual DEF OIDs
<1> QED BY <1>2, <1>3, <1>4, <1>5, <1>6

\* The order in which an agent is walked: at the first component that differs, or
\* the shorter OID first.
LEMMA OIDOrder ==
    ASSUME NEW o \in OIDs, NEW p \in OIDs, NEW q \in OIDs
    PROVE  /\ ~OIDLess(o, o)
           /\ o = p \/ OIDLess(o, p) \/ OIDLess(p, o)
           /\ ~(OIDLess(o, p) /\ OIDLess(p, o))
           /\ OIDLess(o, p) /\ OIDLess(p, q) => OIDLess(o, q)
<1> DEFINE Before(x, y) == \E k \in (1..Len(x)) \cap (1..Len(y)) :
                              x[k] < y[k] /\ \A m \in 1..k - 1 : x[m] = y[m]
           Shorter(x, y) == Len(x) < Len(y) /\ \A m \in 1..Len(x) : x[m] = y[m]
<1>1. ASSUME NEW x \in OIDs, NEW y \in OIDs
      PROVE  OIDLess(x, y) <=> Shorter(x, y) \/ Before(x, y)
  <2>1. Len(x) \in Nat /\ Len(y) \in Nat /\ DOMAIN x = 1..Len(x) /\ DOMAIN y = 1..Len(y)
    BY DEF OIDs
  <2>2. IsStrictPrefix(x, y) <=> Shorter(x, y)
    <3>0. x \in Seq(Nat) /\ y \in Seq(Nat)
      BY DEF OIDs
    <3>1. IsPrefix(x, y) <=> Len(x) <= Len(y) /\ \A i \in 1..Len(x) : x[i] = y[i]
      BY <3>0, PrefixIs
    <3>2. IsPrefix(x, y) /\ Len(y) <= Len(x) => x = y
      BY PrefixFacts
    <3> HIDE DEF Before
    <3> QED BY <2>1, <3>1, <3>2 DEF IsStrictPrefix
  <2> QED BY <2>1, <2>2 DEF OIDLess
<1>2. \A x \in OIDs : Len(x) \in Nat /\ \A i \in 1..Len(x) : x[i] \in Nat
  BY DEF OIDs
<1>3. ASSUME NEW x \in OIDs, NEW y \in OIDs PROVE x = y \/ OIDLess(x, y) \/ OIDLess(y, x)
  <2> DEFINE D == {k \in (1..Len(x)) \cap (1..Len(y)) : x[k] # y[k]}
  <2>1. CASE D = {}
    <3>1. \A k \in 1..Len(x) : k \in 1..Len(y) => x[k] = y[k]
      BY <2>1
    <3>2. CASE Len(x) < Len(y)
      BY <1>1, <1>2, <3>1, <3>2
    <3>3. CASE Len(y) < Len(x)
      BY <1>1, <1>2, <3>1, <3>3
    <3>4. CASE Len(x) = Len(y)
      BY <3>1, <3>4, SeqEqual DEF OIDs
    <3> QED BY <1>2, <3>2, <3>3, <3>4
  <2>2. CASE D # {}
    <3>1. D \subseteq Nat
      OBVIOUS
    <3>2. PICK k \in D : \A j \in D : k <= j
      BY <2>2, <3>1, Least
    <3>3. ASSUME NEW m \in 1..k - 1 PROVE x[m] = y[m]
      <4>1. m \in (1..Len(x)) \cap (1..Len(y)) /\ m < k /\ m \in Nat /\ k \in Nat
        BY <1>2
      <4> QED BY <3>2, <4>1
    <3>4. x[k] < y[k] \/ y[k] < x[k]
      BY <1>2
    <3> QED BY <1>1, <3>3, <3>4
  <2> QED BY <2>1, <2>2
<1>4. ~OIDLess(o, o)
  BY <1>1, <1>2
<1>5. ASSUME OIDLess(o, p), OIDLess(p, q) PROVE OIDLess(o, q)
  <2>1. CASE Shorter(o, p) /\ Shorter(p, q)
    <3>1. Shorter(o, q)
      BY <1>2, <2>1
    <3> QED BY <1>1, <3>1
  <2>2. CASE Shorter(o, p) /\ Before(p, q)
    <3>1. PICK k \in (1..Len(p)) \cap (1..Len(q)) : p[k] < q[k] /\ \A m \in 1..k - 1 : p[m] = q[m]
      BY <2>2
    <3>2. CASE k <= Len(o)
      <4>1. k \in (1..Len(o)) \cap (1..Len(q)) /\ o[k] < q[k] /\ \A m \in 1..k - 1 : o[m] = q[m]
        BY <1>2, <2>2, <3>1, <3>2
      <4> QED BY <1>1, <4>1
    <3>3. CASE ~(k <= Len(o))
      <4>1. Shorter(o, q)
        BY <1>2, <2>2, <3>1, <3>3
      <4> QED BY <1>1, <4>1
    <3> QED BY <3>2, <3>3
  <2>3. CASE Before(o, p) /\ Shorter(p, q)
    <3>1. PICK k \in (1..Len(o)) \cap (1..Len(p)) : o[k] < p[k] /\ \A m \in 1..k - 1 : o[m] = p[m]
      BY <2>3
    <3>2. k \in (1..Len(o)) \cap (1..Len(q)) /\ o[k] < q[k] /\ \A m \in 1..k - 1 : o[m] = q[m]
      BY <1>2, <2>3, <3>1
    <3> QED BY <1>1, <3>2
  <2>4. CASE Before(o, p) /\ Before(p, q)
    <3>1. PICK k \in (1..Len(o)) \cap (1..Len(p)) : o[k] < p[k] /\ \A m \in 1..k - 1 : o[m] = p[m]
      BY <2>4
    <3>2. PICK l \in (1..Len(p)) \cap (1..Len(q)) : p[l] < q[l] /\ \A m \in 1..l - 1 : p[m] = q[m]
      BY <2>4
    <3>3. CASE k <= l
      <4>1. k \in (1..Len(o)) \cap (1..Len(q)) /\ o[k] < q[k] /\ \A m \in 1..k - 1 : o[m] = q[m]
        BY <1>2, <3>1, <3>2, <3>3
      <4> QED BY <1>1, <4>1
    <3>4. CASE l < k
      <4>1. l \in (1..Len(o)) \cap (1..Len(q)) /\ o[l] < q[l] /\ \A m \in 1..l - 1 : o[m] = q[m]
        BY <1>2, <3>1, <3>2, <3>4
      <4> QED BY <1>1, <4>1
    <3> QED BY <1>2, <3>3, <3>4
  <2> QED BY <1>1, <1>5, <2>1, <2>2, <2>3, <2>4
<1>6. ~(OIDLess(o, p) /\ OIDLess(p, o))
  <2> SUFFICES ASSUME OIDLess(o, p), OIDLess(p, o) PROVE FALSE
    OBVIOUS
  <2>1. Shorter(o, p) \/ Before(o, p)
    BY <1>1
  <2>2. Shorter(p, o) \/ Before(p, o)
    BY <1>1
  <2>3. CASE Shorter(o, p)
    <3>1. CASE Shorter(p, o)
      BY <1>2, <2>3, <3>1
    <3>2. CASE Before(p, o)
      BY <1>2, <2>3, <3>2
    <3> QED BY <2>2, <3>1, <3>2
  <2>4. CASE Before(o, p)
    <3>1. PICK k \in (1..Len(o)) \cap (1..Len(p)) : o[k] < p[k] /\ \A m \in 1..k - 1 : o[m] = p[m]
      BY <2>4
    <3>2. CASE Shorter(p, o)
      BY <1>2, <3>1, <3>2
    <3>3. CASE Before(p, o)
      <4>1. PICK l \in (1..Len(p)) \cap (1..Len(o)) : p[l] < o[l] /\ \A m \in 1..l - 1 : p[m] = o[m]
        BY <3>3
      <4>2. k < l \/ l < k \/ k = l
        OBVIOUS
      <4> QED BY <1>2, <3>1, <4>1, <4>2
    <3> QED BY <2>2, <3>2, <3>3
  <2> QED BY <2>1, <2>3, <2>4
<1> QED BY <1>3, <1>4, <1>5, <1>6
-----------------------------------------------------------------------------
(* Values. *)

Kinds == Strings \cup {"int64", "uint64", "float64", "bytes"}

\* A conversion fails, or gives a value of one of the Go types.
LEMMA ConvertKinds ==
    ASSUME NEW p, NEW syntax
    PROVE  ConvertValue(p, syntax) = Failed \/ ConvertValue(p, syntax).kind \in Kinds
<1> DEFINE Fine(v) == v = Failed \/ v.kind \in Kinds
<1>1. Fine(toInt64(p)) /\ Fine(toUint64(p)) /\ \A scale : Fine(toFloat64(p, scale))
  BY DEF toInt64, toUint64, toFloat64, Value, Kinds
<1>2. Fine(toDisplayString(p)) /\ Fine(toMACString(p)) /\ Fine(toOIDString(p))
  BY DEF toDisplayString, toMACString, toOIDString, Value, Kinds, Strings
<1>3. Fine(toIPString(p)) /\ \A n : Fine(Value("bytes", n))
  BY DEF toIPString, Value, Kinds, Strings
<1> HIDE DEF Fine
<1>4. Fine(fallbackConvert(p))
  BY <1>1, <1>2, <1>3 DEF fallbackConvert
<1>5. Fine(ConvertValue(p, syntax))
  BY <1>1, <1>2, <1>3, <1>4 DEF ConvertValue
<1> QED BY <1>5 DEF Fine

\* A scale is a base and an exponent.
LEMMA ScaleType == \A f \in DOMAIN Scale : Scale[f] \in Seq(Int)
<1>1. \A f \in DOMAIN Scale : \E b, e \in Int : Scale[f] = <<b, e>>
  BY DEF Scale
<1>2. \A b, e \in Int : <<b, e>> \in Seq(Int)
  OBVIOUS
<1> QED BY <1>1, <1>2

\* A sequence begins with its first part.
LEMMA PrefixConcat ==
    ASSUME NEW S, NEW s \in Seq(S), NEW t \in Seq(S)
    PROVE  IsPrefix(s, s \o t) /\ IsPrefix(s, s)
<1>1. /\ s \o t \in Seq(S) /\ Len(s \o t) = Len(s) + Len(t)
      /\ \A i \in 1..Len(s) : (s \o t)[i] = s[i]
  BY ConcatProperties
<1>2. Len(s) \in Nat /\ Len(t) \in Nat
  OBVIOUS
<1>3. IsPrefix(s, s)
  BY PrefixIs
<1> HIDE DEF IsPrefix
<1> DEFINE u == s \o t
<1>4. u \in Seq(S) /\ Len(s) <= Len(u) /\ \A i \in 1..Len(s) : s[i] = u[i]
  BY <1>1, <1>2
<1> HIDE DEF u
<1>5. IsPrefix(s, u)
  BY <1>4, PrefixIs
<1> QED BY <1>3, <1>5 DEF u

\* A number is the device's, with its unit when it has one; a counter is a uint64.
LEMMA ConvertNumbers ==
    ASSUME NEW p, NEW syntax, p.n \in Seq(Int)
    PROVE  LET v == ConvertValue(p, syntax)
           IN  /\ v.kind \in {"int64", "uint64", "float64"} => IsPrefix(p.n, v.n)
               /\ IsCounterSyntax(syntax) /\ v # Failed => IsPrefix(p.n, v.n)
<1> DEFINE Kept(v) == IsPrefix(p.n, v.n)
           Fine(v) == v.kind \in {"int64", "uint64", "float64"} => Kept(v)
<1>0. \A k : Kept(Value(k, p.n))
  BY PrefixConcat DEF Value
<1>1. \A s \in Seq(Int) : Kept(Value("float64", p.n \o s))
  BY PrefixConcat DEF Value
<1> HIDE DEF Kept
<1>2. Fine(Failed)
  BY DEF Failed, Value
<1>3. Fine(toInt64(p)) /\ Fine(toUint64(p)) /\ \A s \in Seq(Int) : Fine(toFloat64(p, s))
  BY <1>0, <1>1, <1>2 DEF toInt64, toUint64, toFloat64
<1>4. Fine(toDisplayString(p)) /\ Fine(toMACString(p)) /\ Fine(toOIDString(p))
  BY DEF toDisplayString, toMACString, toOIDString, Value
<1>5. Fine(toIPString(p)) /\ Fine(Value("bytes", p.n))
  BY DEF toIPString, Value
<1> HIDE DEF Fine
<1>6. Fine(fallbackConvert(p))
  <2>1. <<10, 0>> \in Seq(Int)
    OBVIOUS
  <2> QED BY <1>3, <1>4, <1>5, <2>1 DEF fallbackConvert
<1>7. Fine(ConvertValue(p, syntax))
  BY <1>3, <1>4, <1>5, <1>6, ScaleType DEF ConvertValue
<1>8. ASSUME IsCounterSyntax(syntax), ConvertValue(p, syntax) # Failed PROVE Kept(ConvertValue(p, syntax))
  <2>1. ConvertValue(p, syntax) = toUint64(p)
    <3>1. syntax \in UintSyntaxes /\ syntax \notin IntSyntaxes
      BY <1>8 DEF IsCounterSyntax, IntSyntaxes, UintSyntaxes
    <3>2. syntax \notin OIDSyntaxes /\ syntax \notin DOMAIN Scale
      BY <1>8 DEF IsCounterSyntax, OIDSyntaxes, Scale
    <3>3. syntax = "Counter32" \/ syntax = "Counter64"
      BY <1>8 DEF IsCounterSyntax
    <3> QED BY <3>1, <3>2, <3>3 DEF ConvertValue
  <2> QED BY <1>0, <1>8, <2>1 DEF toUint64
<1> QED BY <1>7, <1>8 DEF Fine, Kept

\* A metric's value is its varbind's, its counter's, or a label.
LEMMA MetricValueIs ==
    ASSUME NEW reg, NEW vb
    PROVE  LET v == MetricValue(reg, vb)
           IN  \/ v = vb.value
               \/ v = Value("delta", vb.value.n) /\ IsCounterSyntax(vb.syntax)
               \/ v.kind \in {"oidlabel", "labels", "label"}
<1> DEFINE Fine(v) == v = vb.value \/ v.kind \in {"oidlabel", "labels", "label"}
<1>1. \A oid, keys : Fine(resolveBitmap(oid, keys, vb.value))
  BY DEF resolveBitmap, Value
<1>2. /\ Fine(vb.value)
      /\ \A n : Fine(Value("oidlabel", n)) /\ Fine(Value("label", n))
  BY DEF Value
<1> HIDE DEF Fine
<1>3. \A oid : Fine(Resolve(reg, oid, vb.value))
  BY <1>1, <1>2 DEF Resolve
<1> QED BY <1>3 DEF MetricValue, Fine

\* Priorities are numbers up to 20.
LEMMA PriorityType == \A syntax : syntaxPriority(syntax) \in 0..20
<1>1. \A s \in DOMAIN Priorities : Priorities[s] \in 0..20
  BY DEF Priorities
<1> QED BY <1>1 DEF syntaxPriority
-----------------------------------------------------------------------------
(* Traps. *)

\* Every PDU with a value is converted.
LEMMA ConvertedAll ==
    ASSUME NEW V, NEW q \in Seq(V), NEW k \in DOMAIN q, ~IsErrorType(q[k].type)
    PROVE  \E j \in DOMAIN convertVarbinds(q) :
              convertVarbinds(q)[j].oid = q[k].oid /\ convertVarbinds(q)[j].value.n = q[k].n
<1> DEFINE I == {i \in DOMAIN q : ~IsErrorType(q[i].type)}
           kept == Picked(q, I)
<1>1. convertVarbinds(q) = [j \in DOMAIN kept |-> [oid |-> kept[j].oid, value |-> convertPDUValue(kept[j])]]
  BY DEF convertVarbinds
<1>2. I \subseteq DOMAIN q /\ k \in I
  OBVIOUS
<1> HIDE DEF I, kept
<1>3. PICK j \in DOMAIN kept : kept[j] = q[k]
  BY <1>2, PickedHas DEF kept
<1>4. convertPDUValue(q[k]).n = q[k].n
  BY DEF convertPDUValue, Value
<1> QED BY <1>1, <1>3, <1>4

\* What comes after a position of a sequence.
LEMMA RestIs ==
    ASSUME NEW R, NEW q \in Seq(R), NEW i \in 1..Len(q)
    PROVE  /\ SubSeq(q, i + 1, Len(q)) \in Seq(R)
           /\ Len(SubSeq(q, i + 1, Len(q))) = Len(q) - i
           /\ \A n \in 1..Len(q) - i : SubSeq(q, i + 1, Len(q))[n] = q[i + n]
<1>1. SubSeq(q, i + 1, Len(q)) \in Seq(R)
  OBVIOUS
<1>2. Len(SubSeq(q, i + 1, Len(q))) = Len(q) - i
  OBVIOUS
<1>3. \A n \in 1..Len(q) - i : SubSeq(q, i + 1, Len(q))[n] = q[i + n]
  OBVIOUS
<1> QED BY <1>1, <1>2, <1>3

\* The payload of a packet is converted: what comes after the first snmpTrapOID.0,
\* or everything.
LEMMA PayloadParsed ==
    ASSUME NEW pkt, pkt.vars \in Seq(ToSet(pkt.vars)), NEW k \in DOMAIN pkt.vars,
           ~IsErrorType(pkt.vars[k].type),
           \/ pkt.version = 1
           \/ \A j \in DOMAIN pkt.vars : pkt.vars[j].oid = oidSnmpTrapOID => j < k
    PROVE  \E j \in DOMAIN Parse(pkt).varbinds :
              /\ Parse(pkt).varbinds[j].oid = pkt.vars[k].oid
              /\ Parse(pkt).varbinds[j].value.n = pkt.vars[k].n
<1> DEFINE V == ToSet(pkt.vars)
           named == {i \in DOMAIN pkt.vars : pkt.vars[i].oid = oidSnmpTrapOID}
           at == Min(named)
           q == IF pkt.version = 1 THEN pkt.vars ELSE parsev2Info(pkt).payload
<1>1. Parse(pkt).varbinds = convertVarbinds(q)
  BY DEF Parse
<1>2. pkt.vars \in Seq(V) /\ Len(pkt.vars) \in Nat /\ DOMAIN pkt.vars = 1..Len(pkt.vars)
  OBVIOUS
<1> HIDE DEF V
<1>3. q \in Seq(V) /\ \E l \in DOMAIN q : q[l] = pkt.vars[k]
  <2>1. CASE pkt.version = 1 \/ named = {}
    <3>1. q = pkt.vars
      BY <2>1 DEF parsev2Info
    <3> QED BY <1>2, <3>1
  <2>2. CASE pkt.version # 1 /\ named # {}
    <3>1. q = SubSeq(pkt.vars, at + 1, Len(pkt.vars))
      BY <2>2 DEF parsev2Info
    <3>2. named \subseteq Nat
      BY <1>2
    <3>3. at \in named
      BY <2>2, <3>2, MinNat
    <3>4. at \in 1..Len(pkt.vars) /\ pkt.vars[at].oid = oidSnmpTrapOID
      <4> HIDE DEF at
      <4> QED BY <1>2, <3>3
    <3>5. at < k /\ k \in 1..Len(pkt.vars)
      <4> HIDE DEF at
      <4> QED BY <1>2, <2>2, <3>4
    <3> HIDE DEF at, named, q
    <3>6. PICK i \in 1..Len(pkt.vars) : i = at /\ i < k
      BY <3>4, <3>5
    <3>7. /\ SubSeq(pkt.vars, i + 1, Len(pkt.vars)) \in Seq(V)
          /\ Len(SubSeq(pkt.vars, i + 1, Len(pkt.vars))) = Len(pkt.vars) - i
          /\ \A n \in 1..Len(pkt.vars) - i : SubSeq(pkt.vars, i + 1, Len(pkt.vars))[n] = pkt.vars[i + n]
      BY <1>2, RestIs
    <3>8. k - i \in 1..Len(pkt.vars) - i /\ i + (k - i) = k
      BY <1>2, <3>5, <3>6
    <3>9. q = SubSeq(pkt.vars, i + 1, Len(pkt.vars)) /\ q \in Seq(V) /\ Len(q) = Len(pkt.vars) - i
      BY <3>1, <3>6, <3>7
    <3>10. k - i \in DOMAIN q /\ q[k - i] = pkt.vars[k]
      <4>1. DOMAIN q = 1..Len(pkt.vars) - i
        BY <3>9
      <4>2. \A n \in 1..Len(pkt.vars) - i : q[n] = pkt.vars[i + n]
        BY <3>7, <3>9
      <4>3. q[k - i] = pkt.vars[i + (k - i)]
        BY <3>8, <4>2
      <4> QED BY <3>8, <4>1, <4>3
    <3> QED BY <3>9, <3>10
  <2> QED BY <2>1, <2>2
<1>4. PICK l \in DOMAIN q : q[l] = pkt.vars[k]
  BY <1>3
<1> HIDE DEF q
<1>5. \E j \in DOMAIN convertVarbinds(q) :
         convertVarbinds(q)[j].oid = q[l].oid /\ convertVarbinds(q)[j].value.n = q[l].n
  BY <1>3, <1>4, ConvertedAll
<1> QED BY <1>1, <1>4, <1>5

Polls == [obj : Objects, dev : Devices, reg : Registries, version : {1, 2}, labels : Labels]

\* A record is of a poll or of a trap, and a trap's record is what Parse makes of
\* its packet.
Kind == (input \in Polls /\ pc # "trap") \/ (input \in Packets /\ pc \in {"trap", "format", "send", "done"})
Trapped == input \in Packets /\ Supported(input) /\ pc # "trap" => record = Parse(input)

\* Polls and packets are told apart by their fields.
LEMMA PollOrPacket ==
    /\ input \in Polls => isPoll
    /\ input \in Packets => ~isPoll
BY RecordsAssumption DEF Polls, isPoll

\* What a record is of does not change.
LEMMA InputKept == [Next]_vars => input' = input
<1>1. ASSUME doGet \/ GetBatch \/ GetDone \/ Walk \/ NoRoot \/ RequestFails PROVE input' = input
  BY <1>1 DEF doGet, GetBatch, GetDone, Walk, NoRoot, RequestFails
<1>2. ASSUME DecodeRefused \/ NewVarbindParser \/ DecodeSkip \/ DecodeOne \/ DecodeFails \/ DecodeDone
      PROVE  input' = input
  BY <1>2 DEF DecodeRefused, NewVarbindParser, DecodeSkip, DecodeOne, DecodeFails, DecodeDone
<1>3. ASSUME Produce \/ HandleTrap \/ Format \/ Send PROVE input' = input
  BY <1>3 DEF Produce, HandleTrap, Format, Send
<1>4. CASE UNCHANGED vars
  BY <1>4 DEF vars
<1> QED BY <1>1, <1>2, <1>3, <1>4 DEF Next

\* Only the steps of its kind happen to a record.
LEMMA KindStep == Kind /\ [Next]_vars => Kind'
<1> SUFFICES ASSUME Kind, [Next]_vars PROVE Kind'
  OBVIOUS
<1>1. input' = input
  BY InputKept
<1>2. CASE UNCHANGED vars
  BY <1>2 DEF vars, Kind
<1>3. ASSUME doGet \/ GetBatch \/ GetDone \/ Walk \/ NoRoot \/ RequestFails PROVE Kind'
  BY <1>1, <1>3 DEF Kind, doGet, GetBatch, GetDone, Walk, NoRoot, RequestFails, Drop
<1>4. ASSUME DecodeRefused \/ NewVarbindParser \/ DecodeSkip \/ DecodeOne \/ DecodeFails \/ DecodeDone
      PROVE  Kind'
  BY <1>1, <1>4 DEF Kind, DecodeRefused, NewVarbindParser, DecodeSkip, DecodeOne, DecodeFails,
                    DecodeDone, Drop
<1>5. ASSUME Produce \/ HandleTrap \/ Format \/ Send PROVE Kind'
  BY <1>1, <1>5 DEF Kind, Produce, HandleTrap, Format, Send, Drop
<1> QED BY <1>2, <1>3, <1>4, <1>5 DEF Next

\* A trap's record stays what it was made.
LEMMA TrappedStep == Kind /\ Trapped /\ [Next]_vars => Trapped'
<1> SUFFICES ASSUME Kind, Trapped, [Next]_vars PROVE Trapped'
  OBVIOUS
<1>a. input' = input
  BY InputKept
<1> SUFFICES ASSUME input \in Packets PROVE Trapped'
  BY <1>a DEF Trapped
<1>0. pc \in {"trap", "format", "send", "done"}
  <2>1. ~(input \in Polls)
    BY PollOrPacket
  <2> QED BY <2>1 DEF Kind
<1>1. CASE UNCHANGED vars
  BY <1>1 DEF vars, Trapped, Supported
<1>2. CASE HandleTrap
  BY <1>2 DEF HandleTrap, Trapped, Supported
<1>3. CASE Format \/ Send
  BY <1>3 DEF Format, Send, Trapped, Supported
<1>4. ~(doGet \/ GetBatch \/ GetDone \/ Walk \/ NoRoot \/ RequestFails)
  BY <1>0 DEF doGet, GetBatch, GetDone, Walk, NoRoot, RequestFails
<1>5. ~(DecodeRefused \/ NewVarbindParser \/ DecodeSkip \/ DecodeOne \/ DecodeFails \/ DecodeDone \/ Produce)
  BY <1>0 DEF DecodeRefused, NewVarbindParser, DecodeSkip, DecodeOne, DecodeFails, DecodeDone, Produce
<1> QED BY <1>1, <1>2, <1>3, <1>4, <1>5 DEF Next

\* Every varbind of a trap that has a value is in its record, as long as it does not
\* come before snmpTrapOID.0, for any packet and any order of its varbinds.
THEOREM PayloadCorrect == Spec => []PayloadKept
<1>1. Init => Kind /\ Trapped
  <2> SUFFICES ASSUME Init PROVE Kind /\ Trapped
    OBVIOUS
  <2>1. CASE pc = "poll" /\ input \in Polls
    <3>1. ~(input \in Packets)
      BY <2>1, PollOrPacket
    <3> QED BY <2>1, <3>1 DEF Kind, Trapped
  <2>2. CASE pc = "trap" /\ input \in Packets
    BY <2>2 DEF Kind, Trapped
  <2> QED BY <2>1, <2>2 DEF Init, Polls
<1>2. Kind /\ Trapped => PayloadKept
  <2> SUFFICES ASSUME Kind, Trapped, pc = "done", ~isPoll, Supported(input),
                      NEW k \in DOMAIN input.vars, ~IsErrorType(input.vars[k].type),
                      input.version = 1 \/
                        \A j \in DOMAIN input.vars : input.vars[j].oid = oidSnmpTrapOID => j < k
               PROVE  \E j \in DOMAIN record.varbinds :
                         /\ record.varbinds[j].oid = input.vars[k].oid
                         /\ record.varbinds[j].value.n = input.vars[k].n
    BY DEF PayloadKept
  <2>1. input \in Packets
    BY PollOrPacket DEF Kind
  <2>2. record = Parse(input) /\ input.vars \in Seq(ToSet(input.vars))
    BY <2>1, RecordsAssumption DEF Trapped
  <2> QED BY <2>2, PayloadParsed
<1> QED BY <1>1, <1>2, KindStep, TrappedStep, PTL DEF Spec
-----------------------------------------------------------------------------
(* Attributes and the OIDs they are for. *)

\* The attributes of an object.
Typed(A) == IsFiniteSet(A) /\ \A a \in A : a.oid \in OIDs /\ a.tag \in BOOLEAN

\* Column, for the attributes A.
ColumnOf(A, o) == CHOOSE q \in {a.oid : a \in A} :
                     /\ IsPrefix(q, o)
                     /\ \A b \in A : IsPrefix(b.oid, o) => IsPrefix(b.oid, q)

\* The attribute matched is the one with the longest OID.
LEMMA MatchIs ==
    ASSUME NEW T, \A a \in T : a.oid \in OIDs, NEW o \in OIDs, Matches(T, o)
    PROVE  /\ matchAttribute(T, o) \in T /\ IsPrefix(matchAttribute(T, o).oid, o)
           /\ \A b \in T : IsPrefix(b.oid, o) => Len(b.oid) <= Len(matchAttribute(T, o).oid)
<1> DEFINE hits == {a \in T : IsPrefix(a.oid, o)}
           L == {Len(a.oid) : a \in hits}
<1>1. Len(o) \in Nat /\ L \subseteq 0..Len(o) /\ L # {}
  <2>1. Len(o) \in Nat
    BY DEF OIDs
  <2>2. \A a \in hits : Len(a.oid) \in Nat /\ Len(a.oid) <= Len(o)
    <3> SUFFICES ASSUME NEW a \in hits PROVE Len(a.oid) \in Nat /\ Len(a.oid) <= Len(o)
      OBVIOUS
    <3>1. a.oid \in OIDs
      OBVIOUS
    <3>2. IsPrefix(a.oid, o)
      OBVIOUS
    <3> QED BY <3>1, <3>2, PrefixFacts DEF OIDs
  <2>3. hits # {}
    BY DEF Matches
  <2> HIDE DEF hits
  <2>4. \A a \in hits : Len(a.oid) \in 0..Len(o)
    BY <2>1, <2>2
  <2> QED BY <2>1, <2>3, <2>4
<1> HIDE DEF L
<1>2. Max(L) \in L /\ \A y \in L : Max(L) >= y
  BY <1>1, MaxNat
<1>3. PICK a \in hits : Len(a.oid) = Max(L)
  BY <1>2 DEF L
<1>4. ASSUME NEW b \in hits PROVE Len(b.oid) <= Len(a.oid)
  <2>1. Len(b.oid) \in L /\ Len(a.oid) \in L
    BY DEF L
  <2>2. Len(a.oid) >= Len(b.oid)
    BY <1>2, <1>3, <2>1
  <2>3. Len(a.oid) \in Nat /\ Len(b.oid) \in Nat
    BY <1>1, <2>1
  <2> QED BY <2>2, <2>3
<1>5. matchAttribute(T, o) = CHOOSE x \in hits : \A b \in hits : Len(b.oid) <= Len(x.oid)
  BY DEF matchAttribute
<1> DEFINE m == matchAttribute(T, o)
<1> HIDE DEF hits, m
<1>6. m \in hits /\ \A b \in hits : Len(b.oid) <= Len(m.oid)
  BY <1>4, <1>5 DEF m
<1> QED BY <1>6 DEF m, hits

\* It is the one whose OID is the varbind's column.
LEMMA ColumnIs ==
    ASSUME NEW A, \A a \in A : a.oid \in OIDs, NEW o \in OIDs, NEW a \in A, IsPrefix(a.oid, o),
           \A b \in A : IsPrefix(b.oid, o) => Len(b.oid) <= Len(a.oid)
    PROVE  ColumnOf(A, o) = a.oid
<1> DEFINE Fits(q) == /\ IsPrefix(q, o)
                      /\ \A b \in A : IsPrefix(b.oid, o) => IsPrefix(b.oid, q)
<1>1. Fits(a.oid)
  <2> SUFFICES ASSUME NEW b \in A, IsPrefix(b.oid, o) PROVE IsPrefix(b.oid, a.oid)
    OBVIOUS
  <2>1. a.oid \in OIDs /\ b.oid \in OIDs /\ Len(b.oid) <= Len(a.oid)
    OBVIOUS
  <2> QED BY <2>1, PrefixFacts
<1>2. ASSUME NEW q \in {b.oid : b \in A}, Fits(q) PROVE q = a.oid
  <2>1. PICK b \in A : q = b.oid
    OBVIOUS
  <2>2. IsPrefix(a.oid, q) /\ IsPrefix(b.oid, o)
    BY <1>2, <2>1
  <2>3. a.oid \in OIDs /\ q \in OIDs /\ Len(q) <= Len(a.oid)
    BY <2>1, <2>2
  <2> QED BY <2>2, <2>3, PrefixFacts
<1>3. ColumnOf(A, o) = CHOOSE q \in {b.oid : b \in A} : Fits(q)
  BY DEF ColumnOf
<1> HIDE DEF Fits
<1> QED BY <1>1, <1>2, <1>3

\* A parser has one of the attributes for each OID.
LEMMA ParserIs ==
    ASSUME NEW A, Typed(A), NEW T \in Parsers(A)
    PROVE  /\ T \subseteq A
           /\ \A a \in A : \E b \in T : b.oid = a.oid
           /\ \A b, c \in T : b.oid = c.oid => b = c
<1>1. T \in SUBSET A /\ \A a \in A : Cardinality({b \in T : b.oid = a.oid}) = 1
  BY DEF Parsers
<1>2. IsFiniteSet(A)
  BY DEF Typed
<1>3. ASSUME NEW a \in A PROVE \E x : {b \in T : b.oid = a.oid} = {x}
  <2>1. {b \in T : b.oid = a.oid} \in SUBSET A
    BY <1>1
  <2>2. IsFiniteSet({b \in T : b.oid = a.oid})
    BY <1>2, <2>1, FS_Subset
  <2> QED BY <1>1, <2>2, FS_Singleton
<1>4. ASSUME NEW a \in A PROVE \E b \in T : b.oid = a.oid
  <2>1. PICK x : {b \in T : b.oid = a.oid} = {x}
    BY <1>3
  <2> QED BY <2>1
<1>5. ASSUME NEW b \in T, NEW c \in T, b.oid = c.oid PROVE b = c
  <2>1. PICK x : {d \in T : d.oid = b.oid} = {x}
    BY <1>1, <1>3
  <2>2. b \in {d \in T : d.oid = b.oid} /\ c \in {d \in T : d.oid = b.oid}
    BY <1>5
  <2> QED BY <2>1, <2>2
<1> QED BY <1>1, <1>4, <1>5

\* A varbind of the object has one attribute in a parser: its column's.
LEMMA ParserMatch ==
    ASSUME NEW A, Typed(A), NEW T \in Parsers(A), NEW o \in OIDs, Matches(A, o)
    PROVE  /\ Matches(T, o) /\ matchAttribute(T, o) \in T
           /\ IsPrefix(matchAttribute(T, o).oid, o)
           /\ matchAttribute(T, o).oid = ColumnOf(A, o)
           /\ \A b \in T : b.oid = ColumnOf(A, o) => b = matchAttribute(T, o)
<1>1. /\ T \subseteq A
      /\ \A a \in A : \E b \in T : b.oid = a.oid
      /\ \A b, c \in T : b.oid = c.oid => b = c
  BY ParserIs
<1>2. Matches(T, o)
  <2>1. PICK a \in A : IsPrefix(a.oid, o)
    BY DEF Matches
  <2>2. PICK b \in T : b.oid = a.oid
    BY <1>1
  <2> QED BY <2>1, <2>2 DEF Matches
<1>3. \A a \in A : a.oid \in OIDs
  BY DEF Typed
<1>4. /\ matchAttribute(T, o) \in T /\ IsPrefix(matchAttribute(T, o).oid, o)
      /\ \A b \in T : IsPrefix(b.oid, o) => Len(b.oid) <= Len(matchAttribute(T, o).oid)
  BY <1>1, <1>2, <1>3, MatchIs
<1> DEFINE m == matchAttribute(T, o)
<1>5. m \in T /\ IsPrefix(m.oid, o) /\ \A b \in T : IsPrefix(b.oid, o) => Len(b.oid) <= Len(m.oid)
  BY <1>4
<1> HIDE DEF m
<1>6. \A b \in A : IsPrefix(b.oid, o) => Len(b.oid) <= Len(m.oid)
  <2> SUFFICES ASSUME NEW b \in A, IsPrefix(b.oid, o) PROVE Len(b.oid) <= Len(m.oid)
    OBVIOUS
  <2>1. PICK c \in T : c.oid = b.oid
    BY <1>1
  <2> QED BY <1>5, <2>1
<1>7. ColumnOf(A, o) = m.oid
  BY <1>1, <1>3, <1>5, <1>6, ColumnIs
<1> QED BY <1>1, <1>2, <1>5, <1>7 DEF m
-----------------------------------------------------------------------------
(* The input of a poll. *)

\* What a poll is of.
LEMMA PollIs ==
    ASSUME input \in Polls
    PROVE  /\ isPoll /\ isScalar \in BOOLEAN /\ Typed(Attributes)
           /\ input.version \in {1, 2}
           /\ IsFiniteSet(DOMAIN input.dev) /\ DOMAIN input.dev \subseteq OIDs
           /\ \A o \in DOMAIN input.dev :
                input.dev[o].n \in Seq(Int) /\ ~IsErrorType(input.dev[o].type)
           /\ \A o, q \in DOMAIN input.dev : ~IsStrictPrefix(o, q)
<1>1. input.obj \in Objects /\ input.dev \in Devices /\ input.version \in {1, 2}
  BY DEF Polls
<1>2. isPoll
  BY PollOrPacket
<1>3. isScalar \in BOOLEAN
  BY DEF isScalar
<1>4. Typed(Attributes)
  BY <1>1, RecordsAssumption DEF Typed, Attributes, OIDs
<1>5. /\ IsFiniteSet(DOMAIN input.dev) /\ DOMAIN input.dev \subseteq Seq(Nat)
      /\ \A o \in DOMAIN input.dev :
           input.dev[o].n \in Seq(Int) /\ ~IsErrorType(input.dev[o].type)
      /\ \A o, q \in DOMAIN input.dev : ~IsStrictPrefix(o, q)
  BY <1>1, RecordsAssumption
<1> QED BY <1>1, <1>2, <1>3, <1>4, <1>5 DEF OIDs

\* The OID requested for a scalar is its own or the one below it.
LEMMA ScalarIs ==
    ASSUME NEW q \in OIDs
    PROVE  ScalarOID(q) \in OIDs /\ IsPrefix(q, ScalarOID(q))
<1>1. q \in Seq(Nat) /\ Len(q) \in Nat
  BY DEF OIDs
<1>2. CASE ScalarOID(q) = q
  BY <1>2, PrefixFacts
<1>3. CASE ScalarOID(q) = Append(q, 0)
  <2>1. PICK r : r = Append(q, 0)
    OBVIOUS
  <2>2. r \in Seq(Nat) /\ Len(r) = Len(q) + 1 /\ \A i \in 1..Len(q) : r[i] = q[i]
    BY <1>1, <2>1
  <2>3. Len(q) <= Len(r) /\ \A i \in 1..Len(q) : q[i] = r[i]
    BY <1>1, <2>2
  <2>4. IsPrefix(q, r)
    BY <1>1, <2>2, <2>3, PrefixIs
  <2> QED BY <1>3, <2>1, <2>2, <2>4 DEF OIDs
<1> QED BY <1>2, <1>3 DEF ScalarOID

\* The OIDs whose values a poll may be answered with.
Fetched == IF isScalar THEN About ELSE DOMAIN input.dev

\* The OIDs that the object is about are those of the device that are fetched and
\* have an attribute.
LEMMA AboutIs ==
    ASSUME input \in Polls
    PROVE  /\ Requested \subseteq OIDs
           /\ About \subseteq Fetched /\ Fetched \subseteq DOMAIN input.dev
           /\ isScalar => About = Requested \cap DOMAIN input.dev
           /\ \A o \in About : Matches(Attributes, o)
           /\ \A o \in Fetched : Matches(Attributes, o) => o \in About
<1>1. \A a \in Attributes : a.oid \in OIDs
  BY PollIs DEF Typed
<1>2. \A a \in Attributes : ScalarOID(a.oid) \in OIDs /\ IsPrefix(a.oid, ScalarOID(a.oid))
  BY <1>1, ScalarIs
<1>3. Requested \subseteq OIDs /\ \A o \in Requested : Matches(Attributes, o)
  BY <1>2 DEF Requested, Matches
<1>4. isScalar => About = Requested \cap DOMAIN input.dev
  BY DEF About
<1>5. ~isScalar => About = {o \in DOMAIN input.dev : Matches(Attributes, o)}
  BY DEF About
<1> QED BY <1>3, <1>4, <1>5 DEF Fetched

\* The order of a map of attributes has each of them.
LEMMA OrderIs ==
    ASSUME NEW A, IsFiniteSet(A), NEW attrs \in SetToSeqs(A)
    PROVE  /\ attrs \in Seq(A) /\ Len(attrs) = Cardinality(A) /\ Cardinality(A) \in Nat
           /\ \A a \in A : \E k \in DOMAIN attrs : attrs[k] = a
<1> DEFINE n == Cardinality(A)
<1>1. n \in Nat
  BY FS_CardinalityType
<1>2. attrs \in [1..n -> A] /\ \A i, j \in 1..n : i # j => attrs[i] # attrs[j]
  BY DEF SetToSeqs
<1>3. IsFiniteSet(1..n) /\ Cardinality(1..n) = n
  BY <1>1, FS_Interval
<1>4. attrs \in Injection(1..n, A)
  BY <1>2 DEF Injection, IsInjective
<1>5. attrs \in Surjection(1..n, A)
  BY <1>3, <1>4, FS_Injection
<1>6. \A a \in A : \E k \in 1..n : attrs[k] = a
  BY <1>5 DEF Surjection
<1>7. attrs \in Seq(A) /\ Len(attrs) = n
  <2>1. PICK m \in Nat : m = n
    BY <1>1
  <2> QED BY <1>2, <2>1
<1> QED BY <1>1, <1>6, <1>7
\* An OID is trimmed to one of its prefixes.
LEMMA TrimIs ==
    ASSUME NEW o \in OIDs, NEW n \in 0..Len(o)
    PROVE  /\ SubSeq(o, 1, n) \in OIDs /\ Len(SubSeq(o, 1, n)) = n
           /\ IsPrefix(SubSeq(o, 1, n), o)
           /\ \A q \in OIDs : IsPrefix(q, o) /\ Len(q) = n => q = SubSeq(o, 1, n)
<1>1. o \in Seq(Nat) /\ Len(o) \in Nat
  BY DEF OIDs
<1>2. PICK p : p = SubSeq(o, 1, n)
  OBVIOUS
<1>3. p \in Seq(Nat) /\ Len(p) = n /\ \A i \in 1..n : p[i] = o[i]
  BY <1>1, <1>2
<1>4. Len(p) <= Len(o) /\ \A i \in 1..Len(p) : p[i] = o[i]
  BY <1>1, <1>3
<1>5. IsPrefix(p, o)
  BY <1>1, <1>3, <1>4, PrefixIs
<1>6. p \in OIDs
  BY <1>3 DEF OIDs
<1>7. ASSUME NEW q \in OIDs, IsPrefix(q, o), Len(q) = n PROVE q = p
  <2>1. IsPrefix(q, p)
    BY <1>3, <1>5, <1>6, <1>7, PrefixFacts
  <2> QED BY <1>3, <1>6, <1>7, <2>1, PrefixFacts
<1> QED BY <1>2, <1>3, <1>5, <1>6, <1>7

\* The empty OID begins every other.
LEMMA EmptyIs ==
    /\ <<>> \in OIDs
    /\ \A o \in OIDs : IsPrefix(<<>>, o) /\ (Len(o) = 0 <=> o = <<>>)
<1>1. <<>> \in Seq(Nat) /\ Len(<<>>) = 0
  OBVIOUS
<1>2. ASSUME NEW o \in Seq(Nat) PROVE IsPrefix(<<>>, o) /\ (Len(o) = 0 <=> o = <<>>)
  <2>1. Len(o) \in Nat
    OBVIOUS
  <2>2. IsPrefix(<<>>, o)
    <3>1. PICK e \in Seq(Nat) : e = <<>> /\ Len(e) = 0
      BY <1>1
    <3>2. Len(e) <= Len(o) /\ \A i \in 1..Len(e) : e[i] = o[i]
      BY <2>1, <3>1
    <3>3. IsPrefix(e, o)
      BY <3>2, PrefixIs
    <3> QED BY <3>1, <3>3
  <2> QED BY <2>2, EmptySeq
<1> QED BY <1>1, <1>2 DEF OIDs

\* The root of a walk begins the OID of every attribute, and it is empty only when they
\* have nothing in common.
LEMMA RootIs ==
    ASSUME NEW A, Typed(A), NEW attrs \in SetToSeqs(A), \A a \in A : a.oid # <<>>
    PROVE  LET r == LowestCommonOID(attrs)
           IN  /\ r \in OIDs
               /\ \A a \in A : IsPrefix(r, a.oid)
               /\ r = <<>> => A = {} \/ LongestCommonPrefix({a.oid : a \in A}) = <<>>
<1> DEFINE oids == {k \in DOMAIN attrs : attrs[k].oid # <<>>}
           parts == attrs[Min(oids)].oid
           match == {n \in 0..Len(parts) :
                       \A k \in oids : IsPrefix(SubSeq(parts, 1, n), attrs[k].oid)}
           r == LowestCommonOID(attrs)
<1>1. attrs \in Seq(A) /\ \A a \in A : \E k \in DOMAIN attrs : attrs[k] = a
  BY OrderIs DEF Typed
<1>2. DOMAIN attrs = 1..Len(attrs) /\ Len(attrs) \in Nat /\ \A k \in DOMAIN attrs : attrs[k] \in A
  BY <1>1
<1>3. oids = DOMAIN attrs
  BY <1>2
<1>4. r = IF oids = {} THEN <<>> ELSE SubSeq(parts, 1, Max(match))
  BY DEF LowestCommonOID
<1>5. CASE A = {}
  <2>1. oids = {}
    BY <1>2, <1>5
  <2>2. r = <<>>
    BY <1>4, <2>1
  <2> HIDE DEF r
  <2> QED BY <1>5, <2>2, EmptyIs DEF r
<1>6. CASE A # {}
  <2>1. oids # {} /\ oids \subseteq Nat
    BY <1>1, <1>2, <1>3, <1>6
  <2>2. Min(oids) \in DOMAIN attrs
    BY <1>3, <2>1, MinNat
  <2>3. parts \in OIDs
    BY <1>2, <2>2 DEF Typed
  <2>4. r = SubSeq(parts, 1, Max(match))
    BY <1>4, <2>1
  <2>5. Len(parts) \in Nat
    BY <2>3 DEF OIDs
  <2>6. match = {n \in 0..Len(parts) : \A a \in A : IsPrefix(SubSeq(parts, 1, n), a.oid)}
    BY <1>1, <1>2, <1>3
  <2>7. \E a \in A : parts = a.oid
    BY <1>2, <2>2
  <2>8. \A a \in A : a.oid \in OIDs
    BY DEF Typed
  <2> HIDE DEF oids, parts, match, r
  <2>9. 0 \in match
    <3>1. SubSeq(parts, 1, 0) = <<>>
      <4>1. Len(SubSeq(parts, 1, 0)) = 0 /\ SubSeq(parts, 1, 0) \in OIDs
        BY <2>3, <2>5, TrimIs
      <4> QED BY <4>1, EmptyIs
    <3>2. \A a \in A : IsPrefix(SubSeq(parts, 1, 0), a.oid)
      BY <2>8, <3>1, EmptyIs
    <3>3. 0 \in 0..Len(parts)
      BY <2>5
    <3> QED BY <2>6, <3>2, <3>3
  <2>10. match \subseteq 0..Len(parts)
    BY <2>6
  <2>11. Max(match) \in match /\ \A n \in match : Max(match) >= n
    BY <2>5, <2>9, <2>10, MaxNat
  <2>12. r \in OIDs /\ Len(r) = Max(match)
    BY <2>3, <2>4, <2>10, <2>11, TrimIs
  <2>13. \A a \in A : IsPrefix(r, a.oid)
    BY <2>4, <2>6, <2>11
  <2>14. ASSUME r = <<>> PROVE LongestCommonPrefix({a.oid : a \in A}) = <<>>
    <3> DEFINE S == {a.oid : a \in A}
               C == CommonPrefixes(S)
    <3>1. \A s \in S : s \in OIDs
      BY <2>8
    <3>2. parts \in S
      BY <2>7
    <3>3. \A p \in C : (\E s \in S : p \in Prefixes(s)) /\ \A s \in S : IsPrefix(p, s)
      BY DEF CommonPrefixes
    <3>4. \A p : (\E s \in S : p \in Prefixes(s)) /\ (\A s \in S : IsPrefix(p, s)) => p \in C
      BY DEF CommonPrefixes
    <3> HIDE DEF C
    <3>5. \A a \in A : a.oid \in S
      OBVIOUS
    <3>6. \A s \in S : \E a \in A : s = a.oid
      OBVIOUS
    <3> HIDE DEF S
    <3>7. <<>> \in C
      <4>1. <<>> \in Prefixes(parts)
        <5>1. Len(SubSeq(parts, 1, 0)) = 0 /\ SubSeq(parts, 1, 0) \in OIDs
          BY <2>3, <2>5, TrimIs
        <5>2. SubSeq(parts, 1, 0) = <<>>
          BY <5>1, EmptyIs
        <5> QED BY <2>5, <5>2 DEF Prefixes
      <4>2. \A s \in S : IsPrefix(<<>>, s)
        BY <3>1, EmptyIs
      <4> QED BY <3>2, <3>4, <4>1, <4>2
    <3>8. ASSUME NEW p \in C PROVE p = <<>>
      <4>1. PICK s \in S : p \in Prefixes(s)
        BY <3>3
      <4>2. p \in OIDs
        <5>1. PICK l \in 0..Len(s) : p = SubSeq(s, 1, l)
          BY <4>1 DEF Prefixes
        <5> QED BY <3>1, <5>1, TrimIs
      <4>3. IsPrefix(p, parts) /\ Len(p) \in Nat
        BY <3>2, <3>3, <4>2 DEF OIDs
      <4>4. Len(p) \in 0..Len(parts)
        BY <2>3, <2>5, <4>2, <4>3, PrefixFacts
      <4>5. p = SubSeq(parts, 1, Len(p))
        BY <2>3, <4>2, <4>3, <4>4, TrimIs
      <4>6. \A a \in A : IsPrefix(SubSeq(parts, 1, Len(p)), a.oid)
        BY <3>3, <3>5, <4>5
      <4>7. Len(p) \in match
        BY <2>6, <4>4, <4>6
      <4>8. Len(r) >= Len(p) /\ Len(r) = 0
        BY <2>11, <2>12, <2>14, <4>7, EmptyIs
      <4>9. Len(p) = 0
        BY <4>3, <4>8
      <4> QED BY <4>2, <4>9, EmptyIs
    <3>9. LongestCommonPrefix(S) = CHOOSE p \in C : \A q \in C : Len(q) <= Len(p)
      BY DEF LongestCommonPrefix, C
    <3>10. LongestCommonPrefix(S) \in C
      <4>1. \A q \in C : Len(q) <= Len(<<>>)
        <5>1. Len(<<>>) <= Len(<<>>)
          OBVIOUS
        <5> QED BY <3>8, <5>1
      <4> QED BY <3>7, <3>9, <4>1
    <3> QED BY <3>8, <3>10 DEF S
  <2> QED BY <2>12, <2>13, <2>14 DEF r
<1> QED BY <1>5, <1>6
\* What a poll is answered with: the device's value at an OID, or none.
Answers == {Pdu(o) : o \in Fetched} \cup
           [oid : OIDs, type : {"Null", "NoSuchObject"}, n : {<<>>}]

\* What a walk finds below its root is in the order of the OIDs.
WalkOrder(found) == [o \in found |-> {q \in found : ~OIDLess(o, q)}]

\* That is an order.
LEMMA WalkChain ==
    ASSUME NEW found, found \subseteq OIDs
    PROVE  Chain(found, WalkOrder(found))
<1> DEFINE below == WalkOrder(found)
<1>1. DOMAIN below = found /\ \A o \in found : below[o] = {q \in found : ~OIDLess(o, q)}
  BY DEF WalkOrder
<1>2. \A o \in found : below[o] \subseteq found /\ o \in below[o]
  BY <1>1, OIDOrder
<1>3. ASSUME NEW o \in found, NEW p \in found, OIDLess(o, p) PROVE below[o] \subseteq below[p]
  <2> SUFFICES ASSUME NEW q \in found, ~OIDLess(o, q) PROVE ~OIDLess(p, q)
    BY <1>1
  <2>1. o \in OIDs /\ p \in OIDs /\ q \in OIDs
    OBVIOUS
  <2> QED BY <1>3, <2>1, OIDOrder
<1>4. ASSUME NEW o \in found, NEW p \in found, below[o] = below[p] PROVE o = p
  <2>1. ~OIDLess(o, p) /\ ~OIDLess(p, o)
    BY <1>1, <1>2, <1>4
  <2> QED BY <2>1, OIDOrder
<1> HIDE DEF below
<1>5. ASSUME NEW o \in found, NEW p \in found
      PROVE  below[o] \subseteq below[p] \/ below[p] \subseteq below[o]
  <2>1. o = p \/ OIDLess(o, p) \/ OIDLess(p, o)
    BY OIDOrder
  <2> QED BY <1>3, <2>1
<1> QED BY <1>1, <1>2, <1>4, <1>5 DEF Chain, below

\* A walk has every value of the device that its root begins, and no more values than
\* the device.
LEMMA WalkedIs ==
    ASSUME input \in Polls, ~isScalar, NEW r
    PROVE  /\ Walked(r) \in Seq(Answers)
           /\ Len(Walked(r)) <= Cardinality(DOMAIN input.dev)
           /\ \A o \in DOMAIN input.dev : IsPrefix(r, o) =>
                \E k \in DOMAIN Walked(r) : Walked(r)[k] = Pdu(o)
<1> DEFINE D == DOMAIN input.dev
           below == {o \in D : IsStrictPrefix(r, o)}
           found == IF below # {} THEN below ELSE {r} \cap D
           oids == Ranked(found, WalkOrder(found))
           n == Cardinality(found)
<1>1. IsFiniteSet(D) /\ D \subseteq OIDs /\ \A o, q \in D : ~IsStrictPrefix(o, q)
  BY PollIs
<1>2. found \in SUBSET D
  OBVIOUS
<1>3. \A o \in D : IsPrefix(r, o) => o \in found
  <2> SUFFICES ASSUME NEW o \in D, IsPrefix(r, o) PROVE o \in found
    OBVIOUS
  <2>1. CASE o = r
    <3>1. below = {}
      BY <1>1, <2>1
    <3> QED BY <2>1, <3>1
  <2>2. CASE o # r
    <3>1. o \in below
      BY <2>2 DEF IsStrictPrefix
    <3> QED BY <3>1
  <2> QED BY <2>1, <2>2
<1>4. Walked(r) = [k \in DOMAIN oids |-> Pdu(oids[k])]
  BY DEF Walked, WalkOrder
<1> HIDE DEF D, below, found, oids
<1>5. IsFiniteSet(found) /\ n <= Cardinality(D) /\ n \in Nat
  BY <1>1, <1>2, FS_Subset, FS_CardinalityType
<1>6. Chain(found, WalkOrder(found))
  BY <1>1, <1>2, WalkChain
<1>7. oids \in [1..n -> found] /\ \A o \in found : \E k \in 1..n : oids[k] = o
  BY <1>5, <1>6, RankedLists DEF oids
<1>8. \A o \in D : Pdu(o) \in Answers
  BY DEF Answers, Fetched, D
<1> HIDE DEF n
<1>9. Walked(r) = [k \in 1..n |-> Pdu(oids[k])]
  BY <1>4, <1>7
<1>10. \A k \in 1..n : oids[k] \in D
  BY <1>2, <1>7
<1>11. PICK w : w = Walked(r)
  OBVIOUS
<1>12. DOMAIN w = 1..n /\ \A k \in 1..n : w[k] = Pdu(oids[k])
  BY <1>9, <1>11
<1>13. w \in Seq(Answers) /\ Len(w) = n
  <2>1. w = [k \in 1..n |-> w[k]]
    BY <1>9, <1>11
  <2>2. \A k \in 1..n : w[k] \in Answers
    BY <1>8, <1>10, <1>12
  <2>3. w \in [1..n -> Answers]
    BY <2>1, <2>2
  <2> QED BY <1>5, <2>3
<1>14. ASSUME NEW o \in D, IsPrefix(r, o) PROVE \E k \in DOMAIN w : w[k] = Pdu(o)
  <2>1. PICK k \in 1..n : oids[k] = o
    BY <1>3, <1>7, <1>14
  <2> QED BY <1>12, <2>1
<1> QED BY <1>5, <1>11, <1>13, <1>14 DEF D

\* A Get is answered varbind by varbind, with the device's values unless it is refused.
LEMMA AnswerIs ==
    ASSUME input \in Polls, isScalar, NEW oids \in Seq(Requested)
    PROVE  /\ Answer(oids) \in Seq(Answers) /\ Len(Answer(oids)) = Len(oids)
           /\ ~Refused => \A k \in DOMAIN oids : oids[k] \in About => Answer(oids)[k] = Pdu(oids[k])
<1> DEFINE refused == input.version = 1 /\ \E k \in DOMAIN oids : ~(oids[k] \in DOMAIN input.dev)
           one(o) == IF refused THEN Absent(o, "Null")
                     ELSE IF o \in DOMAIN input.dev THEN Pdu(o) ELSE Absent(o, "NoSuchObject")
<1>1. /\ Requested \subseteq OIDs /\ About = Requested \cap DOMAIN input.dev
      /\ Fetched = About
  BY AboutIs DEF Fetched
<1>2. Answer(oids) = [k \in DOMAIN oids |-> one(oids[k])]
  BY DEF Answer
<1>3. Len(oids) \in Nat /\ DOMAIN oids = 1..Len(oids) /\ \A k \in DOMAIN oids : oids[k] \in Requested
  OBVIOUS
<1>4. ~Refused => ~refused
  BY <1>3 DEF Refused
<1>5. \A o \in OIDs, t \in {"Null", "NoSuchObject"} : Absent(o, t) \in Answers
  BY DEF Absent, Answers
<1>6. \A o \in About : Pdu(o) \in Answers
  BY <1>1 DEF Answers
<1>7. \A o \in Requested : one(o) \in Answers
  BY <1>1, <1>5, <1>6
<1>8. ~Refused => \A o \in About : one(o) = Pdu(o)
  BY <1>1, <1>4
<1> HIDE DEF refused, one
<1>9. PICK w : w = Answer(oids)
  OBVIOUS
<1>10. w = [k \in 1..Len(oids) |-> one(oids[k])]
  BY <1>2, <1>3, <1>9
<1>11. w \in [1..Len(oids) -> Answers]
  BY <1>3, <1>7, <1>10
<1>12. w \in Seq(Answers) /\ Len(w) = Len(oids)
  BY <1>3, <1>11
<1>13. ~Refused => \A k \in DOMAIN oids : oids[k] \in About => w[k] = Pdu(oids[k])
  BY <1>3, <1>8, <1>10
<1> QED BY <1>9, <1>12, <1>13

\* A batch and what is left are the OIDs still to be requested.
LEMMA BatchIs ==
    ASSUME NEW R, NEW oids \in Seq(R), oids # <<>>
    PROVE  LET rest == SubSeq(oids, MaxOids + 1, Len(oids))
           IN  /\ Batch(oids) \in Seq(R) /\ rest \in Seq(R)
               /\ Len(Batch(oids)) + Len(rest) = Len(oids)
               /\ \A k \in DOMAIN oids : \/ \E j \in DOMAIN Batch(oids) : Batch(oids)[j] = oids[k]
                                         \/ \E j \in DOMAIN rest : rest[j] = oids[k]
<1>1. MaxOids \in Nat
  BY RecordsAssumption
<1>2. Len(oids) \in Nat /\ DOMAIN oids = 1..Len(oids)
  OBVIOUS
<1>3. PICK m : m = Min({MaxOids, Len(oids)})
  OBVIOUS
<1>4. /\ m = MaxOids \/ m = Len(oids)
      /\ m <= MaxOids /\ m <= Len(oids)
  <2>1. {MaxOids, Len(oids)} \subseteq Nat
    BY <1>1, <1>2
  <2>2. m \in {MaxOids, Len(oids)} /\ \A y \in {MaxOids, Len(oids)} : m <= y
    BY <1>3, <2>1, MinNat
  <2> QED BY <2>2
<1>5. m \in Nat /\ m \in 0..Len(oids)
  BY <1>1, <1>2, <1>4
<1>6. PICK b : b = SubSeq(oids, 1, m)
  OBVIOUS
<1>7. b \in Seq(R) /\ Len(b) = m /\ \A k \in 1..m : b[k] = oids[k]
  <2>1. /\ SubSeq(oids, 1, m) \in Seq(R) /\ Len(SubSeq(oids, 1, m)) = m
        /\ \A k \in 1..m : SubSeq(oids, 1, m)[k] = oids[k]
    BY <1>2, <1>5
  <2> QED BY <1>6, <2>1
<1>8. PICK c : c = SubSeq(oids, MaxOids + 1, Len(oids))
  OBVIOUS
<1>9. Batch(oids) = b
  BY <1>3, <1>6 DEF Batch
<1>10. CASE MaxOids < Len(oids)
  <2>1. m = MaxOids
    BY <1>1, <1>2, <1>4, <1>10
  <2>2. /\ c \in Seq(R) /\ Len(c) = Len(oids) - m
        /\ \A j \in 1..Len(oids) - m : c[j] = oids[m + j]
    <3>1. c = SubSeq(oids, m + 1, Len(oids))
      BY <1>8, <2>1
    <3>2. PICK i \in 1..Len(oids) : i = m
      BY <1>1, <1>2, <1>10, <2>1, RecordsAssumption
    <3> QED BY <3>1, <3>2, RestIs
  <2>3. ASSUME NEW k \in 1..Len(oids), ~(k \in 1..m) PROVE \E j \in DOMAIN c : c[j] = oids[k]
    <3>1. k - m \in 1..Len(oids) - m /\ m + (k - m) = k
      BY <1>2, <1>5, <2>3
    <3> QED BY <2>2, <3>1
  <2>4. c \in Seq(R) /\ Len(b) + Len(c) = Len(oids)
    BY <1>2, <1>5, <1>7, <2>2
  <2>5. \A k \in 1..Len(oids) : \/ \E j \in DOMAIN b : b[j] = oids[k]
                               \/ \E j \in DOMAIN c : c[j] = oids[k]
    BY <1>7, <2>3
  <2> QED BY <1>2, <1>7, <1>8, <1>9, <2>4, <2>5
<1>11. CASE ~(MaxOids < Len(oids))
  <2>1. m = Len(oids)
    BY <1>1, <1>2, <1>4, <1>11
  <2>2. c = <<>>
    BY <1>1, <1>2, <1>8, <1>11
  <2>3. c \in Seq(R) /\ Len(c) = 0
    BY <2>2
  <2>4. c \in Seq(R) /\ Len(b) + Len(c) = Len(oids)
    BY <1>2, <1>7, <2>1, <2>3
  <2>5. \A k \in 1..Len(oids) : \E j \in DOMAIN b : b[j] = oids[k]
    BY <1>7, <2>1
  <2> QED BY <1>2, <1>7, <1>8, <1>9, <2>4, <2>5
<1> QED BY <1>10, <1>11
-----------------------------------------------------------------------------
(* What only the input decides. *)

NoEmpty == \A a \in Attributes : a.oid # <<>>
Size == Cardinality(IF isScalar THEN Attributes ELSE DOMAIN input.dev)

\* The DecodedVarbind of an OID for the parser T, and those that can be decoded.
Dec(T, o) == Varbind(matchAttribute(T, o), Pdu(o))
Varbinds(T) == {Dec(T, o) : o \in {q \in About : Dec(T, q).value # Failed}}

\* The reasons of DropsExplained.
Explained ==
    \/ \E a \in Attributes : a.oid = <<>>
    \/ ~isScalar /\ LongestCommonPrefix({a.oid : a \in Attributes}) = <<>>
    \/ Refused
    \/ \A o \in About : \E a \in Attributes : a.oid = Column(o) /\ a.tag
    \/ \E o \in About, a \in Attributes :
         /\ a.oid = Column(o)
         /\ LET v == ConvertValue(Pdu(o), a.syntax) IN v = Failed \/ IsNaN(v)

\* The exceptions of RightFile.
Excused ==
    \/ "trap_info" \in input.labels
    \/ \E a \in Attributes : "trap_info" \in {a.name, a.syntax}
    \/ \E o \in About, a \in Attributes :
         LET vb == Varbind(a, Pdu(o))
         IN  /\ a.oid = Column(o)
             /\ \/ tagValue(vb.value) \in SpelledTrapInfo
                \/ MetricValue(input.reg, vb) \in SpelledTrapInfo

\* None of it changes on the way of a record.
LEMMA InputDecides ==
    ASSUME input' = input
    PROVE  /\ Attributes' = Attributes /\ (isPoll' <=> isPoll) /\ (isScalar' <=> isScalar)
           /\ Requested' = Requested /\ About' = About /\ (Refused' <=> Refused)
           /\ (NoEmpty' <=> NoEmpty) /\ Size' = Size /\ Fetched' = Fetched /\ Answers' = Answers
           /\ \A o : Pdu(o)' = Pdu(o)
           /\ \A T : Varbinds(T)' = Varbinds(T)
           /\ (Explained' <=> Explained) /\ (Excused' <=> Excused)
<1>1. Attributes' = Attributes
  BY DEF Attributes
<1>2. (isPoll' <=> isPoll) /\ (isScalar' <=> isScalar)
  BY DEF isPoll, isScalar
<1>3. Requested' = Requested
  BY <1>1 DEF Requested
<1>4. About' = About
  BY <1>1, <1>2, <1>3 DEF About
<1>5. Refused' <=> Refused
  BY <1>2, <1>3 DEF Refused
<1>6. NoEmpty' <=> NoEmpty
  BY <1>1 DEF NoEmpty
<1>7. Size' = Size
  BY <1>1, <1>2 DEF Size
<1>8. Fetched' = Fetched
  BY <1>2, <1>4 DEF Fetched
<1>9. \A o : Pdu(o)' = Pdu(o)
  BY DEF Pdu
<1>10. Answers' = Answers
  BY <1>8, <1>9 DEF Answers
<1>11. \A T, o : Dec(T, o)' = Dec(T, o)
  BY <1>9 DEF Dec
<1>12. \A T : Varbinds(T)' = Varbinds(T)
  BY <1>4, <1>11 DEF Varbinds
<1>13. \A o : Column(o)' = Column(o)
  <2> SUFFICES ASSUME NEW o PROVE Column(o)' = Column(o)
    OBVIOUS
  <2>1. Column(o)' = ColumnOf(Attributes', o)
    BY Zenon DEF Column, ColumnOf
  <2>2. Column(o) = ColumnOf(Attributes, o)
    BY Zenon DEF Column, ColumnOf
  <2> QED BY <1>1, <2>1, <2>2
<1>14. Explained' <=> Explained
  BY <1>1, <1>2, <1>4, <1>5, <1>9, <1>13 DEF Explained
<1>15. Excused' <=> Excused
  BY <1>1, <1>4, <1>9, <1>13 DEF Excused
<1> QED BY <1>1, <1>2, <1>3, <1>4, <1>5, <1>6, <1>7, <1>8, <1>9, <1>10, <1>12, <1>14, <1>15
-----------------------------------------------------------------------------
(* Decoding and assembly. *)

\* The attribute of an OID that the object is about is its column's, and the only one.
LEMMA MatchedIs ==
    ASSUME input \in Polls, NEW T \in Parsers(Attributes), NEW o \in About
    PROVE  /\ matchAttribute(T, o) \in T /\ T \subseteq Attributes
           /\ matchAttribute(T, o).oid = Column(o) /\ IsPrefix(matchAttribute(T, o).oid, o)
           /\ \A b \in T : b.oid = Column(o) => b = matchAttribute(T, o)
<1>1. o \in OIDs /\ Matches(Attributes, o) /\ Typed(Attributes)
  BY AboutIs, PollIs
<1>2. Column(o) = ColumnOf(Attributes, o)
  BY Zenon DEF Column, ColumnOf
<1>3. T \subseteq Attributes
  BY DEF Parsers
<1> QED BY <1>1, <1>2, <1>3, ParserMatch

\* A DecodedVarbind is of an OID that the object is about and of its column's attribute.
LEMMA VarbindIs ==
    ASSUME input \in Polls, NEW T \in Parsers(Attributes), NEW v \in Varbinds(T)
    PROVE  \E o \in About, a \in T :
              /\ a = matchAttribute(T, o) /\ a.oid = Column(o) /\ IsPrefix(a.oid, o)
              /\ v = Varbind(a, Pdu(o)) /\ v.value # Failed
<1>1. PICK o \in About : v = Dec(T, o) /\ Dec(T, o).value # Failed
  BY DEF Varbinds
<1> QED BY <1>1, MatchedIs DEF Dec

\* The fields of a DecodedVarbind.
LEMMA VarbindFields ==
    ASSUME NEW a, NEW o
    PROVE  LET v == Varbind(a, Pdu(o))
           IN  /\ v.oid = o /\ v.name = a.name /\ v.syntax = a.syntax /\ v.tag = a.tag
               /\ v.instance = Instance(a, o) /\ v.value = ConvertValue(Pdu(o), a.syntax)
BY DEF Varbind, Pdu

\* Of what a poll is answered with, the values that the object is about are decoded.
LEMMA SkippedIs ==
    ASSUME input \in Polls, parser \in Parsers(Attributes)
    PROVE  /\ \A o \in About : ~Skipped(Pdu(o))
           /\ \A p \in Answers : ~Skipped(p) => p.oid \in About /\ p = Pdu(p.oid)
<1>1. Typed(Attributes) /\ \A o \in About : o \in OIDs /\ o \in DOMAIN input.dev
  BY PollIs, AboutIs
<1>2. \A o \in DOMAIN input.dev : ~IsErrorType(input.dev[o].type)
  BY PollIs
<1>3. ASSUME NEW o \in About PROVE ~Skipped(Pdu(o))
  <2>1. Matches(Attributes, o)
    BY AboutIs
  <2>2. Matches(parser, o)
    BY <1>1, <2>1, ParserMatch
  <2>3. Pdu(o).oid = o /\ Pdu(o).type = input.dev[o].type
    BY DEF Pdu
  <2>4. ~IsErrorType(Pdu(o).type)
    BY <1>1, <1>2, <2>3
  <2> QED BY <2>2, <2>3, <2>4 DEF Skipped
<1>4. ASSUME NEW p \in Answers, ~Skipped(p) PROVE p.oid \in About /\ p = Pdu(p.oid)
  <2>1. CASE p \in [oid : OIDs, type : {"Null", "NoSuchObject"}, n : {<<>>}]
    <3>1. IsErrorType(p.type)
      BY <2>1 DEF IsErrorType
    <3> QED BY <1>4, <3>1 DEF Skipped
  <2>2. CASE \E o \in Fetched : p = Pdu(o)
    <3>1. PICK o \in Fetched : p = Pdu(o)
      BY <2>2
    <3>2. p.oid = o
      BY <3>1 DEF Pdu
    <3>3. Matches(parser, o)
      BY <1>4, <3>2 DEF Skipped
    <3>4. Matches(Attributes, o)
      BY <1>1, <3>3, ParserIs DEF Matches
    <3> QED BY <3>1, <3>2, <3>4, AboutIs
  <2> QED BY <2>1, <2>2 DEF Answers
<1> QED BY <1>3, <1>4

\* A metric is of the varbind with the highest priority among those of its name and row.
LEMMA BuildIs ==
    ASSUME NEW V, \A v \in V : v.tag \in BOOLEAN, NEW d \in Seq(V), NEW reg, NEW m \in Build(d, reg)
    PROVE  \E k \in DOMAIN d :
              /\ ~d[k].tag /\ m.oid = d[k].oid /\ m.name = d[k].name /\ m.instance = d[k].instance
              /\ m.syntax = d[k].syntax /\ m.value = MetricValue(reg, d[k])
              /\ m.tags = Tags(d, m.instance)
              /\ m = Metric(d, reg, m.name, m.instance)
              /\ \A j \in DOMAIN d :
                   ~d[j].tag /\ d[j].name = m.name /\ d[j].instance = m.instance
                     => syntaxPriority(d[j].syntax) <= syntaxPriority(m.syntax)
<1>1. PICK i \in DOMAIN d : ~d[i].tag /\ m = Metric(d, reg, d[i].name, d[i].instance)
  BY DEF Build
<1> DEFINE name == d[i].name
           instance == d[i].instance
           K == {k \in DOMAIN d : ~d[k].tag /\ d[k].name = name /\ d[k].instance = instance}
           prio(k) == syntaxPriority(d[k].syntax)
           P == {prio(k) : k \in K}
           best == {k \in K : \A j \in K : prio(j) <= prio(k)}
<1>2. i \in K /\ K \subseteq DOMAIN d /\ DOMAIN d \subseteq Nat
  BY <1>1
<1>3. \A k : prio(k) \in 0..20
  BY PriorityType
<1> HIDE DEF K, prio
<1>4. P \subseteq 0..20 /\ P # {}
  BY <1>2, <1>3
<1>5. Max(P) \in P /\ \A y \in P : Max(P) >= y
  <2> HIDE DEF P
  <2>1. 20 \in Nat
    OBVIOUS
  <2> QED BY <1>4, <2>1, MaxNat
<1>6. PICK b \in K : prio(b) = Max(P)
  BY <1>5
<1>7. b \in best
  <2>1. \A j \in K : prio(j) \in P
    OBVIOUS
  <2> HIDE DEF P
  <2>2. \A j \in K : prio(b) >= prio(j)
    BY <1>5, <1>6, <2>1
  <2>3. \A j \in K : prio(j) <= prio(b)
    BY <1>3, <2>2
  <2> QED BY <2>3
<1>8. best \subseteq Nat
  BY <1>2
<1>9. Min(best) \in best
  <2> HIDE DEF best
  <2> QED BY <1>7, <1>8, MinNat
<1>10. PICK k \in best : k = Min(best)
  BY <1>9
<1>11. k \in K /\ \A j \in K : prio(j) <= prio(k)
  OBVIOUS
<1>12. Winner(d, K) = d[k]
  BY <1>10 DEF Winner, prio
<1>13. k \in DOMAIN d /\ ~d[k].tag /\ d[k].name = name /\ d[k].instance = instance
  BY <1>11 DEF K
<1>14. Metric(d, reg, name, instance) =
         [oid |-> d[k].oid, name |-> name, instance |-> instance, syntax |-> d[k].syntax,
          value |-> MetricValue(reg, d[k]), tags |-> Tags(d, instance)]
  BY <1>12 DEF Metric, K
<1>15. /\ m.oid = d[k].oid /\ m.name = name /\ m.instance = instance /\ m.syntax = d[k].syntax
       /\ m.value = MetricValue(reg, d[k]) /\ m.tags = Tags(d, instance)
  BY <1>1, <1>14
<1>16. \A j \in DOMAIN d : ~d[j].tag /\ d[j].name = name /\ d[j].instance = instance
                             => syntaxPriority(d[j].syntax) <= syntaxPriority(m.syntax)
  BY <1>11, <1>15 DEF K, prio
<1>17. m = Metric(d, reg, m.name, m.instance)
  BY <1>1, <1>15
<1> HIDE DEF name, instance
<1> QED BY <1>13, <1>15, <1>16, <1>17

\* A tag is of a varbind of its name and row.
LEMMA TagsIs ==
    ASSUME NEW V, NEW d \in Seq(V), NEW instance
    PROVE  /\ \A k \in DOMAIN d : d[k].tag /\ d[k].instance = instance
                                    => d[k].name \in DOMAIN Tags(d, instance)
           /\ \A name \in DOMAIN Tags(d, instance) : \E k \in DOMAIN d :
                /\ d[k].tag /\ d[k].instance = instance /\ d[k].name = name
                /\ Tags(d, instance)[name] = tagValue(d[k].value)
<1> DEFINE K == {k \in DOMAIN d : d[k].tag /\ d[k].instance = instance}
           last(name) == Max({k \in K : d[k].name = name})
<1>1. Tags(d, instance) = [name \in {d[k].name : k \in K} |-> tagValue(d[last(name)].value)]
  BY DEF Tags, TagMap
<1>2. K \subseteq 1..Len(d) /\ Len(d) \in Nat
  OBVIOUS
<1> HIDE DEF K
<1>3. ASSUME NEW name \in {d[k].name : k \in K} PROVE last(name) \in K /\ d[last(name)].name = name
  <2> DEFINE S == {k \in K : d[k].name = name}
  <2>1. S \subseteq 1..Len(d) /\ S # {}
    BY <1>2
  <2>2. Max(S) \in S
    <3> HIDE DEF S
    <3> QED BY <1>2, <2>1, MaxFacts
  <2> QED BY <2>2
<1> HIDE DEF last
<1>4. DOMAIN Tags(d, instance) = {d[k].name : k \in K}
  BY <1>1
<1>5. \A name \in DOMAIN Tags(d, instance) :
         /\ last(name) \in K /\ d[last(name)].name = name
         /\ Tags(d, instance)[name] = tagValue(d[last(name)].value)
  BY <1>1, <1>3
<1> QED BY <1>4, <1>5 DEF K
-----------------------------------------------------------------------------
(* The invariant of a poll. *)

Decoding == pc \in {"decode", "produce", "format", "send"} \/ Reported
Assembled == pc \in {"format", "send"} \/ Reported

\* Nothing is answered or decoded more than once.
Sized == Len(wire) + Len(pdus) + Len(decoded) <= Size

\* What the variables hold.
Shaped ==
    /\ pc \in {"poll", "get", "parse", "decode", "produce", "format", "send", "done"}
    /\ file \in {Nothing, "metrics", "traps", "dropped"}
    /\ wire \in Seq(Requested) /\ pdus \in Seq(Answers)
    /\ parser \subseteq Attributes /\ decoded \in Seq(Varbinds(parser))

\* What has been done at each pc.
Phases ==
    /\ pc \in {"poll", "get", "parse"} => decoded = <<>>
    /\ pc = "poll" => wire = <<>> /\ pdus = <<>>
    /\ pc = "get" => isScalar
    /\ pc \notin {"get", "done"} \/ Reported => wire = <<>>
    /\ pc \in {"produce", "format", "send"} \/ Reported => pdus = <<>>
    /\ Decoding => NoEmpty /\ parser \in Parsers(Attributes)
    /\ Assembled => record = Build(decoded, input.reg)

\* Every value that the object is about is still to be requested, is answered, or decoded.
Reached(o) ==
    \/ \E k \in DOMAIN wire : wire[k] = o
    \/ \E k \in DOMAIN pdus : pdus[k] = Pdu(o)
    \/ \E k \in DOMAIN decoded : decoded[k].oid = o
Covering ==
    NoEmpty /\ ~Refused /\ pc # "poll" /\ (pc = "done" => Reported) => \A o \in About : Reached(o)

\* How a record ends.
Endings ==
    pc = "done" =>
      /\ file = "dropped" /\ ~timeout => Explained
      /\ file # "dropped" => file = "metrics" \/ Excused

PollInv == input \in Polls /\ Sized /\ Shaped /\ Phases /\ Covering /\ Endings

\* Numbers of elements.
LEMMA Counts ==
    ASSUME PollInv
    PROVE  Len(wire) \in Nat /\ Len(pdus) \in Nat /\ Len(decoded) \in Nat /\ Size \in Nat
<1>1. wire \in Seq(Requested) /\ pdus \in Seq(Answers) /\ decoded \in Seq(Varbinds(parser))
  BY DEF PollInv, Shaped
<1>2. IsFiniteSet(IF isScalar THEN Attributes ELSE DOMAIN input.dev)
  BY PollIs DEF PollInv, Typed
<1>3. Size \in Nat
  BY <1>2, FS_CardinalityType DEF Size
<1> QED BY <1>1, <1>3

\* The OIDs of a Get.
LEMMA doGetKeeps == PollInv /\ doGet => PollInv'
<1> SUFFICES ASSUME PollInv, doGet PROVE PollInv'
  OBVIOUS
<1>1. input' = input /\ pdus' = pdus /\ parser' = parser /\ decoded' = decoded /\ file' = file
  BY DEF doGet
<1>2. /\ Attributes' = Attributes /\ Requested' = Requested /\ About' = About /\ Size' = Size
      /\ Answers' = Answers /\ (isScalar' <=> isScalar) /\ \A T : Varbinds(T)' = Varbinds(T)
  BY <1>1, InputDecides
<1>3. pc = "poll" /\ pc' = "get" /\ isScalar
  BY DEF doGet
<1>4. PICK attrs \in SetToSeqs(Attributes) : wire' = [k \in DOMAIN attrs |-> ScalarOID(attrs[k].oid)]
  BY DEF doGet
<1>5. /\ attrs \in Seq(Attributes) /\ Len(attrs) = Size /\ Size \in Nat
      /\ \A a \in Attributes : \E k \in DOMAIN attrs : attrs[k] = a
  <2>1. IsFiniteSet(Attributes)
    BY PollIs DEF PollInv, Typed
  <2> QED BY <1>3, <2>1, OrderIs DEF Size
<1>6. DOMAIN attrs = 1..Size /\ \A k \in 1..Size : attrs[k] \in Attributes
  BY <1>5
<1>7. DOMAIN wire' = 1..Size /\ \A k \in 1..Size : wire'[k] = ScalarOID(attrs[k].oid)
  BY <1>4, <1>6
<1>8. wire' \in Seq(Requested) /\ Len(wire') = Size
  <2>1. \A k \in 1..Size : ScalarOID(attrs[k].oid) \in Requested
    BY <1>6 DEF Requested
  <2>2. wire' \in [1..Size -> Requested]
    BY <1>4, <1>6, <2>1
  <2> QED BY <1>5, <2>2
<1>9. pdus = <<>> /\ decoded = <<>> /\ input \in Polls
  BY <1>3 DEF PollInv, Phases
<1>10. Sized'
  <2>1. Len(pdus') = 0 /\ Len(decoded') = 0
    BY <1>1, <1>9
  <2> QED BY <1>2, <1>5, <1>8, <2>1 DEF Sized
<1>11. Shaped'
  BY <1>1, <1>2, <1>3, <1>8 DEF PollInv, Shaped
<1>12. Phases'
  BY <1>1, <1>2, <1>3, <1>9 DEF Phases, Decoding, Assembled, Reported
<1>13. Covering'
  <2>1. \A o \in Requested : \E k \in DOMAIN wire' : wire'[k] = o
    BY <1>5, <1>6, <1>7 DEF Requested
  <2>2. About \subseteq Requested
    BY <1>3, <1>9, AboutIs
  <2> QED BY <1>2, <2>1, <2>2 DEF Covering, Reached
<1>14. Endings'
  BY <1>3 DEF Endings
<1> QED BY <1>1, <1>9, <1>10, <1>11, <1>12, <1>13, <1>14 DEF PollInv

\* One sequence after another.
LEMMA JoinIs ==
    ASSUME NEW S, NEW s \in Seq(S), NEW t \in Seq(S)
    PROVE  /\ s \o t \in Seq(S) /\ Len(s \o t) = Len(s) + Len(t)
           /\ \A i \in 1..Len(s) : (s \o t)[i] = s[i]
           /\ \A i \in 1..Len(t) : (s \o t)[Len(s) + i] = t[i]
<1>1. s \o t \in Seq(S) /\ Len(s \o t) = Len(s) + Len(t)
  OBVIOUS
<1>2. \A i \in 1..Len(s) : (s \o t)[i] = s[i]
  OBVIOUS
<1>3. \A i \in 1..Len(t) : (s \o t)[Len(s) + i] = t[i]
  OBVIOUS
<1> QED BY <1>1, <1>2, <1>3

\* A batch is answered.
LEMMA GetBatchKeeps == PollInv /\ GetBatch => PollInv'
<1> SUFFICES ASSUME PollInv, GetBatch PROVE PollInv'
  OBVIOUS
<1>1. /\ input' = input /\ pc' = pc /\ parser' = parser /\ decoded' = decoded /\ file' = file
      /\ pc = "get" /\ wire # <<>>
  BY DEF GetBatch
<1>2. /\ Attributes' = Attributes /\ Requested' = Requested /\ About' = About /\ Size' = Size
      /\ Answers' = Answers /\ (isScalar' <=> isScalar) /\ \A T : Varbinds(T)' = Varbinds(T)
      /\ (NoEmpty' <=> NoEmpty) /\ (Refused' <=> Refused) /\ \A o : Pdu(o)' = Pdu(o)
  BY <1>1, InputDecides
<1>3. isScalar /\ decoded = <<>> /\ input \in Polls
  BY <1>1 DEF PollInv, Phases
<1>4. wire \in Seq(Requested) /\ pdus \in Seq(Answers)
  BY DEF PollInv, Shaped
<1>5. PICK b : b = Batch(wire)
  OBVIOUS
<1>6. PICK ans : ans = Answer(b)
  OBVIOUS
<1>7. PICK rest : rest = SubSeq(wire, MaxOids + 1, Len(wire))
  OBVIOUS
<1>8. /\ b \in Seq(Requested) /\ rest \in Seq(Requested) /\ Len(b) + Len(rest) = Len(wire)
      /\ \A k \in DOMAIN wire : (\E j \in DOMAIN b : b[j] = wire[k])
                             \/ \E j \in DOMAIN rest : rest[j] = wire[k]
  BY <1>1, <1>4, <1>5, <1>7, BatchIs
<1>9. /\ ans \in Seq(Answers) /\ Len(ans) = Len(b)
      /\ ~Refused => \A k \in DOMAIN b : b[k] \in About => ans[k] = Pdu(b[k])
  BY <1>3, <1>6, <1>8, AnswerIs
<1>10. pdus' = pdus \o ans /\ wire' = rest
  BY <1>5, <1>6, <1>7 DEF GetBatch
<1>11. /\ pdus \o ans \in Seq(Answers) /\ Len(pdus \o ans) = Len(pdus) + Len(ans)
       /\ \A i \in 1..Len(pdus) : (pdus \o ans)[i] = pdus[i]
       /\ \A i \in 1..Len(ans) : (pdus \o ans)[Len(pdus) + i] = ans[i]
  <2>1. pdus \in Seq(Answers) /\ ans \in Seq(Answers)
    BY <1>4, <1>9
  <2> QED BY <2>1, JoinIs
<1>12. PICK both : both = pdus \o ans
  OBVIOUS
<1>13. /\ both \in Seq(Answers) /\ Len(both) = Len(pdus) + Len(ans)
       /\ \A i \in 1..Len(pdus) : both[i] = pdus[i]
       /\ \A i \in 1..Len(ans) : both[Len(pdus) + i] = ans[i]
  BY <1>11, <1>12
<1>14. pdus' = both
  BY <1>10, <1>12
<1>15. Len(pdus) \in Nat /\ Len(ans) \in Nat /\ DOMAIN both = 1..(Len(pdus) + Len(ans))
  BY <1>4, <1>9, <1>13
<1>16. Sized'
  <2>1. Len(b) \in Nat /\ Len(rest) \in Nat /\ Len(wire) \in Nat /\ Len(decoded) \in Nat /\ Size \in Nat
    BY <1>8, Counts
  <2>2. Len(wire) + Len(pdus) + Len(decoded) <= Size
    BY DEF PollInv, Sized
  <2>3. Len(rest) + Len(both) + Len(decoded) <= Size
    BY <1>8, <1>9, <1>13, <1>15, <2>1, <2>2
  <2> QED BY <1>1, <1>2, <1>10, <1>14, <2>3 DEF Sized
<1>17. Shaped'
  BY <1>1, <1>2, <1>8, <1>10, <1>13, <1>14 DEF PollInv, Shaped
<1>18. Phases'
  BY <1>1, <1>2, <1>3 DEF Phases, Decoding, Assembled, Reported
<1>19. Covering'
  <2> SUFFICES ASSUME NoEmpty, ~Refused, NEW o \in About PROVE Reached(o)'
    BY <1>2 DEF Covering
  <2>1. Reached(o)
    BY <1>1 DEF PollInv, Covering
  <2>2. CASE \E k \in DOMAIN wire : wire[k] = o
    <3>1. CASE \E j \in DOMAIN rest : rest[j] = o
      BY <1>10, <3>1 DEF Reached
    <3>2. CASE \E j \in DOMAIN b : b[j] = o
      <4>1. PICK j \in DOMAIN b : b[j] = o
        BY <3>2
      <4>2. j \in 1..Len(ans) /\ ans[j] = Pdu(o)
        BY <1>8, <1>9, <4>1
      <4>3. Len(pdus) + j \in DOMAIN both /\ both[Len(pdus) + j] = Pdu(o)
        BY <1>13, <1>15, <4>2
      <4> QED BY <1>2, <1>14, <4>3 DEF Reached
    <3> QED BY <1>8, <2>2, <3>1, <3>2
  <2>3. CASE \E k \in DOMAIN pdus : pdus[k] = Pdu(o)
    <3>1. PICK k \in DOMAIN pdus : pdus[k] = Pdu(o)
      BY <2>3
    <3>2. k \in 1..Len(pdus)
      BY <1>4
    <3>3. k \in DOMAIN both /\ both[k] = Pdu(o)
      BY <1>13, <1>15, <3>1, <3>2
    <3> QED BY <1>2, <1>14, <3>3 DEF Reached
  <2>4. CASE \E k \in DOMAIN decoded : decoded[k].oid = o
    BY <1>1, <2>4 DEF Reached
  <2> QED BY <2>1, <2>2, <2>3, <2>4 DEF Reached
<1>20. Endings'
  BY <1>1 DEF Endings
<1> QED BY <1>1, <1>3, <1>16, <1>17, <1>18, <1>19, <1>20 DEF PollInv

\* All batches have been answered.
LEMMA GetDoneKeeps == PollInv /\ GetDone => PollInv'
<1> SUFFICES ASSUME PollInv, GetDone PROVE PollInv'
  OBVIOUS
<1>1. /\ input' = input /\ wire' = wire /\ pdus' = pdus /\ parser' = parser /\ decoded' = decoded
      /\ file' = file /\ pc = "get" /\ wire = <<>> /\ pc' = "parse"
  BY DEF GetDone
<1>2. /\ Attributes' = Attributes /\ Requested' = Requested /\ About' = About /\ Size' = Size
      /\ Answers' = Answers /\ (isScalar' <=> isScalar) /\ \A T : Varbinds(T)' = Varbinds(T)
      /\ (NoEmpty' <=> NoEmpty) /\ (Refused' <=> Refused) /\ \A o : Pdu(o)' = Pdu(o)
  BY <1>1, InputDecides
<1>3. Sized'
  BY <1>1, <1>2 DEF PollInv, Sized
<1>4. Shaped'
  BY <1>1, <1>2 DEF PollInv, Shaped
<1>5. Phases'
  BY <1>1, <1>2 DEF PollInv, Phases, Decoding, Assembled, Reported
<1>6. Covering'
  BY <1>1, <1>2 DEF PollInv, Covering, Reached
<1>7. Endings'
  BY <1>1 DEF Endings
<1> QED BY <1>1, <1>3, <1>4, <1>5, <1>6, <1>7 DEF PollInv

\* A stage lets go of a record for a reason that its input shows, or after a failed request.
LEMMA DropKeeps ==
    ASSUME PollInv, Drop, UNCHANGED <<input, wire, pdus, parser, decoded>>, timeout' \/ Explained
    PROVE  PollInv'
<1>1. /\ input' = input /\ wire' = wire /\ pdus' = pdus /\ parser' = parser /\ decoded' = decoded
      /\ pc' = "done" /\ file' = "dropped"
  BY DEF Drop
<1>2. /\ Attributes' = Attributes /\ Requested' = Requested /\ Size' = Size
      /\ Answers' = Answers /\ (isScalar' <=> isScalar) /\ \A T : Varbinds(T)' = Varbinds(T)
      /\ (Explained' <=> Explained)
  BY <1>1, InputDecides
<1>3. Sized'
  BY <1>1, <1>2 DEF PollInv, Sized
<1>4. Shaped'
  BY <1>1, <1>2 DEF PollInv, Shaped
<1>5. Phases'
  BY <1>1 DEF Phases, Decoding, Assembled, Reported
<1>6. Covering'
  BY <1>1 DEF Covering, Reported
<1>7. Endings'
  BY <1>1, <1>2 DEF Endings
<1> QED BY <1>1, <1>3, <1>4, <1>5, <1>6, <1>7 DEF PollInv

\* A walk.
LEMMA WalkKeeps == PollInv /\ Walk => PollInv'
<1> SUFFICES ASSUME PollInv, Walk PROVE PollInv'
  OBVIOUS
<1>1. /\ input' = input /\ wire' = wire /\ parser' = parser /\ decoded' = decoded
      /\ file' = file /\ pc = "poll" /\ ~isScalar /\ pc' = "parse"
  BY DEF Walk
<1>2. /\ Attributes' = Attributes /\ Requested' = Requested /\ About' = About /\ Size' = Size
      /\ Answers' = Answers /\ (isScalar' <=> isScalar) /\ \A T : Varbinds(T)' = Varbinds(T)
      /\ (NoEmpty' <=> NoEmpty) /\ (Refused' <=> Refused) /\ \A o : Pdu(o)' = Pdu(o)
  BY <1>1, InputDecides
<1>3. PICK attrs \in SetToSeqs(Attributes) : root' = LowestCommonOID(attrs) /\ pdus' = Walked(root')
  BY DEF Walk
<1>4. PICK w, r : w = Walked(r) /\ r = LowestCommonOID(attrs) /\ pdus' = w
  BY <1>3
<1>5. wire = <<>> /\ decoded = <<>> /\ input \in Polls
  BY <1>1 DEF PollInv, Phases
<1>6. /\ w \in Seq(Answers) /\ Len(w) <= Size
      /\ \A o \in DOMAIN input.dev : IsPrefix(r, o) => \E k \in DOMAIN w : w[k] = Pdu(o)
  BY <1>1, <1>4, <1>5, WalkedIs DEF Size
<1>7. Sized'
  <2>1. Len(wire) = 0 /\ Len(decoded) = 0 /\ Len(w) \in Nat
    BY <1>5, <1>6
  <2> QED BY <1>1, <1>2, <1>4, <1>6, <2>1 DEF Sized
<1>8. Shaped'
  BY <1>1, <1>2, <1>4, <1>6 DEF PollInv, Shaped
<1>9. Phases'
  BY <1>1, <1>2, <1>5 DEF Phases, Decoding, Assembled, Reported
<1>10. Covering'
  <2> SUFFICES ASSUME NoEmpty, NEW o \in About PROVE Reached(o)'
    BY <1>2 DEF Covering
  <2>1. Typed(Attributes) /\ o \in DOMAIN input.dev /\ o \in OIDs /\ Matches(Attributes, o)
    BY <1>5, PollIs, AboutIs
  <2>2. PICK a \in Attributes : IsPrefix(a.oid, o)
    BY <2>1 DEF Matches
  <2>3. \A x \in Attributes : x.oid # <<>>
    BY DEF NoEmpty
  <2>4. r \in OIDs /\ \A x \in Attributes : IsPrefix(r, x.oid)
    BY <1>4, <2>1, <2>3, RootIs
  <2>5. a.oid \in OIDs
    BY <2>1 DEF Typed
  <2>6. IsPrefix(r, o)
    BY <2>1, <2>2, <2>4, <2>5, PrefixFacts
  <2>7. \E k \in DOMAIN w : w[k] = Pdu(o)
    BY <1>6, <2>1, <2>6
  <2> QED BY <1>2, <1>4, <2>7 DEF Reached
<1>11. Endings'
  BY <1>1 DEF Endings
<1> QED BY <1>1, <1>5, <1>7, <1>8, <1>9, <1>10, <1>11 DEF PollInv

\* A walk without a root, or a request that fails.
LEMMA RequestKeeps == PollInv /\ (NoRoot \/ RequestFails) => PollInv'
<1>1. ASSUME PollInv, RequestFails PROVE PollInv'
  BY <1>1, DropKeeps DEF RequestFails
<1>2. ASSUME PollInv, NoRoot PROVE PollInv'
  <2>1. Drop /\ UNCHANGED <<input, wire, pdus, parser, decoded>> /\ ~isScalar
    BY <1>2 DEF NoRoot
  <2>2. PICK attrs \in SetToSeqs(Attributes) : LowestCommonOID(attrs) = <<>>
    BY <1>2 DEF NoRoot
  <2>3. Typed(Attributes) /\ \A o \in About : Matches(Attributes, o)
    BY <1>2, PollIs, AboutIs DEF PollInv
  <2>4. Explained
    <3>1. CASE \E a \in Attributes : a.oid = <<>>
      BY <3>1 DEF Explained
    <3>2. CASE ~\E a \in Attributes : a.oid = <<>>
      <4>1. Attributes = {} \/ LongestCommonPrefix({a.oid : a \in Attributes}) = <<>>
        BY <2>2, <2>3, <3>2, RootIs
      <4>2. Attributes = {} => About = {}
        BY <2>3 DEF Matches
      <4> QED BY <2>1, <4>1, <4>2 DEF Explained
    <3> QED BY <3>1, <3>2
  <2> QED BY <1>2, <2>1, <2>4, DropKeeps
<1> QED BY <1>1, <1>2

\* When every value has been reached and nothing is left to request, to decode or decoded,
\* there was none.
LEMMA NothingThere ==
    ASSUME PollInv, pc \in {"parse", "decode"}, pdus = <<>>, decoded = <<>>
    PROVE  Explained
<1>1. wire = <<>>
  BY DEF PollInv, Phases
<1>2. \A o : ~Reached(o)
  <2>1. DOMAIN wire = {} /\ DOMAIN pdus = {} /\ DOMAIN decoded = {}
    BY <1>1
  <2> QED BY <2>1 DEF Reached
<1>3. NoEmpty /\ ~Refused => About = {}
  BY <1>2 DEF PollInv, Covering
<1> QED BY <1>3 DEF Explained, NoEmpty

\* The decode stage refuses an answer.
LEMMA DecodeRefusedKeeps == PollInv /\ DecodeRefused => PollInv'
<1> SUFFICES ASSUME PollInv, DecodeRefused PROVE PollInv'
  OBVIOUS
<1>1. Drop /\ UNCHANGED <<input, wire, pdus, parser, decoded>> /\ pc = "parse"
  BY DEF DecodeRefused
<1>2. CASE \E a \in Attributes : a.oid = <<>>
  <2>1. Explained
    BY <1>2 DEF Explained
  <2> QED BY <1>1, <2>1, DropKeeps
<1>3. CASE pdus = <<>>
  <2>1. decoded = <<>>
    BY <1>1 DEF PollInv, Phases
  <2>2. Explained
    BY <1>1, <1>3, <2>1, NothingThere
  <2> QED BY <1>1, <2>2, DropKeeps
<1> QED BY <1>2, <1>3 DEF DecodeRefused

\* A parser is made.
LEMMA ParserKeeps == PollInv /\ NewVarbindParser => PollInv'
<1> SUFFICES ASSUME PollInv, NewVarbindParser PROVE PollInv'
  OBVIOUS
<1>1. /\ input' = input /\ wire' = wire /\ pdus' = pdus /\ decoded' = decoded
      /\ file' = file /\ pc = "parse" /\ pc' = "decode" /\ parser' \in Parsers(Attributes) /\ NoEmpty
  BY DEF NewVarbindParser, NoEmpty
<1>2. /\ Attributes' = Attributes /\ Requested' = Requested /\ About' = About /\ Size' = Size
      /\ Answers' = Answers /\ (isScalar' <=> isScalar) /\ \A T : Varbinds(T)' = Varbinds(T)
      /\ (NoEmpty' <=> NoEmpty) /\ (Refused' <=> Refused) /\ \A o : Pdu(o)' = Pdu(o)
  BY <1>1, InputDecides
<1>3. decoded = <<>> /\ wire = <<>>
  BY <1>1 DEF PollInv, Phases
<1>4. Sized'
  BY <1>1, <1>2 DEF PollInv, Sized
<1>5. Shaped'
  <2>1. parser' \subseteq Attributes
    BY <1>1 DEF Parsers
  <2>2. decoded' \in Seq(Varbinds(parser)')
    BY <1>1, <1>3
  <2> QED BY <1>1, <1>2, <2>1, <2>2 DEF PollInv, Shaped
<1>6. Phases'
  BY <1>1, <1>2, <1>3 DEF Phases, Decoding, Assembled, Reported
<1>7. Covering'
  BY <1>1, <1>2 DEF PollInv, Covering, Reached
<1>8. Endings'
  BY <1>1 DEF Endings
<1> QED BY <1>1, <1>4, <1>5, <1>6, <1>7, <1>8 DEF PollInv

\* What remains of a sequence after its head.
LEMMA TailIs ==
    ASSUME NEW S, NEW q \in Seq(S), q # <<>>
    PROVE  /\ Head(q) \in S /\ Tail(q) \in Seq(S) /\ Len(Tail(q)) = Len(q) - 1
           /\ \A k \in DOMAIN q : q[k] = Head(q) \/ \E j \in DOMAIN Tail(q) : Tail(q)[j] = q[k]
<1>1. Len(q) \in Nat /\ Len(q) >= 1 /\ DOMAIN q = 1..Len(q)
  BY EmptySeq
<1>2. Head(q) = q[1] /\ Head(q) \in S
  BY <1>1
<1>3. PICK t : t = Tail(q)
  OBVIOUS
<1>4. t \in Seq(S) /\ Len(t) = Len(q) - 1 /\ \A j \in 1..Len(t) : t[j] = q[j + 1]
  BY <1>1, <1>3
<1>5. ASSUME NEW k \in 1..Len(q), k # 1 PROVE \E j \in DOMAIN t : t[j] = q[k]
  <2>1. k - 1 \in 1..Len(t) /\ (k - 1) + 1 = k
    BY <1>1, <1>4, <1>5
  <2>2. t[k - 1] = q[k]
    BY <1>4, <2>1
  <2> QED BY <1>4, <2>1, <2>2
<1> QED BY <1>1, <1>2, <1>3, <1>4, <1>5

\* A PDU is passed over: none that the object is about.
LEMMA DecodeSkipKeeps == PollInv /\ DecodeSkip => PollInv'
<1> SUFFICES ASSUME PollInv, DecodeSkip PROVE PollInv'
  OBVIOUS
<1>1. /\ input' = input /\ wire' = wire /\ parser' = parser /\ decoded' = decoded /\ file' = file
      /\ pc = "decode" /\ pc' = "decode" /\ pdus # <<>> /\ Skipped(Head(pdus)) /\ pdus' = Tail(pdus)
  BY DEF DecodeSkip
<1>2. /\ Attributes' = Attributes /\ Requested' = Requested /\ About' = About /\ Size' = Size
      /\ Answers' = Answers /\ (isScalar' <=> isScalar) /\ \A T : Varbinds(T)' = Varbinds(T)
      /\ (NoEmpty' <=> NoEmpty) /\ (Refused' <=> Refused) /\ \A o : Pdu(o)' = Pdu(o)
  BY <1>1, InputDecides
<1>3. PICK t : t = Tail(pdus)
  OBVIOUS
<1>4. /\ t \in Seq(Answers) /\ Len(t) = Len(pdus) - 1
      /\ \A k \in DOMAIN pdus : pdus[k] = Head(pdus) \/ \E j \in DOMAIN t : t[j] = pdus[k]
  BY <1>1, <1>3, TailIs DEF PollInv, Shaped
<1>5. pdus' = t
  BY <1>1, <1>3
<1>6. input \in Polls /\ parser \in Parsers(Attributes)
  BY <1>1 DEF PollInv, Phases, Decoding
<1>7. Sized'
  <2>1. Len(wire) + Len(pdus) + Len(decoded) <= Size
    BY DEF PollInv, Sized
  <2>2. Len(wire) + Len(t) + Len(decoded) <= Size
    BY <1>4, <2>1, Counts
  <2> QED BY <1>1, <1>2, <1>5, <2>2 DEF Sized
<1>8. Shaped'
  BY <1>1, <1>2, <1>4, <1>5 DEF PollInv, Shaped
<1>9. Phases'
  BY <1>1, <1>2 DEF PollInv, Phases, Decoding, Assembled, Reported
<1>10. Covering'
  <2> SUFFICES ASSUME NoEmpty, ~Refused, NEW o \in About PROVE Reached(o)'
    BY <1>2 DEF Covering
  <2>1. Reached(o)
    BY <1>1 DEF PollInv, Covering
  <2>2. Pdu(o) # Head(pdus)
    BY <1>1, <1>6, SkippedIs
  <2>3. CASE \E k \in DOMAIN pdus : pdus[k] = Pdu(o)
    <3>1. \E j \in DOMAIN t : t[j] = Pdu(o)
      BY <1>4, <2>2, <2>3
    <3> QED BY <1>2, <1>5, <3>1 DEF Reached
  <2>4. CASE ~\E k \in DOMAIN pdus : pdus[k] = Pdu(o)
    BY <1>1, <2>1, <2>4 DEF Reached
  <2> QED BY <2>3, <2>4
<1>11. Endings'
  BY <1>1 DEF Endings
<1> QED BY <1>1, <1>6, <1>7, <1>8, <1>9, <1>10, <1>11 DEF PollInv

\* A PDU becomes the DecodedVarbind of its OID.
LEMMA DecodeOneKeeps == PollInv /\ DecodeOne => PollInv'
<1> SUFFICES ASSUME PollInv, DecodeOne PROVE PollInv'
  OBVIOUS
<1> DEFINE p == Head(pdus)
           vb == Varbind(matchAttribute(parser, p.oid), p)
<1>1. /\ input' = input /\ wire' = wire /\ parser' = parser /\ file' = file
      /\ pc = "decode" /\ pc' = "decode" /\ pdus # <<>> /\ pdus' = Tail(pdus)
      /\ ~Skipped(p) /\ vb.value # Failed /\ decoded' = Append(decoded, vb)
  BY DEF DecodeOne
<1>2. /\ Attributes' = Attributes /\ Requested' = Requested /\ About' = About /\ Size' = Size
      /\ Answers' = Answers /\ (isScalar' <=> isScalar) /\ \A T : Varbinds(T)' = Varbinds(T)
      /\ (NoEmpty' <=> NoEmpty) /\ (Refused' <=> Refused) /\ \A o : Pdu(o)' = Pdu(o)
  BY <1>1, InputDecides
<1>3. PICK t : t = Tail(pdus)
  OBVIOUS
<1>4. /\ t \in Seq(Answers) /\ Len(t) = Len(pdus) - 1 /\ p \in Answers
      /\ \A k \in DOMAIN pdus : pdus[k] = p \/ \E j \in DOMAIN t : t[j] = pdus[k]
  BY <1>1, <1>3, TailIs DEF PollInv, Shaped
<1>5. pdus' = t
  BY <1>1, <1>3
<1>6. input \in Polls /\ parser \in Parsers(Attributes) /\ decoded \in Seq(Varbinds(parser))
  BY <1>1 DEF PollInv, Phases, Decoding, Shaped
<1>7. p.oid \in About /\ p = Pdu(p.oid)
  BY <1>1, <1>4, <1>6, SkippedIs
<1>8. PICK o \in About : o = p.oid /\ p = Pdu(o)
  BY <1>7
<1> HIDE DEF p
<1>9. vb = Dec(parser, o)
  BY <1>8 DEF Dec
<1>10. vb \in Varbinds(parser)
  BY <1>1, <1>8, <1>9 DEF Varbinds
<1>11. vb.oid = o
  BY <1>8, <1>9, VarbindFields DEF Dec
<1> HIDE DEF vb
<1>12. PICK d : d = Append(decoded, vb)
  OBVIOUS
<1>13. /\ d \in Seq(Varbinds(parser)) /\ Len(d) = Len(decoded) + 1
       /\ \A k \in 1..Len(decoded) : d[k] = decoded[k]
       /\ d[Len(decoded) + 1] = vb
  BY <1>6, <1>10, <1>12, AppendProperties
<1>14. decoded' = d
  BY <1>1, <1>12
<1>15. Sized'
  <2>1. Len(wire) + Len(pdus) + Len(decoded) <= Size
    BY DEF PollInv, Sized
  <2>2. Len(wire) + Len(t) + Len(d) <= Size
    BY <1>4, <1>13, <2>1, Counts
  <2> QED BY <1>1, <1>2, <1>5, <1>14, <2>2 DEF Sized
<1>16. Shaped'
  BY <1>1, <1>2, <1>4, <1>5, <1>13, <1>14 DEF PollInv, Shaped
<1>17. Phases'
  BY <1>1, <1>2 DEF PollInv, Phases, Decoding, Assembled, Reported
<1>18. Covering'
  <2> SUFFICES ASSUME NoEmpty, ~Refused, NEW q \in About PROVE Reached(q)'
    BY <1>2 DEF Covering
  <2>1. Reached(q)
    BY <1>1 DEF PollInv, Covering
  <2>2. Len(decoded) \in Nat /\ DOMAIN decoded = 1..Len(decoded) /\ DOMAIN d = 1..(Len(decoded) + 1)
    BY <1>6, <1>13
  <2>3. CASE \E k \in DOMAIN wire : wire[k] = q
    BY <1>1, <2>3 DEF Reached
  <2>4. CASE \E k \in DOMAIN pdus : pdus[k] = Pdu(q)
    <3>1. CASE \E j \in DOMAIN t : t[j] = Pdu(q)
      BY <1>2, <1>5, <3>1 DEF Reached
    <3>2. CASE Pdu(q) = p
      <4>1. q = o
        BY <1>8, <3>2 DEF Pdu
      <4>2. Len(decoded) + 1 \in DOMAIN d /\ d[Len(decoded) + 1].oid = q
        BY <1>11, <1>13, <2>2, <4>1
      <4> QED BY <1>14, <4>2 DEF Reached
    <3> QED BY <1>4, <2>4, <3>1, <3>2
  <2>5. CASE \E k \in DOMAIN decoded : decoded[k].oid = q
    <3>1. PICK k \in DOMAIN decoded : decoded[k].oid = q
      BY <2>5
    <3>2. k \in DOMAIN d /\ d[k].oid = q
      BY <1>13, <2>2, <3>1
    <3> QED BY <1>14, <3>2 DEF Reached
  <2> QED BY <2>1, <2>3, <2>4, <2>5 DEF Reached
<1>19. Endings'
  BY <1>1 DEF Endings
<1> QED BY <1>1, <1>6, <1>15, <1>16, <1>17, <1>18, <1>19 DEF PollInv

\* A value that cannot be converted ends an answer.
LEMMA DecodeFailsKeeps == PollInv /\ DecodeFails => PollInv'
<1> SUFFICES ASSUME PollInv, DecodeFails PROVE PollInv'
  OBVIOUS
<1>1. /\ Drop /\ UNCHANGED <<input, wire, pdus, parser, decoded>>
      /\ pc = "decode" /\ pdus # <<>> /\ Unusable(Head(pdus))
  BY DEF DecodeFails
<1>2. input \in Polls /\ parser \in Parsers(Attributes)
  BY <1>1 DEF PollInv, Phases, Decoding
<1>3. PICK p \in Answers : p = Head(pdus)
  BY <1>1, TailIs DEF PollInv, Shaped
<1>4. ~Skipped(p) /\ ConvertValue(p, matchAttribute(parser, p.oid).syntax) = Failed
  BY <1>1, <1>3 DEF Unusable
<1>5. PICK o \in About : o = p.oid /\ p = Pdu(o)
  BY <1>2, <1>4, SkippedIs
<1>6. matchAttribute(parser, o) \in Attributes /\ matchAttribute(parser, o).oid = Column(o)
  BY <1>2, MatchedIs
<1>7. Explained
  BY <1>4, <1>5, <1>6 DEF Explained
<1> QED BY <1>1, <1>7, DropKeeps

\* An answer goes from one stage to the next.
LEMMA HandOn ==
    ASSUME PollInv, UNCHANGED <<input, wire, pdus, parser, decoded, file>>,
           \/ pc = "decode" /\ pc' = "produce" /\ pdus = <<>>
           \/ pc = "produce" /\ pc' = "format" /\ record' = Build(decoded, input.reg)
           \/ pc = "format" /\ pc' = "send" /\ record' = record
    PROVE  PollInv'
<1>1. /\ input' = input /\ wire' = wire /\ pdus' = pdus /\ parser' = parser /\ decoded' = decoded
      /\ file' = file /\ pc \in {"decode", "produce", "format"}
      /\ pc' \in {"produce", "format", "send"}
  OBVIOUS
<1>2. /\ Attributes' = Attributes /\ Requested' = Requested /\ About' = About /\ Size' = Size
      /\ Answers' = Answers /\ (isScalar' <=> isScalar) /\ \A T : Varbinds(T)' = Varbinds(T)
      /\ (NoEmpty' <=> NoEmpty) /\ (Refused' <=> Refused) /\ \A o : Pdu(o)' = Pdu(o)
  BY <1>1, InputDecides
<1>3. Sized'
  BY <1>1, <1>2 DEF PollInv, Sized
<1>4. Shaped'
  BY <1>1, <1>2 DEF PollInv, Shaped
<1>5. Phases'
  <2>1. wire = <<>> /\ pdus = <<>> /\ NoEmpty /\ parser \in Parsers(Attributes)
    BY DEF PollInv, Phases, Decoding
  <2>2. Assembled' => record' = Build(decoded, input.reg)
    BY DEF PollInv, Phases, Assembled, Reported
  <2> QED BY <1>1, <1>2, <2>1, <2>2 DEF Phases
<1>6. Covering'
  BY <1>1, <1>2 DEF PollInv, Covering, Reached
<1>7. Endings'
  BY <1>1 DEF Endings
<1> QED BY <1>1, <1>3, <1>4, <1>5, <1>6, <1>7 DEF PollInv

\* An answer is decoded.
LEMMA DecodeDoneKeeps == PollInv /\ DecodeDone => PollInv'
<1> SUFFICES ASSUME PollInv, DecodeDone PROVE PollInv'
  OBVIOUS
<1>1. UNCHANGED <<input, wire, pdus, parser, decoded>> /\ pc = "decode" /\ pdus = <<>>
  BY DEF DecodeDone
<1>2. CASE decoded = <<>>
  <2>1. Drop
    BY <1>2 DEF DecodeDone
  <2>2. Explained
    BY <1>1, <1>2, NothingThere
  <2> QED BY <1>1, <2>1, <2>2, DropKeeps
<1>3. CASE decoded # <<>>
  <2>1. pc' = "produce" /\ file' = file
    BY <1>3 DEF DecodeDone
  <2> QED BY <1>1, <2>1, HandOn
<1> QED BY <1>2, <1>3

\* What is decoded when an answer has been decoded.
LEMMA AllDecoded ==
    ASSUME PollInv, pc \in {"produce", "format", "send"} \/ Reported
    PROVE  /\ input \in Polls /\ NoEmpty /\ parser \in Parsers(Attributes)
           /\ decoded \in Seq(Varbinds(parser))
           /\ ~Refused => \A o \in About : \E k \in DOMAIN decoded :
                /\ decoded[k] = Varbind(matchAttribute(parser, o), Pdu(o))
                /\ decoded[k].value # Failed
<1>1. /\ input \in Polls /\ NoEmpty /\ parser \in Parsers(Attributes)
      /\ decoded \in Seq(Varbinds(parser)) /\ wire = <<>> /\ pdus = <<>>
  BY DEF PollInv, Phases, Shaped, Decoding, Reported
<1>2. ASSUME ~Refused, NEW o \in About
      PROVE  \E k \in DOMAIN decoded : /\ decoded[k] = Varbind(matchAttribute(parser, o), Pdu(o))
                                       /\ decoded[k].value # Failed
  <2>1. Reached(o)
    BY <1>1, <1>2 DEF PollInv, Covering, Reported
  <2>2. DOMAIN wire = {} /\ DOMAIN pdus = {}
    BY <1>1
  <2>3. PICK k \in DOMAIN decoded : decoded[k].oid = o
    BY <2>1, <2>2 DEF Reached
  <2>4. decoded[k] \in Varbinds(parser)
    BY <1>1
  <2>5. PICK q \in About : decoded[k] = Dec(parser, q) /\ Dec(parser, q).value # Failed
    BY <2>4 DEF Varbinds
  <2>6. q = o
    BY <2>3, <2>5, VarbindFields DEF Dec
  <2> QED BY <2>5, <2>6 DEF Dec
<1> QED BY <1>1, <1>2

\* A metric of a record is of an OID that the object is about, under its column's attribute.
LEMMA MetricIs ==
    ASSUME input \in Polls, parser \in Parsers(Attributes), decoded \in Seq(Varbinds(parser)),
           NEW m \in Build(decoded, input.reg)
    PROVE  \E o \in About, a \in parser :
              /\ a = matchAttribute(parser, o) /\ a.oid = Column(o) /\ IsPrefix(a.oid, o) /\ ~a.tag
              /\ m.oid = o /\ m.name = a.name /\ m.instance = Instance(a, o) /\ m.syntax = a.syntax
              /\ Varbind(a, Pdu(o)).value # Failed
              /\ m.value = MetricValue(input.reg, Varbind(a, Pdu(o)))
              /\ m.tags = Tags(decoded, m.instance)
              /\ m = Metric(decoded, input.reg, m.name, m.instance)
              /\ \A j \in DOMAIN decoded :
                   ~decoded[j].tag /\ decoded[j].name = m.name /\ decoded[j].instance = m.instance
                     => syntaxPriority(decoded[j].syntax) <= syntaxPriority(m.syntax)
<1>1. \A v \in Varbinds(parser) : v.tag \in BOOLEAN
  <2> SUFFICES ASSUME NEW v \in Varbinds(parser) PROVE v.tag \in BOOLEAN
    OBVIOUS
  <2>1. PICK o \in About, a \in parser : v = Varbind(a, Pdu(o))
    BY VarbindIs
  <2>2. a \in Attributes /\ Typed(Attributes)
    BY PollIs DEF Parsers
  <2> QED BY <2>1, <2>2, VarbindFields DEF Typed
<1>2. PICK k \in DOMAIN decoded :
              /\ ~decoded[k].tag /\ m.oid = decoded[k].oid /\ m.name = decoded[k].name
              /\ m.instance = decoded[k].instance
              /\ m.syntax = decoded[k].syntax /\ m.value = MetricValue(input.reg, decoded[k])
              /\ m.tags = Tags(decoded, m.instance)
              /\ m = Metric(decoded, input.reg, m.name, m.instance)
              /\ \A j \in DOMAIN decoded :
                   ~decoded[j].tag /\ decoded[j].name = m.name /\ decoded[j].instance = m.instance
                     => syntaxPriority(decoded[j].syntax) <= syntaxPriority(m.syntax)
  BY <1>1, BuildIs
<1>3. decoded[k] \in Varbinds(parser)
  OBVIOUS
<1>4. PICK o \in About, a \in parser :
         /\ a = matchAttribute(parser, o) /\ a.oid = Column(o) /\ IsPrefix(a.oid, o)
         /\ decoded[k] = Varbind(a, Pdu(o)) /\ decoded[k].value # Failed
  BY <1>3, VarbindIs
<1>5. /\ Varbind(a, Pdu(o)).oid = o /\ Varbind(a, Pdu(o)).name = a.name
      /\ Varbind(a, Pdu(o)).syntax = a.syntax /\ Varbind(a, Pdu(o)).tag = a.tag
      /\ Varbind(a, Pdu(o)).instance = Instance(a, o)
  BY VarbindFields
<1>6. /\ ~a.tag /\ m.oid = o /\ m.name = a.name /\ m.instance = Instance(a, o) /\ m.syntax = a.syntax
      /\ Varbind(a, Pdu(o)).value # Failed /\ m.value = MetricValue(input.reg, Varbind(a, Pdu(o)))
  BY <1>2, <1>4, <1>5
<1> QED BY <1>2, <1>4, <1>6

\* A tag of a row is of an OID of that row.
LEMMA TagIs ==
    ASSUME input \in Polls, parser \in Parsers(Attributes), decoded \in Seq(Varbinds(parser)),
           NEW instance, NEW name \in DOMAIN Tags(decoded, instance)
    PROVE  \E o \in About, a \in parser :
              /\ a = matchAttribute(parser, o) /\ a.oid = Column(o) /\ a.tag
              /\ Instance(a, o) = instance /\ a.name = name
              /\ Tags(decoded, instance)[name] = tagValue(ConvertValue(Pdu(o), a.syntax))
<1>1. PICK k \in DOMAIN decoded :
         /\ decoded[k].tag /\ decoded[k].instance = instance /\ decoded[k].name = name
         /\ Tags(decoded, instance)[name] = tagValue(decoded[k].value)
  BY TagsIs
<1>2. decoded[k] \in Varbinds(parser)
  OBVIOUS
<1>3. PICK o \in About, a \in parser :
         /\ a = matchAttribute(parser, o) /\ a.oid = Column(o)
         /\ decoded[k] = Varbind(a, Pdu(o))
  BY <1>2, VarbindIs
<1>4. /\ Varbind(a, Pdu(o)).name = a.name /\ Varbind(a, Pdu(o)).tag = a.tag
      /\ Varbind(a, Pdu(o)).instance = Instance(a, o)
      /\ Varbind(a, Pdu(o)).value = ConvertValue(Pdu(o), a.syntax)
  BY VarbindFields
<1>5. a.tag /\ Instance(a, o) = instance /\ a.name = name
      /\ Tags(decoded, instance)[name] = tagValue(ConvertValue(Pdu(o), a.syntax))
  BY <1>1, <1>3, <1>4
<1> QED BY <1>3, <1>5

\* The metrics of an answer.
LEMMA ProduceKeeps == PollInv /\ Produce => PollInv'
<1> SUFFICES ASSUME PollInv, Produce PROVE PollInv'
  OBVIOUS
<1>1. /\ UNCHANGED <<input, wire, pdus, parser, decoded>> /\ pc = "produce"
      /\ record' = Build(decoded, input.reg)
  BY DEF Produce
<1>2. CASE record' # {}
  <2>1. pc' = "format" /\ file' = file
    BY <1>2 DEF Produce
  <2> QED BY <1>1, <2>1, HandOn
<1>3. CASE record' = {}
  <2>1. Drop
    BY <1>3 DEF Produce
  <2>2. \A k \in DOMAIN decoded : decoded[k].tag
    BY <1>1, <1>3 DEF Build
  <2>3. /\ input \in Polls /\ parser \in Parsers(Attributes)
        /\ ~Refused => \A o \in About : \E k \in DOMAIN decoded :
             decoded[k] = Varbind(matchAttribute(parser, o), Pdu(o))
    BY <1>1, AllDecoded
  <2>4. ASSUME ~Refused, NEW o \in About PROVE \E a \in Attributes : a.oid = Column(o) /\ a.tag
    <3>1. PICK k \in DOMAIN decoded : decoded[k] = Varbind(matchAttribute(parser, o), Pdu(o))
      BY <2>3, <2>4
    <3>2. decoded[k].tag /\ Varbind(matchAttribute(parser, o), Pdu(o)).tag = matchAttribute(parser, o).tag
      BY <2>2, VarbindFields
    <3>3. matchAttribute(parser, o) \in Attributes /\ matchAttribute(parser, o).oid = Column(o)
      BY <2>3, MatchedIs
    <3> QED BY <3>1, <3>2, <3>3
  <2>5. Explained
    BY <2>4 DEF Explained
  <2> QED BY <1>1, <2>1, <2>5, DropKeeps
<1> QED BY <1>2, <1>3

\* A record is formatted, or has a value that cannot be written.
LEMMA FormatKeeps == PollInv /\ Format => PollInv'
<1> SUFFICES ASSUME PollInv, Format PROVE PollInv'
  OBVIOUS
<1>1. UNCHANGED <<input, wire, pdus, parser, decoded>> /\ pc = "format" /\ record' = record
  BY DEF Format
<1>2. /\ input \in Polls /\ parser \in Parsers(Attributes) /\ decoded \in Seq(Varbinds(parser))
      /\ record = Build(decoded, input.reg)
  BY <1>1, AllDecoded DEF PollInv, Phases, Assembled
<1>3. CASE isPoll /\ \E m \in record : IsNaN(m.value)
  <2>1. Drop
    BY <1>3 DEF Format
  <2>2. PICK m \in Build(decoded, input.reg) : IsNaN(m.value)
    BY <1>2, <1>3
  <2>3. PICK o \in About, a \in parser :
           a.oid = Column(o) /\ m.value = MetricValue(input.reg, Varbind(a, Pdu(o)))
    BY <1>2, MetricIs
  <2>4. PICK vb : vb = Varbind(a, Pdu(o))
    OBVIOUS
  <2>5. m.value.kind = "float64"
    BY <2>2 DEF IsNaN
  <2>6. m.value = vb.value
    <3>1. \/ m.value = vb.value
          \/ m.value = Value("delta", vb.value.n)
          \/ m.value.kind \in {"oidlabel", "labels", "label"}
      BY <2>3, <2>4, MetricValueIs
    <3>2. Value("delta", vb.value.n).kind = "delta"
      BY DEF Value
    <3> QED BY <2>5, <3>1, <3>2
  <2>7. vb.value = ConvertValue(Pdu(o), a.syntax)
    BY <2>4, VarbindFields
  <2>8. a \in Attributes /\ IsNaN(ConvertValue(Pdu(o), a.syntax))
    BY <1>2, <2>2, <2>6, <2>7 DEF Parsers
  <2>9. Explained
    BY <2>3, <2>8 DEF Explained
  <2> QED BY <1>1, <2>1, <2>9, DropKeeps
<1>4. CASE ~(isPoll /\ \E m \in record : IsNaN(m.value))
  <2>1. pc' = "send" /\ file' = file
    BY <1>4 DEF Format
  <2> QED BY <1>1, <2>1, HandOn
<1> QED BY <1>3, <1>4

\* What a record can spell trap_info with.
LEMMA MarkerIs ==
    ASSUME PollInv, pc = "send", HasMarker
    PROVE  Excused
<1>1. /\ input \in Polls /\ parser \in Parsers(Attributes) /\ decoded \in Seq(Varbinds(parser))
      /\ record = Build(decoded, input.reg)
  BY AllDecoded DEF PollInv, Phases, Assembled
<1>2. isPoll /\ parser \subseteq Attributes
  BY <1>1, PollIs DEF Parsers
<1> SUFFICES ASSUME "trap_info" \notin input.labels PROVE Excused
  BY DEF Excused
<1>3. PICK m \in Build(decoded, input.reg) : SpellsTrapInfo(m)
  BY <1>1, <1>2 DEF HasMarker
<1>4. PICK o \in About, a \in parser :
         /\ a.oid = Column(o) /\ m.name = a.name /\ m.syntax = a.syntax
         /\ m.tags = Tags(decoded, m.instance)
         /\ m.value = MetricValue(input.reg, Varbind(a, Pdu(o)))
  BY <1>1, MetricIs
<1>5. CASE "trap_info" \in {m.name, m.syntax}
  BY <1>2, <1>4, <1>5 DEF Excused
<1>6. CASE m.value \in SpelledTrapInfo
  BY <1>2, <1>4, <1>6 DEF Excused
<1>7. ASSUME NEW t \in DOMAIN m.tags, t = "trap_info" \/ m.tags[t] \in SpelledTrapInfo
      PROVE  Excused
  <2>1. PICK q \in About, b \in parser :
           /\ b.oid = Column(q) /\ b.name = t
           /\ Tags(decoded, m.instance)[t] = tagValue(ConvertValue(Pdu(q), b.syntax))
    <3>1. t \in DOMAIN Tags(decoded, m.instance)
      BY <1>4, <1>7
    <3> QED BY <1>1, <3>1, TagIs
  <2>2. CASE t = "trap_info"
    BY <1>2, <2>1, <2>2 DEF Excused
  <2>3. CASE m.tags[t] \in SpelledTrapInfo
    <3>1. tagValue(Varbind(b, Pdu(q)).value) \in SpelledTrapInfo
      BY <1>4, <2>1, <2>3, VarbindFields
    <3> QED BY <1>2, <2>1, <3>1 DEF Excused
  <2> QED BY <1>7, <2>2, <2>3
<1> QED BY <1>3, <1>5, <1>6, <1>7 DEF SpellsTrapInfo

\* A record is written.
LEMMA SendKeeps == PollInv /\ Send => PollInv'
<1> SUFFICES ASSUME PollInv, Send PROVE PollInv'
  OBVIOUS
<1>1. /\ input' = input /\ wire' = wire /\ pdus' = pdus /\ parser' = parser /\ decoded' = decoded
      /\ record' = record /\ pc = "send" /\ pc' = "done"
      /\ file' = IF HasMarker THEN "traps" ELSE "metrics"
  BY DEF Send
<1>2. /\ Attributes' = Attributes /\ Requested' = Requested /\ About' = About /\ Size' = Size
      /\ Answers' = Answers /\ (isScalar' <=> isScalar) /\ \A T : Varbinds(T)' = Varbinds(T)
      /\ (NoEmpty' <=> NoEmpty) /\ (Refused' <=> Refused) /\ \A o : Pdu(o)' = Pdu(o)
      /\ (Excused' <=> Excused)
  BY <1>1, InputDecides
<1>3. Sized'
  BY <1>1, <1>2 DEF PollInv, Sized
<1>4. Shaped'
  BY <1>1, <1>2 DEF PollInv, Shaped
<1>5. Phases'
  <2>1. /\ wire = <<>> /\ pdus = <<>> /\ NoEmpty /\ parser \in Parsers(Attributes)
        /\ record = Build(decoded, input.reg)
    BY <1>1 DEF PollInv, Phases, Decoding, Assembled
  <2> QED BY <1>1, <1>2, <2>1 DEF Phases
<1>6. Covering'
  BY <1>1, <1>2 DEF PollInv, Covering, Reached
<1>7. Endings'
  <2>1. file' # "dropped"
    BY <1>1
  <2>2. file' = "metrics" \/ Excused
    BY <1>1, MarkerIs
  <2> QED BY <1>2, <2>1, <2>2 DEF Endings
<1> QED BY <1>1, <1>3, <1>4, <1>5, <1>6, <1>7 DEF PollInv

\* What has happened to a record so far: a poll's keeps its invariant, a trap's is
\* written to its file.
TrapInv == input \in Packets /\ pc \in {"trap", "format", "send", "done"} /\
           (pc = "done" => file \in {"dropped", "traps"}) /\
           file \in {Nothing, "metrics", "traps", "dropped"}
Inv == PollInv \/ TrapInv

\* No step leaves the invariant of a poll.
LEMMA PollStep == PollInv /\ [Next]_vars => PollInv'
<1> SUFFICES ASSUME PollInv, [Next]_vars PROVE PollInv'
  OBVIOUS
<1>1. pc # "trap"
  BY DEF PollInv, Shaped
<1>2. ~HandleTrap
  BY <1>1 DEF HandleTrap
<1>3. CASE UNCHANGED vars
  <2>1. /\ input' = input /\ wire' = wire /\ pdus' = pdus /\ parser' = parser /\ decoded' = decoded
        /\ record' = record /\ pc' = pc /\ file' = file /\ timeout' = timeout
    BY <1>3 DEF vars
  <2>2. /\ Attributes' = Attributes /\ Requested' = Requested /\ About' = About /\ Size' = Size
        /\ Answers' = Answers /\ (isScalar' <=> isScalar) /\ \A T : Varbinds(T)' = Varbinds(T)
        /\ (NoEmpty' <=> NoEmpty) /\ (Refused' <=> Refused) /\ \A o : Pdu(o)' = Pdu(o)
        /\ (Excused' <=> Excused) /\ (Explained' <=> Explained) /\ (isPoll' <=> isPoll)
    BY <2>1, InputDecides
  <2>3. Sized' /\ Endings'
    BY <2>1, <2>2 DEF PollInv, Sized, Endings
  <2>4. Shaped'
    BY <2>1, <2>2 DEF PollInv, Shaped
  <2>5. (Reported' <=> Reported) /\ (Decoding' <=> Decoding) /\ (Assembled' <=> Assembled)
    BY <2>1, <2>2 DEF Reported, Decoding, Assembled
  <2>6. Phases'
    BY <2>1, <2>2, <2>5 DEF PollInv, Phases
  <2>7. Covering'
    BY <2>1, <2>2, <2>5 DEF PollInv, Covering, Reached
  <2> QED BY <2>1, <2>3, <2>4, <2>6, <2>7 DEF PollInv
<1>4. ASSUME doGet \/ GetBatch \/ GetDone \/ Walk \/ NoRoot \/ RequestFails PROVE PollInv'
  BY <1>4, doGetKeeps, GetBatchKeeps, GetDoneKeeps, WalkKeeps, RequestKeeps
<1>5. ASSUME DecodeRefused \/ NewVarbindParser \/ DecodeSkip \/ DecodeOne \/ DecodeFails \/ DecodeDone
      PROVE  PollInv'
  BY <1>5, DecodeRefusedKeeps, ParserKeeps, DecodeSkipKeeps, DecodeOneKeeps, DecodeFailsKeeps,
     DecodeDoneKeeps
<1>6. ASSUME Produce \/ Format \/ Send PROVE PollInv'
  BY <1>6, ProduceKeeps, FormatKeeps, SendKeeps
<1> QED BY <1>2, <1>3, <1>4, <1>5, <1>6 DEF Next

\* ... or of a trap.
LEMMA TrapStep == TrapInv /\ [Next]_vars => TrapInv'
<1> SUFFICES ASSUME TrapInv, [Next]_vars PROVE TrapInv'
  OBVIOUS
<1>0. input \in Packets /\ pc \in {"trap", "format", "send", "done"} /\ input' = input
  BY InputKept DEF TrapInv
<1>1. CASE UNCHANGED vars
  BY <1>1 DEF vars, TrapInv
<1>2. CASE HandleTrap
  BY <1>0, <1>2 DEF HandleTrap, Drop, TrapInv
<1>3. CASE Format
  BY <1>0, <1>3 DEF Format, Drop, TrapInv
<1>4. CASE Send
  <2>1. HasMarker
    BY <1>0, PollOrPacket DEF HasMarker
  <2> QED BY <1>0, <1>4, <2>1 DEF Send, TrapInv
<1>5. ~(doGet \/ GetBatch \/ GetDone \/ Walk \/ NoRoot \/ RequestFails)
  BY <1>0 DEF doGet, GetBatch, GetDone, Walk, NoRoot, RequestFails
<1>6. ~(DecodeRefused \/ NewVarbindParser \/ DecodeSkip \/ DecodeOne \/ DecodeFails \/ DecodeDone \/ Produce)
  BY <1>0 DEF DecodeRefused, NewVarbindParser, DecodeSkip, DecodeOne, DecodeFails, DecodeDone, Produce
<1> QED BY <1>1, <1>2, <1>3, <1>4, <1>5, <1>6 DEF Next

\* The invariant holds at first.
LEMMA InitInv == Init => Inv
<1> SUFFICES ASSUME Init PROVE Inv
  OBVIOUS
<1>1. /\ wire = <<>> /\ pdus = <<>> /\ decoded = <<>> /\ parser = {} /\ file = Nothing
  BY DEF Init
<1>2. CASE pc = "poll" /\ input \in Polls
  <2>1. IsFiniteSet(IF isScalar THEN Attributes ELSE DOMAIN input.dev)
    BY <1>2, PollIs DEF Typed
  <2>2. Size \in Nat
    BY <2>1, FS_CardinalityType DEF Size
  <2>3. Len(wire) = 0 /\ Len(pdus) = 0 /\ Len(decoded) = 0
    BY <1>1
  <2>4. Sized
    BY <2>2, <2>3 DEF Sized
  <2>5. wire \in Seq(Requested) /\ pdus \in Seq(Answers) /\ decoded \in Seq(Varbinds(parser))
    BY <1>1
  <2>6. Shaped
    BY <1>1, <1>2, <2>5 DEF Shaped
  <2>7. Phases /\ Covering /\ Endings
    BY <1>1, <1>2 DEF Phases, Covering, Endings, Decoding, Assembled, Reported
  <2> QED BY <1>2, <2>4, <2>6, <2>7 DEF Inv, PollInv
<1>3. CASE pc = "trap" /\ input \in Packets
  BY <1>1, <1>3 DEF Inv, TrapInv
<1> QED BY <1>2, <1>3 DEF Init, Polls

\* Every state of a record has the invariant.
LEMMA Invariance == Spec => []Inv
<1>1. Inv /\ [Next]_vars => Inv'
  BY PollStep, TrapStep DEF Inv
<1> QED BY InitInv, <1>1, PTL DEF Spec
-----------------------------------------------------------------------------
(* What is true of every record. *)

\* Every variable has its type, and no more is decoded than was answered.
THEOREM TypeCorrect == Spec => []TypeOK
<1>1. PollInv => TypeOK
  <2> SUFFICES ASSUME PollInv PROVE TypeOK
    OBVIOUS
  <2>1. /\ pc \in {"poll", "get", "parse", "decode", "produce", "format", "send", "done"}
        /\ file \in {Nothing, "metrics", "traps", "dropped"}
        /\ parser \subseteq Attributes /\ decoded \in Seq(Varbinds(parser))
    BY DEF PollInv, Shaped
  <2>2. Len(pdus) + Len(decoded) <= Size
    <3>1. Len(wire) + Len(pdus) + Len(decoded) <= Size
      BY DEF PollInv, Sized
    <3> QED BY <3>1, Counts
  <2>3. ASSUME NEW k \in DOMAIN decoded PROVE decoded[k].value.kind \in Kinds
    <3>1. decoded[k] \in Varbinds(parser)
      BY <2>1
    <3>2. PICK o \in About : decoded[k] = Dec(parser, o) /\ Dec(parser, o).value # Failed
      BY <3>1 DEF Varbinds
    <3>3. Dec(parser, o).value = ConvertValue(Pdu(o), matchAttribute(parser, o).syntax)
      BY VarbindFields DEF Dec
    <3> QED BY <3>2, <3>3, ConvertKinds
  <2> QED BY <2>1, <2>2, <2>3 DEF TypeOK, Size, Kinds
<1>2. TrapInv => TypeOK
  BY PollOrPacket DEF TrapInv, TypeOK
<1>3. Inv => TypeOK
  BY <1>1, <1>2 DEF Inv
<1> QED BY <1>3, Invariance, PTL

\* A poll whose requests succeed is dropped only for a reason that its input shows.
THEOREM DropsCorrect == Spec => []DropsExplained
<1>1. PollInv => DropsExplained
  BY DEF PollInv, Endings, DropsExplained, Explained
<1>2. TrapInv => DropsExplained
  BY PollOrPacket DEF TrapInv, DropsExplained
<1>3. Inv => DropsExplained
  BY <1>1, <1>2 DEF Inv
<1> QED BY <1>3, Invariance, PTL

\* Every trap ends in the traps file, and every poll in the metrics file unless one of
\* the strings in its JSON reads trap_info: its device's, the collector's, a name, a
\* syntax, a value or a tag.
THEOREM FileCorrect == Spec => []RightFile
<1>1. PollInv => RightFile
  <2> SUFFICES ASSUME PollInv, pc = "done", file # "dropped"
               PROVE  file = "metrics" \/ Excused
    BY PollIs DEF PollInv, RightFile, Excused
  <2> QED BY DEF PollInv, Endings
<1>2. TrapInv => RightFile
  BY PollOrPacket DEF TrapInv, RightFile
<1>3. Inv => RightFile
  BY <1>1, <1>2 DEF Inv
<1> QED BY <1>3, Invariance, PTL

\* The state in which a poll is reported.
LEMMA ReportedIs ==
    ASSUME Inv, Reported
    PROVE  /\ PollInv /\ input \in Polls /\ NoEmpty /\ parser \in Parsers(Attributes)
           /\ decoded \in Seq(Varbinds(parser)) /\ record = Build(decoded, input.reg)
           /\ ~Refused => \A o \in About : \E k \in DOMAIN decoded :
                /\ decoded[k] = Varbind(matchAttribute(parser, o), Pdu(o))
                /\ decoded[k].value # Failed
<1>1. PollInv
  BY PollOrPacket DEF Inv, TrapInv, Reported
<1>2. record = Build(decoded, input.reg)
  BY <1>1 DEF PollInv, Phases, Assembled
<1> QED BY <1>1, <1>2, AllDecoded

\* A record of a poll has exactly one metric for each name and row that the device has a
\* value for, with the device's number and a syntax of the highest priority.
THEOREM RecordComplete == Spec => []Complete
<1>1. ASSUME Inv, Reported PROVE Complete
  <2>1. /\ input \in Polls /\ NoEmpty /\ parser \in Parsers(Attributes)
        /\ decoded \in Seq(Varbinds(parser)) /\ record = Build(decoded, input.reg)
    BY <1>1, ReportedIs
  <2>2. ASSUME NEW m \in record, NEW k \in record, m.name = k.name, m.instance = k.instance PROVE m = k
    <3>1. m = Metric(decoded, input.reg, m.name, m.instance)
      BY <2>1, MetricIs
    <3>2. k = Metric(decoded, input.reg, k.name, k.instance)
      BY <2>1, MetricIs
    <3> QED BY <2>2, <3>1, <3>2
  <2>3. ASSUME NEW m \in record
        PROVE  /\ m.oid \in About
               /\ m.value.kind \in {"int64", "uint64", "float64", "delta"}
                    => IsPrefix(input.dev[m.oid].n, m.value.n)
    <3>1. PICK o \in About, a \in parser :
             /\ m.oid = o /\ Varbind(a, Pdu(o)).value # Failed
             /\ m.value = MetricValue(input.reg, Varbind(a, Pdu(o)))
      BY <2>1, MetricIs
    <3>2. PICK vb : vb = Varbind(a, Pdu(o))
      OBVIOUS
    <3>3. vb.value = ConvertValue(Pdu(o), a.syntax) /\ vb.syntax = a.syntax
      BY <3>2, VarbindFields
    <3>4. input.dev[o].n \in Seq(Int) /\ Pdu(o).n = input.dev[o].n
      BY <2>1, PollIs, AboutIs DEF Pdu
    <3>5. /\ vb.value.kind \in {"int64", "uint64", "float64"} => IsPrefix(input.dev[o].n, vb.value.n)
          /\ IsCounterSyntax(vb.syntax) => IsPrefix(input.dev[o].n, vb.value.n)
      BY <3>1, <3>2, <3>3, <3>4, ConvertNumbers
    <3>6. \/ m.value = vb.value
          \/ m.value = Value("delta", vb.value.n) /\ IsCounterSyntax(vb.syntax)
          \/ m.value.kind \in {"oidlabel", "labels", "label"}
      BY <3>1, <3>2, MetricValueIs
    <3>7. vb.value.kind # "delta"
      <4>1. vb.value.kind \in Kinds
        BY <3>1, <3>2, <3>3, ConvertKinds
      <4> QED BY <4>1 DEF Kinds, Strings
    <3>8. Value("delta", vb.value.n).n = vb.value.n
      BY DEF Value
    <3>9. m.value.kind \in {"int64", "uint64", "float64", "delta"}
            => IsPrefix(input.dev[o].n, m.value.n)
      <4>1. CASE m.value = vb.value
        BY <3>5, <3>7, <4>1
      <4>2. CASE m.value = Value("delta", vb.value.n) /\ IsCounterSyntax(vb.syntax)
        BY <3>5, <3>8, <4>2
      <4>3. CASE m.value.kind \in {"oidlabel", "labels", "label"}
        BY <4>3
      <4> QED BY <3>6, <4>1, <4>2, <4>3
    <3> QED BY <3>1, <3>9
  <2>4. ASSUME NEW o \in About, ~Refused
        PROVE  \E a \in Attributes :
                 /\ a.oid = Column(o)
                 /\ a.tag \/ \E m \in record :
                      /\ m.name = a.name /\ m.instance = Instance(a, o)
                      /\ syntaxPriority(m.syntax) >= syntaxPriority(a.syntax)
    <3>1. PICK k \in DOMAIN decoded : decoded[k] = Varbind(matchAttribute(parser, o), Pdu(o))
      BY <1>1, <2>4, ReportedIs
    <3>2. PICK a \in Attributes : a = matchAttribute(parser, o) /\ a.oid = Column(o)
      BY <2>1, MatchedIs
    <3>3. /\ decoded[k].name = a.name /\ decoded[k].syntax = a.syntax /\ decoded[k].tag = a.tag
          /\ decoded[k].instance = Instance(a, o)
      BY <3>1, <3>2, VarbindFields
    <3>4. ASSUME ~a.tag
          PROVE  \E m \in record : /\ m.name = a.name /\ m.instance = Instance(a, o)
                                   /\ syntaxPriority(m.syntax) >= syntaxPriority(a.syntax)
      <4>1. Metric(decoded, input.reg, decoded[k].name, decoded[k].instance) \in record
        BY <2>1, <3>3, <3>4 DEF Build
      <4>2. PICK m \in record : m = Metric(decoded, input.reg, a.name, Instance(a, o))
        BY <3>3, <4>1
      <4>3. m.name = a.name /\ m.instance = Instance(a, o)
        BY <4>2 DEF Metric
      <4>4. \A j \in DOMAIN decoded :
              ~decoded[j].tag /\ decoded[j].name = m.name /\ decoded[j].instance = m.instance
                => syntaxPriority(decoded[j].syntax) <= syntaxPriority(m.syntax)
        BY <2>1, MetricIs
      <4>5. syntaxPriority(a.syntax) <= syntaxPriority(m.syntax)
        BY <3>3, <3>4, <4>3, <4>4
      <4>6. syntaxPriority(a.syntax) \in Int /\ syntaxPriority(m.syntax) \in Int
        BY PriorityType
      <4>7. syntaxPriority(m.syntax) >= syntaxPriority(a.syntax)
        BY <4>5, <4>6
      <4> QED BY <4>3, <4>7
    <3> QED BY <3>2, <3>4
  <2> QED BY <2>2, <2>3, <2>4 DEF Complete
<1>2. Inv => Complete
  BY <1>1 DEF Complete
<1> QED BY <1>2, Invariance, PTL

\* Every metric carries the tags of its own row, all of them and no others.
THEOREM TagsCorrect == Spec => []TagsOwnRow
<1>1. ASSUME Inv, Reported, ~Refused PROVE TagsOwnRow
  <2>1. /\ input \in Polls /\ NoEmpty /\ parser \in Parsers(Attributes)
        /\ decoded \in Seq(Varbinds(parser)) /\ record = Build(decoded, input.reg)
    BY <1>1, ReportedIs
  <2> SUFFICES ASSUME NEW m \in record
               PROVE  LET row == {t \in parser \X About : /\ t[1].tag /\ t[1].oid = Column(t[2])
                                                          /\ Instance(t[1], t[2]) = m.instance}
                      IN  /\ DOMAIN m.tags = {t[1].name : t \in row}
                          /\ \A name \in DOMAIN m.tags : \E t \in row :
                               /\ t[1].name = name
                               /\ m.tags[name] = tagValue(ConvertValue(Pdu(t[2]), t[1].syntax))
    BY DEF TagsOwnRow
  <2> DEFINE row == {t \in parser \X About : /\ t[1].tag /\ t[1].oid = Column(t[2])
                                             /\ Instance(t[1], t[2]) = m.instance}
  <2>2. m.tags = Tags(decoded, m.instance)
    BY <2>1, MetricIs
  <2>3. ASSUME NEW name \in DOMAIN m.tags
        PROVE  \E t \in row : /\ t[1].name = name
                              /\ m.tags[name] = tagValue(ConvertValue(Pdu(t[2]), t[1].syntax))
    <3>1. PICK o \in About, a \in parser :
             /\ a.oid = Column(o) /\ a.tag /\ Instance(a, o) = m.instance /\ a.name = name
             /\ m.tags[name] = tagValue(ConvertValue(Pdu(o), a.syntax))
      BY <2>1, <2>2, TagIs
    <3>2. <<a, o>> \in row
      BY <3>1
    <3> QED BY <3>1, <3>2
  <2>4. ASSUME NEW t \in row PROVE t[1].name \in DOMAIN m.tags
    <3>1. PICK a \in parser, o \in About : t[1] = a /\ t[2] = o
      OBVIOUS
    <3>2. a.tag /\ a.oid = Column(o) /\ Instance(a, o) = m.instance
      BY <3>1
    <3>3. a = matchAttribute(parser, o)
      BY <2>1, <3>2, MatchedIs
    <3>4. PICK k \in DOMAIN decoded : decoded[k] = Varbind(a, Pdu(o))
      BY <1>1, <3>3, ReportedIs
    <3>5. decoded[k].tag /\ decoded[k].instance = m.instance /\ decoded[k].name = a.name
      BY <3>2, <3>4, VarbindFields
    <3>6. decoded[k].name \in DOMAIN Tags(decoded, m.instance)
      BY <2>1, <3>5, TagsIs
    <3> QED BY <2>2, <3>1, <3>5, <3>6
  <2> HIDE DEF row
  <2>5. DOMAIN m.tags = {t[1].name : t \in row}
    BY <2>3, <2>4
  <2> QED BY <2>3, <2>5 DEF row
<1>2. Inv => TagsOwnRow
  BY <1>1 DEF TagsOwnRow
<1> QED BY <1>2, Invariance, PTL

\* A suffix agrees with the whole, counted from the end.
LEMMA SuffixIs ==
    ASSUME NEW s \in OIDs, NEW t \in OIDs
    PROVE  IsSuffix(s, t) <=> /\ Len(s) <= Len(t)
                              /\ \A i \in 1..Len(s) : s[Len(s) - i + 1] = t[Len(t) - i + 1]
<1>1. ASSUME NEW u \in OIDs
      PROVE  /\ Reverse(u) \in Seq(Nat) /\ Len(Reverse(u)) = Len(u)
             /\ \A i \in 1..Len(u) : Reverse(u)[i] = u[Len(u) - i + 1]
  <2>1. Len(u) \in Nat /\ \A i \in 1..Len(u) : u[i] \in Nat
    BY DEF OIDs
  <2>2. \A i \in 1..Len(u) : Len(u) - i + 1 \in 1..Len(u)
    BY <2>1
  <2>3. Reverse(u) \in [1..Len(u) -> Nat]
    BY <2>1, <2>2 DEF Reverse
  <2>4. \A i \in 1..Len(u) : Reverse(u)[i] = u[Len(u) - i + 1]
    BY <2>1 DEF Reverse
  <2> QED BY <2>1, <2>3, <2>4
<1> DEFINE rs == Reverse(s)
           rt == Reverse(t)
<1>2. /\ rs \in Seq(Nat) /\ Len(rs) = Len(s) /\ \A i \in 1..Len(s) : rs[i] = s[Len(s) - i + 1]
      /\ rt \in Seq(Nat) /\ Len(rt) = Len(t) /\ \A i \in 1..Len(t) : rt[i] = t[Len(t) - i + 1]
  BY <1>1
<1>3. IsSuffix(s, t) <=> IsPrefix(rs, rt)
  BY DEF IsSuffix
<1>4. Len(s) \in Nat /\ Len(t) \in Nat
  BY DEF OIDs
<1> HIDE DEF rs, rt
<1>5. IsPrefix(rs, rt) <=> Len(rs) <= Len(rt) /\ \A i \in 1..Len(rs) : rs[i] = rt[i]
  BY <1>2, PrefixIs
<1>6. ASSUME Len(s) <= Len(t)
      PROVE  \A i \in 1..Len(s) : rs[i] = rt[i] <=> s[Len(s) - i + 1] = t[Len(t) - i + 1]
  <2>1. \A i \in 1..Len(s) : i \in 1..Len(t)
    BY <1>4, <1>6
  <2> QED BY <1>2, <2>1
<1> QED BY <1>2, <1>3, <1>5, <1>6

\* The instance of an OID that is the attribute's own.
OwnRow == << 0 >>

\* The OID under which an enumeration is looked up is the attribute's own, in any row; the
\* value of a scalar that was configured with its ".0" is the exception.
LEMMA BaseIs ==
    ASSUME NEW q \in OIDs, q # <<>>, NEW o \in OIDs, IsPrefix(q, o), o # ScalarOID(q) \/ o # q,
           NEW vb, vb.oid = o, vb.instance = IF q = o THEN OwnRow ELSE SubSeq(o, Len(q) + 1, Len(o))
    PROVE  BaseOID(vb) = q
<1>1. Len(o) \in Nat /\ Len(q) \in Nat /\ Len(q) <= Len(o) /\ \A i \in 1..Len(q) : q[i] = o[i]
  BY PrefixIs DEF OIDs
<1>2. Len(q) >= 1
  BY EmptySeq DEF OIDs
<1>3. CASE q = o
  <2>1. ~IsStrictSuffix(OwnRow, o)
    <3> SUFFICES ASSUME IsStrictSuffix(OwnRow, o) PROVE FALSE
      OBVIOUS
    <3>1. OwnRow \in OIDs /\ Len(OwnRow) = 1 /\ OwnRow[1] = 0
      BY DEF OIDs, OwnRow
    <3>2. IsSuffix(OwnRow, o) /\ OwnRow # o
      BY DEF IsStrictSuffix
    <3>3. Len(o) >= 1 /\ o[Len(o)] = 0
      <4>1. \A i \in 1..Len(OwnRow) : OwnRow[Len(OwnRow) - i + 1] = o[Len(o) - i + 1]
        BY <3>1, <3>2, SuffixIs
      <4>2. OwnRow[1 - 1 + 1] = o[Len(o) - 1 + 1]
        BY <3>1, <4>1
      <4>3. Len(o) \in Nat /\ Len(o) >= 1 /\ Len(o) - 1 + 1 = Len(o) /\ 1 - 1 + 1 = 1
        BY <1>1, <1>2, <1>3
      <4> QED BY <3>1, <4>2, <4>3
    <3>4. Len(o) > 1
      <4>0. Len(o) \in Nat /\ Len(o) >= 1
        BY <1>1, <3>3
      <4>1. ASSUME Len(o) = 1 PROVE o = OwnRow
        <5>1. OwnRow \in Seq(Nat) /\ o \in Seq(Nat) /\ Len(OwnRow) = Len(o)
          BY <3>1, <4>1 DEF OIDs
        <5>2. \A i \in 1..Len(OwnRow) : OwnRow[i] = o[i]
          BY <3>1, <3>3, <4>1
        <5> QED BY <5>1, <5>2, SeqEqual
      <4>2. Len(o) # 1
        BY <3>2, <4>1
      <4>3. \A n \in Nat : n >= 1 /\ n # 1 => n > 1
        OBVIOUS
      <4> QED BY <4>0, <4>2, <4>3
    <3>5. ScalarOID(q) = q
      BY <1>3, <3>3, <3>4 DEF ScalarOID, Last
    <3> QED BY <1>3, <3>5
  <2> QED BY <1>3, <2>1 DEF BaseOID
<1>4. CASE q # o
  <2> DEFINE r == SubSeq(o, Len(q) + 1, Len(o))
  <2>1. r \in Seq(Nat) /\ Len(r) = Len(o) - Len(q) /\ \A i \in 1..Len(r) : r[i] = o[Len(q) + i]
    <3>1. o \in Seq(Nat)
      BY DEF OIDs
    <3>2. r \in Seq(Nat)
      BY <1>1, <3>1
    <3>3. Len(r) = Len(o) - Len(q)
      BY <1>1, <3>1
    <3>4. \A i \in 1..Len(r) : r[i] = o[Len(q) + i]
      BY <1>1, <3>1, <3>3
    <3> QED BY <3>2, <3>3, <3>4
  <2> HIDE DEF r
  <2>2. IsSuffix(r, o)
    <3>1. \A i \in 1..Len(r) : r[Len(r) - i + 1] = o[Len(o) - i + 1]
      <4> SUFFICES ASSUME NEW i \in 1..Len(r) PROVE r[Len(r) - i + 1] = o[Len(o) - i + 1]
        OBVIOUS
      <4>1. Len(r) - i + 1 \in 1..Len(r) /\ Len(q) + (Len(r) - i + 1) = Len(o) - i + 1
        BY <1>1, <2>1
      <4> QED BY <2>1, <4>1
    <3>2. Len(r) <= Len(o) /\ r \in OIDs
      BY <1>1, <2>1 DEF OIDs
    <3> QED BY <3>1, <3>2, SuffixIs
  <2>3. r # o
    BY <1>1, <1>2, <2>1
  <2>4. BaseOID(vb) = SubSeq(o, 1, Len(o) - Len(r))
    BY <1>4, <2>2, <2>3 DEF BaseOID, IsStrictSuffix, r
  <2>5. Len(o) - Len(r) = Len(q) /\ Len(q) \in 0..Len(o)
    BY <1>1, <2>1
  <2>6. q = SubSeq(o, 1, Len(q))
    BY <2>5, TrimIs
  <2> QED BY <2>4, <2>5, <2>6
<1> QED BY <1>3, <1>4

\* Resolve, of an integer that has an enumeration under an OID without a label.
LEMMA ResolveIs ==
    ASSUME NEW reg, NEW oid, oid \in DOMAIN reg.ints, oid \notin reg.oids, NEW n
    PROVE  LET keys == reg.ints[oid].keys
               set  == {b \in keys \cap (0..Bits - 1) : (n[1] \div 2^b) % 2 = 1}
               r    == Resolve(reg, oid, Value("int64", n))
           IN  IF reg.ints[oid].bitmap
               THEN r = IF set = {} THEN Value("int64", n) ELSE Value("labels", oid \o Ranked(set, UpTo(set)))
               ELSE r = IF n[1] \in keys THEN Value("label", oid \o n) ELSE Value("int64", n)
<1> DEFINE keys == reg.ints[oid].keys
           set  == {b \in keys \cap (0..Bits - 1) : (n[1] \div 2^b) % 2 = 1}
           active == {b \in 0..Bits - 1 : (n[1] \div 2^b) % 2 = 1 /\ b \in keys}
           v == Value("int64", n)
<1>1. v.kind = "int64" /\ v.n = n
  BY DEF Value
<1>2. set = active
  OBVIOUS
<1>3. resolveBitmap(oid, keys, v)
        = IF active = {} THEN v ELSE Value("labels", oid \o Ranked(active, UpTo(active)))
  BY <1>1 DEF resolveBitmap
<1> HIDE DEF set, active, v
<1>4. Resolve(reg, oid, v) = IF reg.ints[oid].bitmap THEN resolveBitmap(oid, keys, v)
                             ELSE IF v.n[1] \in keys THEN Value("label", oid \o v.n) ELSE v
  BY <1>1 DEF Resolve
<1>5. CASE reg.ints[oid].bitmap
  BY <1>2, <1>3, <1>4, <1>5 DEF set, v
<1>6. CASE ~reg.ints[oid].bitmap
  BY <1>1, <1>4, <1>6 DEF v
<1> QED BY <1>5, <1>6

\* An enumeration syntax that is not an OID's has the value of an Integer as its int64.
LEMMA EnumConverted ==
    ASSUME NEW p, p.type = "Integer", NEW syntax, isEnumSyntax(syntax), syntax \notin OIDSyntaxes
    PROVE  ConvertValue(p, syntax) = Value("int64", p.n)
<1>1. syntax \in {"EnumInteger", "EnumIntegerKeepID", "EnumBitmap"}
  BY DEF isEnumSyntax, OIDSyntaxes
<1>2. toInt64(p) = Value("int64", p.n)
  BY DEF toInt64, GoType, Unsigned32, Floats
<1>3. /\ syntax \in IntSyntaxes /\ syntax \notin UintSyntaxes /\ syntax \notin OIDSyntaxes
      /\ syntax \notin {"DisplayString", "OctetString", "DateAndTime"}
      /\ syntax \notin {"PhysAddress", "MacAddress"} /\ syntax \notin {"IpAddress", "IpAddressNoSuffix"}
  BY <1>1 DEF IntSyntaxes, UintSyntaxes, OIDSyntaxes
<1>4. syntax \notin DOMAIN Scale
  BY <1>1 DEF Scale
<1> QED BY <1>2, <1>3, <1>4 DEF ConvertValue

\* An integer with an enumeration under its attribute's OID gets its label from there, or
\* the labels of its bits, in any row (BaseOID strips the instance that Parse added).
THEOREM EnumsCorrect == Spec => []EnumsByAttribute
<1> DEFINE Looked(m) == /\ isEnumSyntax(m.syntax) /\ m.syntax \notin OIDSyntaxes
                        /\ input.dev[m.oid].type = "Integer"
                        /\ Column(m.oid) \in DOMAIN input.reg.ints \ input.reg.oids
                        /\ m.oid # ScalarOID(Column(m.oid)) \/ m.oid # Column(m.oid)
<1>1. ASSUME Inv, Reported, NEW m \in record, Looked(m)
      PROVE  m.value = Resolve(input.reg, Column(m.oid), Value("int64", input.dev[m.oid].n))
  <2>1. /\ input \in Polls /\ NoEmpty /\ parser \in Parsers(Attributes)
        /\ decoded \in Seq(Varbinds(parser)) /\ record = Build(decoded, input.reg)
    BY <1>1, ReportedIs
  <2>2. PICK o \in About, a \in parser :
           /\ a.oid = Column(o) /\ IsPrefix(a.oid, o) /\ m.oid = o /\ m.syntax = a.syntax
           /\ m.value = MetricValue(input.reg, Varbind(a, Pdu(o)))
    BY <2>1, MetricIs
  <2>3. a \in Attributes /\ a.oid \in OIDs /\ a.oid # <<>> /\ o \in OIDs
    BY <2>1, PollIs, AboutIs DEF Parsers, NoEmpty, Typed
  <2> DEFINE vb == Varbind(a, Pdu(o))
  <2>4. /\ vb.oid = o /\ vb.syntax = a.syntax /\ vb.instance = Instance(a, o)
        /\ vb.value = ConvertValue(Pdu(o), a.syntax)
    BY VarbindFields
  <2> HIDE DEF vb
  <2>5. vb.instance = IF a.oid = o THEN OwnRow ELSE SubSeq(o, Len(a.oid) + 1, Len(o))
    BY <2>4 DEF Instance, OwnRow
  <2>6. o # ScalarOID(a.oid) \/ o # a.oid
    BY <1>1, <2>2
  <2>7. BaseOID(vb) = a.oid
    BY <2>2, <2>3, <2>4, <2>5, <2>6, BaseIs
  <2>8. vb.value = Value("int64", input.dev[o].n)
    <3>1. Pdu(o).type = "Integer" /\ Pdu(o).n = input.dev[o].n
      BY <1>1, <2>2 DEF Pdu
    <3>2. isEnumSyntax(a.syntax) /\ a.syntax \notin OIDSyntaxes
      BY <1>1, <2>2
    <3> QED BY <2>4, <3>1, <3>2, EnumConverted
  <2>9. MetricValue(input.reg, vb) = Resolve(input.reg, a.oid, vb.value)
    BY <1>1, <2>2, <2>4, <2>7 DEF MetricValue
  <2> QED BY <2>2, <2>8, <2>9 DEF vb
<1>2. Inv => EnumsByAttribute
  <2> SUFFICES ASSUME Inv, Reported, NEW m \in record, Looked(m)
               PROVE  LET oid  == Column(m.oid)
                          keys == input.reg.ints[oid].keys
                          raw  == input.dev[m.oid].n
                          set  == {b \in keys \cap (0..Bits - 1) : (raw[1] \div 2^b) % 2 = 1}
                      IN  IF input.reg.ints[oid].bitmap
                          THEN m.value = IF set = {} THEN Value("int64", raw)
                                                     ELSE Value("labels", oid \o Ranked(set, UpTo(set)))
                          ELSE m.value = IF raw[1] \in keys THEN Value("label", oid \o raw)
                                                             ELSE Value("int64", raw)
    BY DEF EnumsByAttribute
  <2>1. m.value = Resolve(input.reg, Column(m.oid), Value("int64", input.dev[m.oid].n))
    BY <1>1
  <2>2. Column(m.oid) \in DOMAIN input.reg.ints /\ Column(m.oid) \notin input.reg.oids
    OBVIOUS
  <2> QED BY <2>1, <2>2, ResolveIs
<1> QED BY <1>2, Invariance, PTL
=============================================================================
