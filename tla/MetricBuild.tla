---------------------------- MODULE MetricBuild ----------------------------
(***************************************************************************)
(* Assembly of a poll's metrics: Build (producer/metrics/poll.go) and the  *)
(* enumerations (producer/metrics/enrich.go).  A registry is [oids, ints]: *)
(* the OIDs that have a label, and for an OID its integer enumeration      *)
(* [bitmap, keys].  A label is known by the OID it is registered under and *)
(* its key.  The delta of a counter is left to CounterState: here it is    *)
(* the raw value that goes into it.                                        *)
(***************************************************************************)
EXTENDS Decoder, Ranking

CONSTANT DeltaEnabled   \* whether the producer has a CounterState

isEnumSyntax(syntax) ==
    syntax \in {"EnumInteger", "EnumIntegerKeepID", "EnumBitmap",
                "EnumObjectIdentifier", "EnumObjectIdentifierKeepOID"}

IsCounterSyntax(syntax) == syntax \in {"Counter32", "Counter64"}

Priorities == [Counter64 |-> 20, Counter32 |-> 10, BandwidthGBits |-> 14, BandwidthMBits |-> 13,
               BandwidthKBits |-> 12, BandwidthBits |-> 11, Gauge32 |-> 11]
syntaxPriority(syntax) == IF syntax \in DOMAIN Priorities THEN Priorities[syntax] ELSE 0
-----------------------------------------------------------------------------
\* The labels of the bits that are set, or the number when none has a label.
resolveBitmap(oid, keys, v) ==
    LET active == {b \in 0..Bits - 1 : (v.n[1] \div 2^b) % 2 = 1 /\ b \in keys}
    IN  IF active = {} THEN v ELSE Value("labels", oid \o Ranked(active, UpTo(active)))

\* Resolve: a label of the OID itself, one of the value as an OID, or one of the
\* integer enumeration; the value as it is otherwise.
Resolve(reg, oid, v) ==
    IF oid \in reg.oids THEN Value("oidlabel", oid)
    ELSE IF v.kind = "oid" /\ v.n \in reg.oids THEN Value("oidlabel", v.n)
    ELSE IF oid \notin DOMAIN reg.ints \/ v.kind # "int64" THEN v
    ELSE IF reg.ints[oid].bitmap THEN resolveBitmap(oid, reg.ints[oid].keys, v)
    ELSE IF v.n[1] \in reg.ints[oid].keys THEN Value("label", oid \o v.n)
    ELSE v

tagValue(v) == Value(IF v.kind \in Strings THEN v.kind ELSE "text", v.n)

\* Mutant of BaseOID: the instance stays on.
BaseOIDFull(vb) == vb.oid

\* The OID under which a varbind's enumeration is looked up: without the row.
BaseOID(vb) ==
    IF IsStrictSuffix(vb.instance, vb.oid)
    THEN SubSeq(vb.oid, 1, Len(vb.oid) - Len(vb.instance)) ELSE vb.oid

MetricValue(reg, vb) ==
    IF isEnumSyntax(vb.syntax) THEN Resolve(reg, BaseOID(vb), vb.value)
    ELSE IF DeltaEnabled /\ IsCounterSyntax(vb.syntax) THEN Value("delta", vb.value.n)
    ELSE vb.value

\* The tags at positions K: of those with a name, the last one's value.
TagMap(decoded, K) ==
    [name \in {decoded[k].name : k \in K} |->
       tagValue(decoded[Max({k \in K : decoded[k].name = name})].value)]

\* Mutant of Tags: one map for the whole answer.
TagsShared(decoded, instance) ==
    TagMap(decoded, {k \in DOMAIN decoded : decoded[k].tag})

\* tagsByInstance[instance]
Tags(decoded, instance) ==
    TagMap(decoded, {k \in DOMAIN decoded : decoded[k].tag /\ decoded[k].instance = instance})

\* Mutant of Winner: the first varbind of the name.
WinnerFirst(decoded, K) == decoded[Min(K)]

\* resolved[instance][name]: the first with the highest priority, of the varbinds at K.
Winner(decoded, K) ==
    decoded[Min({k \in K : \A j \in K :
                   syntaxPriority(decoded[j].syntax) <= syntaxPriority(decoded[k].syntax)})]

\* The metric of a name and an instance.
Metric(decoded, reg, name, instance) ==
    LET vb == Winner(decoded, {k \in DOMAIN decoded : /\ ~decoded[k].tag
                                                      /\ decoded[k].name = name
                                                      /\ decoded[k].instance = instance})
    IN  [oid |-> vb.oid, name |-> name, instance |-> instance, syntax |-> vb.syntax,
         value |-> MetricValue(reg, vb), tags |-> Tags(decoded, instance)]

\* Build: one metric for each name and instance, in no particular order.
Build(decoded, reg) ==
    {Metric(decoded, reg, decoded[k].name, decoded[k].instance) :
       k \in {n \in DOMAIN decoded : ~decoded[n].tag}}
=============================================================================
