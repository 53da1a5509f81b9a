------------------------------ MODULE Records ------------------------------
(***************************************************************************)
(* The way of one record: from the request of a poll                       *)
(* (poller/poller.go) over decoder, producer and formatter, or from a trap *)
(* packet, to the file it is written to (transport/file/split.go), with    *)
(* every place where app.go's stages let go of it.                         *)
(*                                                                         *)
(* A device is a function from OIDs to [type, n].  Iteration over a Go map *)
(* is a choice among all orders.                                           *)
(***************************************************************************)
EXTENDS MetricBuild, TrapParse

CONSTANTS
    Objects,     \* object definitions: [indexed, attrs]
    Devices,     \* what a device may hold
    Registries,  \* enumeration registries
    Packets,     \* trap packets
    MaxOids,     \* OIDs in one Get
    Labels,      \* the strings in a poll's device and in its metadata, as sets
    SpelledTrapInfo,  \* the values whose JSON text is "trap_info"
    Nothing

\* A device has a value at each of its OIDs, and none below another.
ASSUME RecordsAssumption ==
    /\ MaxOids \in Nat \ {0}
    /\ \A obj \in Objects :
         /\ obj.indexed \in BOOLEAN /\ IsFiniteSet(obj.attrs)
         /\ \A a \in obj.attrs : a.oid \in Seq(Nat) /\ a.tag \in BOOLEAN
    /\ \A dev \in Devices :
         /\ IsFiniteSet(DOMAIN dev) /\ DOMAIN dev \subseteq Seq(Nat)
         /\ \A o \in DOMAIN dev : dev[o].n \in Seq(Int) /\ ~IsErrorType(dev[o].type)
         /\ \A o, q \in DOMAIN dev : ~IsStrictPrefix(o, q)
    /\ \A pkt \in Packets : "obj" \notin DOMAIN pkt /\ pkt.vars \in Seq(ToSet(pkt.vars))

VARIABLES
    input,    \* the poll or the trap packet
    pc,
    wire,     \* OIDs still to be requested
    root,     \* the subtree that is walked
    pdus,     \* the answer, then what is left of it to decode
    parser,   \* VarbindParser.attrByOID, as the set of its attributes
    decoded,  \* the DecodedVarbinds
    record,   \* SNMPMetric.Metrics or the SNMPTrap
    timeout,  \* a request has failed
    file      \* where the record ended: "metrics", "traps", "dropped"

vars == <<input, pc, wire, root, pdus, parser, decoded, record, timeout, file>>

isPoll == "obj" \in DOMAIN input
isScalar == ~input.obj.indexed

Init ==
    /\ \/ /\ pc = "poll"
          /\ input \in [obj : Objects, dev : Devices, reg : Registries, version : {1, 2},
                       labels : Labels]
       \/ /\ pc = "trap"
          /\ input \in Packets
    /\ wire = <<>> /\ root = <<>> /\ pdus = <<>> /\ decoded = <<>>
    /\ parser = {}
    /\ record = Nothing
    /\ timeout = FALSE
    /\ file = Nothing

\* A stage logs and goes on with its next message.
Drop == pc' = "done" /\ file' = "dropped"
-----------------------------------------------------------------------------
(* The poller and the agent. *)

Pdu(o) == [oid |-> o, type |-> input.dev[o].type, n |-> input.dev[o].n]
Absent(o, t) == [oid |-> o, type |-> t, n |-> <<>>]

\* An agent's answer to a Get: version 1 refuses the whole request when an OID
\* is missing, and gosnmp returns the request's own varbinds.
Answer(oids) ==
    LET there(o) == o \in DOMAIN input.dev
        refused  == input.version = 1 /\ \E k \in DOMAIN oids : ~there(oids[k])
    IN  [k \in DOMAIN oids |->
           IF refused THEN Absent(oids[k], "Null")
           ELSE IF there(oids[k]) THEN Pdu(oids[k]) ELSE Absent(oids[k], "NoSuchObject")]

OIDLess(o, q) ==
    \/ IsStrictPrefix(o, q)
    \/ \E k \in (DOMAIN o) \cap (DOMAIN q) : o[k] < q[k] /\ \A m \in 1..k - 1 : o[m] = q[m]

\* A walk of gosnmp: what lies below the root, or else the root's own value.
Walked(r) ==
    LET below == {o \in DOMAIN input.dev : IsStrictPrefix(r, o)}
        found == IF below # {} THEN below ELSE {r} \cap DOMAIN input.dev
        oids  == Ranked(found, [o \in found |-> {q \in found : ~OIDLess(o, q)}])
    IN  [k \in DOMAIN oids |-> Pdu(oids[k])]

Attributes == input.obj.attrs

\* The OID that doGet requests for an attribute.
ScalarOID(oid) == IF Len(oid) > 1 /\ Last(oid) = 0 THEN oid ELSE Append(oid, 0)

\* LowestCommonOID, with the attributes in the order of a sequence: the first OID,
\* trimmed to what every other one begins with.
LowestCommonOID(attrs) ==
    LET oids  == {k \in DOMAIN attrs : attrs[k].oid # <<>>}
        parts == attrs[Min(oids)].oid
        match == {n \in 0..Len(parts) :
                    \A k \in oids : IsPrefix(SubSeq(parts, 1, n), attrs[k].oid)}
    IN  IF oids = {} THEN <<>> ELSE SubSeq(parts, 1, Max(match))

\* doGet collects the OIDs.
doGet ==
    /\ pc = "poll"
    /\ isScalar
    /\ \E attrs \in SetToSeqs(Attributes) :
         wire' = [k \in DOMAIN attrs |-> ScalarOID(attrs[k].oid)]
    /\ pc' = "get"
    /\ UNCHANGED <<input, root, pdus, parser, decoded, record, timeout, file>>

\* Mutant of Batch: everything that is left.
BatchWhole(oids) == oids

\* A Get carries at most MaxOids.
Batch(oids) == SubSeq(oids, 1, Min({MaxOids, Len(oids)}))

GetBatch ==
    /\ pc = "get"
    /\ wire # <<>>
    /\ pdus' = pdus \o Answer(Batch(wire))
    /\ wire' = SubSeq(wire, MaxOids + 1, Len(wire))
    /\ UNCHANGED <<input, pc, root, parser, decoded, record, timeout, file>>

GetDone ==
    /\ pc = "get"
    /\ wire = <<>>
    /\ pc' = "parse"
    /\ UNCHANGED <<input, wire, root, pdus, parser, decoded, record, timeout, file>>

\* doWalk and doBulkWalk.
Walk ==
    /\ pc = "poll"
    /\ ~isScalar
    /\ \E attrs \in SetToSeqs(Attributes) :
         /\ root' = LowestCommonOID(attrs)
         /\ root' # <<>>
         /\ pdus' = Walked(root')
    /\ pc' = "parse"
    /\ UNCHANGED <<input, wire, parser, decoded, record, timeout, file>>

\* ... of attributes that share no component.
NoRoot ==
    /\ pc = "poll"
    /\ ~isScalar
    /\ \E attrs \in SetToSeqs(Attributes) : LowestCommonOID(attrs) = <<>>
    /\ Drop
    /\ UNCHANGED <<input, wire, root, pdus, parser, decoded, record, timeout>>

\* A request fails: what was collected before is not delivered.
RequestFails ==
    /\ \/ pc = "get" /\ wire # <<>>
       \/ pc = "poll" /\ ~isScalar
    /\ timeout' = TRUE
    /\ Drop
    /\ UNCHANGED <<input, wire, root, pdus, parser, decoded, record>>
-----------------------------------------------------------------------------
(* The decode stage. *)

\* Decode has nothing to parse, or NewVarbindParser meets an empty OID.
DecodeRefused ==
    /\ pc = "parse"
    /\ pdus = <<>> \/ \E a \in Attributes : a.oid = <<>>
    /\ Drop
    /\ UNCHANGED <<input, wire, root, pdus, parser, decoded, record, timeout>>

NewVarbindParser ==
    /\ pc = "parse"
    /\ pdus # <<>> /\ \A a \in Attributes : a.oid # <<>>
    /\ parser' \in Parsers(Attributes)
    /\ pc' = "decode"
    /\ UNCHANGED <<input, wire, root, pdus, decoded, record, timeout, file>>

Skipped(p) == IsErrorType(p.type) \/ ~Matches(parser, p.oid)

\* One PDU of Parse: it is passed over, ...
DecodeSkip ==
    /\ pc = "decode"
    /\ pdus # <<>>
    /\ Skipped(Head(pdus))
    /\ pdus' = Tail(pdus)
    /\ UNCHANGED <<input, pc, wire, root, parser, decoded, record, timeout, file>>

\* The DecodedVarbind of a PDU for attribute a.
Varbind(a, p) == [oid |-> p.oid, name |-> a.name, syntax |-> a.syntax, tag |-> a.tag,
                  instance |-> Instance(a, p.oid), value |-> ConvertValue(p, a.syntax)]

\* ... or becomes a DecodedVarbind, ...
DecodeOne ==
    LET p  == Head(pdus)
        vb == Varbind(matchAttribute(parser, p.oid), p)
    IN  /\ pc = "decode"
        /\ pdus # <<>>
        /\ ~Skipped(p)
        /\ vb.value # Failed
        /\ decoded' = Append(decoded, vb)
        /\ pdus' = Tail(pdus)
        /\ UNCHANGED <<input, pc, wire, root, parser, record, timeout, file>>

\* Mutant of Unusable: an error type is a value that cannot be converted.
UnusableEarly(p) ==
    \/ IsErrorType(p.type)
    \/ ~Skipped(p) /\ ConvertValue(p, matchAttribute(parser, p.oid).syntax) = Failed

Unusable(p) ==
    ~Skipped(p) /\ ConvertValue(p, matchAttribute(parser, p.oid).syntax) = Failed

\* ... or ends Parse with an error, with which the stage drops the answer.
DecodeFails ==
    /\ pc = "decode"
    /\ pdus # <<>>
    /\ Unusable(Head(pdus))
    /\ Drop
    /\ UNCHANGED <<input, wire, root, pdus, parser, decoded, record, timeout>>

\* The answer is decoded; the stage drops it when nothing came of it.
DecodeDone ==
    /\ pc = "decode"
    /\ pdus = <<>>
    /\ IF decoded = <<>> THEN Drop ELSE pc' = "produce" /\ UNCHANGED file
    /\ UNCHANGED <<input, wire, root, pdus, parser, decoded, record, timeout>>
-----------------------------------------------------------------------------
(* Producer, trap receiver, formatters and transport. *)

Produce ==
    /\ pc = "produce"
    /\ record' = Build(decoded, input.reg)
    /\ IF record' = {} THEN Drop ELSE pc' = "format" /\ UNCHANGED file
    /\ UNCHANGED <<input, wire, root, pdus, parser, decoded, timeout>>

\* handleTrap, with room in the output channel.
HandleTrap ==
    /\ pc = "trap"
    /\ IF Supported(input)
       THEN record' = Parse(input) /\ pc' = "format" /\ UNCHANGED file
       ELSE Drop /\ UNCHANGED record
    /\ UNCHANGED <<input, wire, root, pdus, parser, decoded, timeout>>

\* What json.Marshal cannot write: a float that is not a number.
IsNaN(v) == v.kind = "float64" /\ Len(v.n) = 2

\* Format and the trap formatter.
Format ==
    /\ pc = "format"
    /\ IF isPoll /\ \E m \in record : IsNaN(m.value)
       THEN Drop ELSE pc' = "send" /\ UNCHANGED file
    /\ UNCHANGED <<input, wire, root, pdus, parser, decoded, record, timeout>>

\* The strings of a metric's JSON that can be trap_info.
SpellsTrapInfo(m) ==
    \/ "trap_info" \in {m.name, m.syntax} \cup DOMAIN m.tags
    \/ m.value \in SpelledTrapInfo
    \/ \E t \in DOMAIN m.tags : m.tags[t] \in SpelledTrapInfo

\* Mutant of HasMarker: trap_info is omitted from a trap when it is empty.
HasMarkerOmitted ==
    isPoll /\ ("trap_info" \in input.labels \/ \E m \in record : SpellsTrapInfo(m))

\* bytes.Contains(data, trapMarker), on the JSON of the whole record: every trap
\* has the key trap_info.
HasMarker ==
    ~isPoll \/ "trap_info" \in input.labels \/ \E m \in record : SpellsTrapInfo(m)

Send ==
    /\ pc = "send"
    /\ file' = IF HasMarker THEN "traps" ELSE "metrics"
    /\ pc' = "done"
    /\ UNCHANGED <<input, wire, root, pdus, parser, decoded, record, timeout>>

Next ==
    \/ doGet \/ GetBatch \/ GetDone \/ Walk \/ NoRoot \/ RequestFails
    \/ DecodeRefused \/ NewVarbindParser \/ DecodeSkip \/ DecodeOne \/ DecodeFails \/ DecodeDone
    \/ Produce \/ HandleTrap \/ Format \/ Send

Spec == Init /\ [][Next]_vars
-----------------------------------------------------------------------------
\* Every variable has the type of the Go value it stands for; what is decoded
\* never exceeds what was answered.
TypeOK ==
    /\ pc \in {"poll", "get", "parse", "decode", "produce", "trap", "format", "send", "done"}
    /\ file \in {Nothing, "metrics", "traps", "dropped"}
    /\ isPoll =>
         /\ parser \subseteq Attributes
         /\ Len(pdus) + Len(decoded) <= Cardinality(IF isScalar THEN Attributes ELSE DOMAIN input.dev)
         /\ \A k \in DOMAIN decoded : decoded[k].value.kind \in
               Strings \cup {"int64", "uint64", "float64", "bytes"}

Reported == pc = "done" /\ isPoll /\ file # "dropped"

\* The OIDs of the device that the object is about, and the attribute OID that
\* each belongs to.
Requested == {ScalarOID(a.oid) : a \in Attributes}
About == IF isScalar THEN Requested \cap DOMAIN input.dev
                     ELSE {o \in DOMAIN input.dev : Matches(Attributes, o)}
Column(o) == CHOOSE q \in {a.oid : a \in Attributes} :
                /\ IsPrefix(q, o)
                /\ \A b \in Attributes : IsPrefix(b.oid, o) => IsPrefix(b.oid, q)

\* A version 1 agent has refused a Get for an OID it does not have.
Refused == isScalar /\ input.version = 1 /\ ~(Requested \subseteq DOMAIN input.dev)

\* A record of a poll has exactly one metric for each name and row that the
\* device has a value for, whatever the order of the maps and the batches: with
\* the device's number for that OID and a syntax of the highest priority.
Complete ==
    Reported =>
      /\ \A m, k \in record : m.name = k.name /\ m.instance = k.instance => m = k
      /\ \A m \in record :
           /\ m.oid \in About
           /\ m.value.kind \in {"int64", "uint64", "float64", "delta"}
                => IsPrefix(input.dev[m.oid].n, m.value.n)
      /\ \A o \in About : ~Refused =>
           \E a \in Attributes :
             /\ a.oid = Column(o)
             /\ a.tag \/ \E m \in record :
                  /\ m.name = a.name /\ m.instance = Instance(a, o)
                  /\ syntaxPriority(m.syntax) >= syntaxPriority(a.syntax)

\* Every metric carries the tags of its own row, all of them and no others.
TagsOwnRow ==
    Reported /\ ~Refused => \A m \in record :
      LET row == {t \in parser \X About : /\ t[1].tag /\ t[1].oid = Column(t[2])
                                         /\ Instance(t[1], t[2]) = m.instance}
      IN  /\ DOMAIN m.tags = {t[1].name : t \in row}
          /\ \A name \in DOMAIN m.tags : \E t \in row :
               t[1].name = name /\ m.tags[name] = tagValue(ConvertValue(Pdu(t[2]), t[1].syntax))

\* An integer with an enumeration under its attribute's OID gets its label from
\* there, or the labels of its bits, in any row; only an attribute that was
\* configured with a scalar's ".0" is looked up elsewhere.
EnumsByAttribute ==
    Reported => \A m \in record :
      LET oid  == Column(m.oid)
          keys == input.reg.ints[oid].keys
          raw  == input.dev[m.oid].n
          set  == {b \in keys \cap (0..Bits - 1) : (raw[1] \div 2^b) % 2 = 1}
      IN  /\ isEnumSyntax(m.syntax) /\ m.syntax \notin OIDSyntaxes
          /\ input.dev[m.oid].type = "Integer"
          /\ oid \in DOMAIN input.reg.ints \ input.reg.oids
          /\ m.oid # ScalarOID(oid) \/ m.oid # oid
          => IF input.reg.ints[oid].bitmap
             THEN m.value = IF set = {} THEN Value("int64", raw)
                                        ELSE Value("labels", oid \o Ranked(set, UpTo(set)))
             ELSE m.value = IF raw[1] \in keys THEN Value("label", oid \o raw)
                                                ELSE Value("int64", raw)

\* A poll whose requests succeed is dropped only for a reason its input shows: a
\* definition that cannot be requested or parsed, a version 1 agent's refusal, no
\* metric on the device, or a value that has no form in its attribute's syntax.
DropsExplained ==
    pc = "done" /\ isPoll /\ file = "dropped" /\ ~timeout =>
      \/ \E a \in Attributes : a.oid = <<>>
      \/ ~isScalar /\ LongestCommonPrefix({a.oid : a \in Attributes}) = <<>>
      \/ Refused
      \/ \A o \in About : \E a \in Attributes : a.oid = Column(o) /\ a.tag
      \/ \E o \in About, a \in Attributes :
           /\ a.oid = Column(o)
           /\ LET v == ConvertValue(Pdu(o), a.syntax) IN v = Failed \/ IsNaN(v)

\* Every trap ends in the traps file, and every poll in the metrics file unless
\* one of its strings reads trap_info: one of its device or of the collector, an
\* attribute's name or syntax, or the value of a metric or of a tag.
RightFile ==
    pc = "done" /\ file # "dropped" =>
      \/ file = IF isPoll THEN "metrics" ELSE "traps"
      \/ /\ isPoll
         /\ \/ "trap_info" \in input.labels
            \/ \E a \in Attributes : "trap_info" \in {a.name, a.syntax}
            \/ \E o \in About, a \in Attributes :
                 LET vb == Varbind(a, Pdu(o))
                 IN  /\ a.oid = Column(o)
                     /\ \/ tagValue(vb.value) \in SpelledTrapInfo
                        \/ MetricValue(input.reg, vb) \in SpelledTrapInfo

\* Every varbind of a trap that has a value is in its record, as long as it does
\* not come before snmpTrapOID.0, wherever that is; a packet without one keeps
\* them all, as handler.go:161-164 has it (docs/trap.md refuses such a packet).
PayloadKept ==
    pc = "done" /\ ~isPoll /\ Supported(input) =>
      \A k \in DOMAIN input.vars :
        LET p == input.vars[k]
        IN  /\ ~IsErrorType(p.type)
            /\ p.oid \notin {oidSnmpTrapOID, oidSysUpTime}
            /\ input.version = 1 \/ \A j \in DOMAIN input.vars : input.vars[j].oid = oidSnmpTrapOID => j < k
            => \E j \in DOMAIN record.varbinds :
                 record.varbinds[j].oid = p.oid /\ record.varbinds[j].value.n = p.n
=============================================================================
