----------------------------- MODULE MCRecords -----------------------------
(* Instances of Records for TLC. *)
EXTENDS Records

Attr(oid, name, syntax) == [oid |-> oid, name |-> name, syntax |-> syntax, tag |-> FALSE]
Tag(oid, name) == [oid |-> oid, name |-> name, syntax |-> "DisplayString", tag |-> TRUE]
Obj(indexed, attrs) == [indexed |-> indexed, attrs |-> attrs]

\* A 32-bit column that a 64-bit one overrides; a column inside another; two
\* attributes with one OID; columns without a common root; a single bitmap column;
\* scalars with and without ".0", in two batches; an empty OID; a syntax that is
\* not one of the decoder's; no attribute.
MCObjects ==
    {Obj(TRUE, {Tag(<<1, 1>>, "descr"), Attr(<<1, 2>>, "in", "Counter32"),
                Attr(<<1, 3>>, "in", "Counter64")}),
     Obj(TRUE, {Tag(<<1, 1>>, "descr"), Attr(<<1, 2>>, "state", "EnumInteger"),
                Attr(<<1, 2, 2>>, "speed", "BandwidthMBits")}),
     Obj(TRUE, {Attr(<<1, 2>>, "load", "Gauge32"), Tag(<<1, 2>>, "loads"),
                Attr(<<1, 3>>, "model", "EnumObjectIdentifier")}),
     Obj(TRUE, {Attr(<<1, 2>>, "x", "Gauge32"), Attr(<<2, 1>>, "y", "Gauge32")}),
     Obj(TRUE, {Attr(<<1, 4>>, "flags", "EnumBitmap")}),
     Obj(FALSE, {Attr(<<1, 2>>, "trap_info", "Other"), Attr(<<1, 3>>, "rate", "Percent100"),
                 Attr(<<1, 4, 0>>, "mode", "EnumInteger")}),
     Obj(FALSE, {Attr(<<1, 2>>, "addr", "IpAddress"), Attr(<<1, 4>>, "mode", "EnumInteger"),
                 Attr(<<1, 1>>, "mac", "MacAddress")}),
     Obj(FALSE, {Attr(<<1, 2>>, "x", "Gauge32"), Attr(<<>>, "y", "Gauge32")}),
     Obj(FALSE, {Attr(<<1, 3>>, "x", "trap_info")}),
     Obj(FALSE, {})}

Val(type, n) == [type |-> type, n |-> n]
None == Val("none", <<>>)
Of(choice) ==
    {[o \in {q \in DOMAIN f : f[q] # None} |-> f[o]] :
       f \in {g \in [DOMAIN choice -> UNION {choice[o] : o \in DOMAIN choice}] :
                \A o \in DOMAIN g : g[o] \in choice[o]}}

Num(n) == Val("Integer", <<n>>)
Big == Val("Counter64", <<9>>)
Rows == <<1, 1, 1>> :> {None, Val("OctetString", <<65, 0>>)}
     @@ <<1, 1, 2>> :> {None, Val("OctetString", <<84>>)}
     @@ <<1, 2, 1>> :> {None, Num(2), Val("Counter32", <<3>>)}
     @@ <<1, 2, 2, 1>> :> {None, Num(-1), Big}
     @@ <<1, 3, 1>> :> {None, Big, Val("ObjectIdentifier", <<1, 9>>)}
     @@ <<1, 4, 1>> :> {None, Num(5), Num(-6)}
Scalars == <<1, 1, 0>> :> {None, Val("OctetString", <<65, 66>>)}
        @@ <<1, 2, 0>> :> {None, Num(2), Val("IPAddress", <<1, 1>>), Val("OpaqueFloat", <<>>)}
        @@ <<1, 3, 0>> :> {None, Val("Gauge32", <<7>>), Val("OpaqueFloat", <<>>)}
        @@ <<1, 4, 0>> :> {None, Num(2)}
MCDevices == Of(Rows) \cup Of(Scalars) \cup {<<1, 4>> :> Num(4)}

Ints == <<1, 2>> :> [bitmap |-> FALSE, keys |-> {2}]
     @@ <<1, 4>> :> [bitmap |-> TRUE, keys |-> {0, 3}]
     @@ <<1, 4, 0>> :> [bitmap |-> FALSE, keys |-> {2}]
MCRegistries == {[oids |-> {<<1, 9>>}, ints |-> Ints], [oids |-> {<<1, 2>>}, ints |-> <<>>]}

Var(oid, type, n) == [oid |-> oid, type |-> type, n |-> n]
UpTime == Var(oidSysUpTime, "TimeTicks", <<5>>)
TrapOID == Var(oidSnmpTrapOID, "ObjectIdentifier", <<1, 7, 0, 1>>)
Payload == {Var(<<1, 2, 1>>, "OctetString", <<200>>), Var(<<1, 2, 2>>, "Integer", <<1>>),
            Var(<<1, 2, 3>>, "NoSuchInstance", <<>>)}
Pkt(version, agent, enterprise, generic, specific, vs) ==
    [version |-> version, agent |-> agent, from |-> <<10>>, enterprise |-> enterprise,
     generic |-> generic, specific |-> specific, vars |-> vs]
MCPackets ==
    {Pkt(1, agent, e, g, s, vs) : agent \in {<<>>, <<11>>}, e \in {<<1, 7>>, <<1, 8>>},
       g \in {0, 5, 6}, s \in {1, 2}, vs \in UNION {SetToSeqs(P) : P \in SUBSET Payload}}
    \cup {Pkt(v, <<>>, <<>>, 0, 0, vs) : v \in {0, 2, 3},
            vs \in UNION {SetToSeqs(P) : P \in SUBSET (Payload \cup {UpTime, TrapOID})}}

MCLabels == {{"host"}, {"host", "trap_info"}}
MCSpelled == {Value("text", <<84>>)}
=============================================================================
