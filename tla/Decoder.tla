------------------------------ MODULE Decoder ------------------------------
(***************************************************************************)
(* Decoding of SNMP answers: value conversion (snmp/decoder/types.go) and  *)
(* the mapping of OIDs to attributes (snmp/decoder/varbind.go).            *)
(*                                                                         *)
(* An OID is the sequence of its components.  A PDU is [oid, type, n],     *)
(* where n is the number in a sequence of its own, the octets or the       *)
(* components of its value, by its type; a float that is not a number has  *)
(* an empty n.  A converted value is [kind, n]: the kind is the Go type,   *)
(* for a string its form.  A number times base^exp is n followed by base   *)
(* and exp.                                                                *)
(***************************************************************************)
EXTENDS Integers, Sequences, FiniteSets, SequencesExt

CONSTANT Bits   \* 64, scaled down: the width of an integer

ASSUME BitsAssumption == Bits \in Nat \ {0}

MaxInt64 == 2^(Bits - 1) - 1

Value(kind, n) == [kind |-> kind, n |-> n]
Failed == Value("error", <<>>)
Strings == {"text", "mac", "hex", "oid", "dotted"}

\* The types that stand for the absence of a value.
IsErrorType(t) == t \in {"NoSuchObject", "NoSuchInstance", "EndOfMibView", "Null"}

Unsigned32 == {"Counter32", "Gauge32", "TimeTicks", "Uinteger32"}
Floats == {"OpaqueFloat", "OpaqueDouble"}

\* The Go type of the value that gosnmp delivers for a PDU type.
GoType(t) ==
    CASE t = "Integer"       -> "int"
      [] t \in Unsigned32    -> "uint32"
      [] t = "Counter64"     -> "uint64"
      [] t \in Floats        -> "float"
      [] t \in {"ObjectIdentifier", "IPAddress"} -> "string"
      [] OTHER               -> "bytes"
-----------------------------------------------------------------------------
toInt64(p) ==
    IF \/ GoType(p.type) \in {"int", "uint32"}
       \/ GoType(p.type) = "uint64" /\ p.n[1] <= MaxInt64
    THEN Value("int64", p.n) ELSE Failed

toUint64(p) ==
    IF GoType(p.type) \in {"int", "uint32", "uint64"} /\ p.n[1] >= 0
    THEN Value("uint64", p.n) ELSE Failed

toFloat64(p, scale) ==
    IF GoType(p.type) \in {"int", "uint32", "uint64", "float"}
    THEN Value("float64", p.n \o scale) ELSE Failed

\* Octets lose their trailing NULs; everything else is printed.
toDisplayString(p) ==
    Value("text", IF GoType(p.type) # "bytes" THEN p.n
                  ELSE SubSeq(p.n, 1, Max({k \in DOMAIN p.n : p.n[k] # 0} \cup {0})))

toMACString(p) ==
    Value(IF GoType(p.type) \in {"bytes", "string"} THEN "mac" ELSE "text", p.n)

toOIDString(p) ==
    Value(IF p.type = "ObjectIdentifier" THEN "oid" ELSE "text", p.n)

toIPString(p) ==
    Value(CASE p.type = "IPAddress"       -> "dotted"
            [] GoType(p.type) = "bytes"   -> IF Len(p.n) \in {4, 16} THEN "dotted" ELSE "hex"
            [] OTHER                      -> "text", p.n)

\* By the type of the PDU, when the syntax is unknown.
fallbackConvert(p) ==
    CASE p.type = "Integer"                            -> toInt64(p)
      [] p.type \in Unsigned32 \cup {"Counter64"}      -> toUint64(p)
      [] p.type \in {"OctetString", "ObjectDescription"} -> toDisplayString(p)
      [] p.type = "ObjectIdentifier"                   -> toOIDString(p)
      [] p.type = "IPAddress"                          -> toIPString(p)
      [] p.type \in Floats                             -> toFloat64(p, <<10, 0>>)
      [] OTHER                                         -> Value("bytes", p.n)

IntSyntaxes == {"Integer", "Integer32", "InterfaceIndex", "InterfaceIndexOrZero", "TruthValue",
                "RowStatus", "TimeStamp", "TimeInterval",
                "EnumInteger", "EnumIntegerKeepID", "EnumBitmap"}
UintSyntaxes == {"Unsigned32", "Gauge32", "Counter32", "Counter64", "TimeTicks", "Opaque",
                 "BytesB", "TicksSec", "TicksMilliSec", "TicksMicroSec"}
OIDSyntaxes == {"ObjectIdentifier", "EnumObjectIdentifier", "EnumObjectIdentifierKeepOID"}

\* The unit of a syntax that is normalised as a float64, as base and exponent.
Scale ==
    [BandwidthBits |-> <<10, 0>>, BandwidthKBits |-> <<10, 3>>,
     BandwidthMBits |-> <<10, 6>>, BandwidthGBits |-> <<10, 9>>,
     BytesKB |-> <<10, 3>>, BytesMB |-> <<10, 6>>, BytesGB |-> <<10, 9>>, BytesTB |-> <<10, 12>>,
     BytesKiB |-> <<2, 10>>, BytesMiB |-> <<2, 20>>, BytesGiB |-> <<2, 30>>,
     TemperatureC |-> <<10, 0>>, TemperatureDeciC |-> <<10, -1>>, TemperatureCentiC |-> <<10, -2>>,
     PowerWatt |-> <<10, 0>>, PowerMilliWatt |-> <<10, -3>>, PowerKiloWatt |-> <<10, 3>>,
     CurrentAmp |-> <<10, 0>>, CurrentMilliAmp |-> <<10, -3>>, CurrentMicroAmp |-> <<10, -6>>,
     VoltageVolt |-> <<10, 0>>, VoltageMilliVolt |-> <<10, -3>>, VoltageMicroVolt |-> <<10, -6>>,
     FreqHz |-> <<10, 0>>, FreqKHz |-> <<10, 3>>, FreqMHz |-> <<10, 6>>, FreqGHz |-> <<10, 9>>,
     Percent1 |-> <<10, 0>>, Percent100 |-> <<10, 0>>, PercentDeci100 |-> <<10, 0>>]

ConvertValue(p, syntax) ==
    CASE syntax \in IntSyntaxes  -> toInt64(p)
      [] syntax \in UintSyntaxes -> toUint64(p)
      [] syntax \in {"DisplayString", "OctetString", "DateAndTime"} -> toDisplayString(p)
      [] syntax \in {"PhysAddress", "MacAddress"}        -> toMACString(p)
      [] syntax \in OIDSyntaxes                          -> toOIDString(p)
      [] syntax \in {"IpAddress", "IpAddressNoSuffix"}   -> toIPString(p)
      [] syntax \in DOMAIN Scale                         -> toFloat64(p, Scale[syntax])
      [] OTHER                                           -> fallbackConvert(p)
-----------------------------------------------------------------------------
\* NewVarbindParser keeps one attribute for each OID, of several that share it
\* the last in the order of the map.
Parsers(attrs) ==
    {T \in SUBSET attrs :
       \A a \in attrs : Cardinality({b \in T : b.oid = a.oid}) = 1}

\* The attribute whose OID is the longest prefix of a varbind's, if there is one.
matchAttribute(T, oid) ==
    LET hits == {a \in T : IsPrefix(a.oid, oid)}
    IN  CHOOSE a \in hits : \A b \in hits : Len(b.oid) <= Len(a.oid)

Matches(T, oid) == \E a \in T : IsPrefix(a.oid, oid)

\* The rest of the OID is the row; an OID that is the attribute's own has "0".
Instance(a, oid) ==
    IF a.oid = oid THEN <<0>> ELSE SubSeq(oid, Len(a.oid) + 1, Len(oid))
=============================================================================
