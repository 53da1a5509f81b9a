----------------------------- MODULE TrapParse -----------------------------
(***************************************************************************)
(* Parsing of traps and informs (snmp/trap/handler.go).  A packet is        *)
(* [version, agent, from, enterprise, generic, specific, vars], where vars  *)
(* are PDUs as in Decoder; agent is empty unless a v1 trap names its        *)
(* sender.                                                                 *)
(***************************************************************************)
EXTENDS Decoder, Ranking

oidSnmpTrapOID == <<1, 3, 6, 1, 6, 3, 1, 1, 4, 1, 0>>
oidSysUpTime == <<1, 3, 6, 1, 2, 1, 1, 3, 0>>
snmpTraps == <<1, 3, 6, 1, 6, 3, 1, 1, 5>>

isPrintable(octets) ==
    \A k \in DOMAIN octets : octets[k] \in 32..126 \cup {9, 10, 13}

\* convertPDUValue, by the type of the PDU.
convertPDUValue(p) ==
    Value(CASE p.type = "OctetString"      -> IF isPrintable(p.n) THEN "text" ELSE "bytes"
            [] p.type = "ObjectIdentifier" -> "oid"
            [] p.type = "Integer"          -> "int64"
            [] p.type \in Unsigned32 \cup {"Counter64"} -> "uint64"
            [] OTHER                       -> "text", p.n)

\* The PDUs that carry a value.
convertVarbinds(pdus) ==
    LET kept == Picked(pdus, {k \in DOMAIN pdus : ~IsErrorType(pdus[k].type)})
    IN  [k \in DOMAIN kept |-> [oid |-> kept[k].oid, value |-> convertPDUValue(kept[k])]]

\* parsev1Info: the standard OID of a generic trap, or the enterprise's.
parsev1Info(pkt) ==
    IF pkt.generic \in 0..5 THEN Append(snmpTraps, pkt.generic + 1)
                            ELSE pkt.enterprise \o <<0, pkt.specific>>

\* Mutant of parsev2Info: takes the first two varbinds for the header.
parsev2InfoFixed(pkt) ==
    [trapOID |-> IF Len(pkt.vars) < 2 THEN <<>> ELSE pkt.vars[2].n,
     payload |-> SubSeq(pkt.vars, 3, Len(pkt.vars))]

\* parsev2Info: the value of snmpTrapOID.0 and what comes after it; without one,
\* no OID and all varbinds.
parsev2Info(pkt) ==
    LET named == {k \in DOMAIN pkt.vars : pkt.vars[k].oid = oidSnmpTrapOID}
        at    == Min(named)
    IN  IF named = {} THEN [trapOID |-> <<>>, payload |-> pkt.vars]
        ELSE [trapOID |-> pkt.vars[at].n,
              payload |-> SubSeq(pkt.vars, at + 1, Len(pkt.vars))]

deviceFromPacket(pkt) ==
    IF pkt.version = 1 /\ pkt.agent # <<>> THEN pkt.agent ELSE pkt.from

Supported(pkt) == pkt.version \in {1, 2, 3}

Parse(pkt) ==
    LET v2 == parsev2Info(pkt)
    IN  [device |-> deviceFromPacket(pkt),
         trapOID |-> IF pkt.version = 1 THEN parsev1Info(pkt) ELSE v2.trapOID,
         varbinds |-> convertVarbinds(IF pkt.version = 1 THEN pkt.vars ELSE v2.payload)]
=============================================================================
