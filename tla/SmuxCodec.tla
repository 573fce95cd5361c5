----------------------------- MODULE SmuxCodec -----------------------------
(***************************************************************************)
(* The BER of the SMUX protocol, written by hand in agent/smux.rs, and the  *)
(* reading of PDUs off the connection: one end writes, the other reads one  *)
(* TLV at a time and decodes it.                                            *)
(*                                                                         *)
(* Octets are numbers below 256, integers are i64 in the code and below     *)
(* 2^31 here. A text is the sequence of its octets.                         *)
(***************************************************************************)
EXTENDS Decoding, SequencesExt

CONSTANTS
    SmuxPdus,     \* the PDUs that may be written
    MaxSmuxPdus   \* bound on the PDUs written and unread

VARIABLES
    wire,         \* octets written and not yet read
    sent,         \* history: the PDUs whose octets are on the wire
    received      \* the PDU written and what the reader made of it, or <<>>

berVars == <<wire, sent, received>>

SmuxTags == [Open |-> 160, RRsp |-> 161, Close |-> 164, Sout |-> 165]
SnmpTags == <<"Get", "GetNext", "Response", "Set", "TrapV1", "GetBulk", "Inform", "TrapV2", "Report">>
ValueTags ==
    [Integer |-> 2, OctetString |-> 4, Null |-> 5, Oid |-> 6, IpAddress |-> 64, Counter32 |-> 65,
     Gauge32 |-> 66, TimeTicks |-> 67, Opaque |-> 68, Counter64 |-> 70,
     NoSuchObject |-> 128, NoSuchInstance |-> 129, EndOfMibView |-> 130]

----------------------------------------------------------------------------
(* Encoding. *)

Least(S) == CHOOSE n \in S : \A m \in S : n <= m

(* The octet of weight 256^(i-1) of an i64.                                 *)
OctetOf(v, i) == IF i > 4 THEN (IF v < 0 THEN 255 ELSE 0) ELSE (v \div (256 ^ (i - 1))) % 256
BigEndian(v) == [i \in 1..8 |-> OctetOf(v, 9 - i)]

(* Leading octets that only repeat the sign are dropped.                    *)
Minimal(octets, v) ==
    LET sign == IF v < 0 THEN 255 ELSE 0
        repeats(i) == octets[i] = sign /\ (octets[i + 1] >= 128) = (v < 0)
        first == Least({i \in 1..8 : i = 8 \/ ~ repeats(i)})
    IN  SubSeq(octets, first, 8)

(* The slip of dropping all leading zeros.                                  *)
ber_integer_short(v) ==
    LET octets == BigEndian(v)
    IN  SubSeq(octets, Least({i \in 1..8 : i = 8 \/ octets[i] # 0}), 8)

ber_integer_content(v) == Minimal(BigEndian(v), v)
ber_unsigned_content(v, min) ==
    SubSeq(BigEndian(v), Least({i \in 1..8 : 9 - i = min \/ BigEndian(v)[i] # 0}), 8)

ber_len(n) ==
    IF n < 128 THEN <<n>>
    ELSE LET octets == ber_unsigned_content(n, 1) IN <<128 + Len(octets)>> \o octets
ber_tlv(tag, content) == <<tag>> \o ber_len(Len(content)) \o content
ber_integer(v) == ber_tlv(2, ber_integer_content(v))

encode_base128(v) ==
    LET digits == Least({n \in 1..5 : n = 5 \/ v < 128 ^ n})
    IN  [i \in 1..digits |->
           ((v \div (128 ^ (digits - i))) % 128) + (IF i = digits THEN 0 ELSE 128)]

(* The first two arcs share a number.                                       *)
ber_oid_content(oid) ==
    IF oid = <<>> THEN <<0>>
    ELSE LET first == 40 * oid[1] + (IF Len(oid) > 1 THEN oid[2] ELSE 0)
         IN  encode_base128(first)
               \o FlattenSeq([i \in 1..(Len(oid) - 2) |-> encode_base128(oid[i + 2])])
ber_oid(oid) == ber_tlv(6, ber_oid_content(oid))

ValueContent(type, v) ==
    CASE type = "Integer" -> ber_integer_content(v)
      [] type \in {"OctetString", "Opaque", "IpAddress"} -> v
      [] type = "Oid" -> ber_oid_content(v)
      [] type \in {"Counter32", "Gauge32", "TimeTicks"} -> ber_unsigned_content(v, 4)
      [] type = "Counter64" -> ber_unsigned_content(v, 8)
      [] OTHER -> <<>>
encode_value(vb) == ber_tlv(ValueTags[vb.type], ValueContent(vb.type, vb.value))

(* An SNMP PDU: three integers and a list of bindings. A registration is a  *)
(* Get of the subtree followed by the priority and the operation.           *)
SnmpBody(id, status, index, vbs) ==
    ber_integer(id) \o ber_integer(status) \o ber_integer(index)
      \o ber_tlv(48, FlattenSeq([i \in DOMAIN vbs |->
                                   ber_tlv(48, ber_oid(vbs[i].name) \o encode_value(vbs[i]))]))

encode_register(p) ==
    ber_tlv(160, SnmpBody(0, 0, 0,
      <<[name |-> p.subtree \o <<p.priority, p.operation>>, type |-> "Null", value |-> <<>>]>>))

SmuxEncode(p) ==
    CASE p.type = "Open" ->
           ber_tlv(160, ber_integer(p.version) \o ber_oid(p.identity)
                          \o ber_tlv(4, p.description) \o ber_tlv(4, p.password))
      [] p.type \in {"Close", "RRsp", "Sout"} -> ber_tlv(SmuxTags[p.type], ber_integer(p.code))
      [] p.type = "Register" -> encode_register(p)
      [] p.type = "Snmp" ->
           ber_tlv(159 + (CHOOSE i \in DOMAIN SnmpTags : SnmpTags[i] = p.kind),
                   SnmpBody(p.id, p.status, p.index, p.vbs))

----------------------------------------------------------------------------
(* Decoding. *)

BigNumber(octets) == FoldLeft(LAMBDA n, b : n * 256 + b, 0, octets)

parse_len(bytes) ==
    IF bytes = <<>> THEN Err
    ELSE IF Head(bytes) < 128 THEN Ok(Head(bytes), Tail(bytes))
    ELSE LET n == Head(bytes) - 128
         IN  IF n \notin 1..4 THEN Err
             ELSE Then(Take(n, Tail(bytes)), LAMBDA o, rest : Ok(BigNumber(o), rest))

parse_tlv(bytes) ==
    IF Len(bytes) < 2 THEN Err
    ELSE Then(parse_len(Tail(bytes)), LAMBDA len, r1 :
           Then(Take(len, r1), LAMBDA content, rest :
             Ok([tag |-> Head(bytes), content |-> content], rest)))

(* The first octet carries the sign.                                        *)
parse_integer(octets) ==
    LET first == IF Head(octets) >= 128 THEN Head(octets) - 256 ELSE Head(octets)
    IN  FoldLeft(LAMBDA n, b : n * 256 + b, first, Tail(octets))

(* Counter32 and its like shift bits out at the top; Counter64 keeps them.  *)
parse_unsigned(octets) ==
    BigNumber(IF Len(octets) > 4 THEN SubSeq(octets, Len(octets) - 3, Len(octets)) ELSE octets)

(* The first octet is taken for both first arcs, whatever its high bit; the *)
(* others end at an octet without it.                                       *)
parse_oid(octets) ==
    LET step(s, b) ==
          LET n == s.n * 128 + (b % 128)
          IN  IF b < 128 THEN [arcs |-> Append(s.arcs, n), n |-> 0] ELSE [s EXCEPT !.n = n]
        start == [arcs |-> <<octets[1] \div 40, octets[1] % 40>>, n |-> 0]
    IN  IF octets = <<>> THEN Err
        ELSE IF Len(octets) > 1 /\ octets[Len(octets)] >= 128 THEN Err
        ELSE Ok(FoldLeft(step, start, Tail(octets)).arcs, <<>>)

decode_value_by_tag(tlv) ==
    LET types == {t \in DOMAIN ValueTags : ValueTags[t] = tlv.tag}
        type == IF types = {} THEN "Null" ELSE CHOOSE t \in types : TRUE
        c == tlv.content
        is(v) == [type |-> type, value |-> v]
    IN  CASE type = "Integer" -> is(IF c = <<>> THEN 0 ELSE parse_integer(c))
          [] type = "IpAddress" -> IF Len(c) = 4 THEN is(c) ELSE [type |-> "Null", value |-> <<>>]
          [] type \in {"OctetString", "Opaque"} -> is(c)
          [] type = "Oid" -> is(IF parse_oid(c).ok THEN parse_oid(c).v ELSE <<>>)
          [] type \in {"Counter32", "Gauge32", "TimeTicks"} -> is(parse_unsigned(c))
          [] type = "Counter64" -> is(BigNumber(c))
          [] OTHER -> is(<<>>)

IntegerTlv(bytes) ==
    Then(parse_tlv(bytes), LAMBDA t, rest :
      IF t.content = <<>> THEN Err ELSE Ok(parse_integer(t.content), rest))
OidTlv(bytes) ==
    Then(parse_tlv(bytes), LAMBDA t, rest :
      Then(parse_oid(t.content), LAMBDA oid, end : Ok(oid, rest)))

RECURSIVE decode_varbinds_ber(_)
decode_varbinds_ber(bytes) ==
    IF bytes = <<>> THEN Ok(<<>>, <<>>)
    ELSE Then(parse_tlv(bytes), LAMBDA vb, rest :
           Then(OidTlv(vb.content), LAMBDA name, r1 :
             Then(parse_tlv(r1), LAMBDA t, r2 :
               Then(decode_varbinds_ber(rest), LAMBDA vbs, end :
                 LET v == decode_value_by_tag(t)
                 IN  Ok(<<[name |-> name, type |-> v.type, value |-> v.value]>> \o vbs, end)))))

decode_bare_snmp_pdu(tag, bytes) ==
    IF tag % 32 > 8 THEN Err
    ELSE Then(IntegerTlv(bytes), LAMBDA id, r1 :
           Then(IntegerTlv(r1), LAMBDA status, r2 :
             Then(IntegerTlv(r2), LAMBDA index, r3 :
               Then(parse_tlv(r3), LAMBDA list, r4 :
                 Then(decode_varbinds_ber(list.content), LAMBDA vbs, end :
                   Ok([type |-> "Snmp", kind |-> SnmpTags[(tag % 32) + 1], id |-> id,
                       status |-> status, index |-> index, vbs |-> vbs], <<>>))))))

(* The name of a registration ends with a priority and the operation 1. (An *)
(* arc is never -1, the operation that takes a registration back.)          *)
decode_register_from_varbind(p) ==
    LET name == p.vbs[1].name
    IN  IF Len(p.vbs) # 1 \/ Len(name) < 3 THEN Err
        ELSE IF name[Len(name)] # 1 THEN Err
        ELSE Ok([type |-> "Register", subtree |-> SubSeq(name, 1, Len(name) - 2),
                 priority |-> name[Len(name) - 1], operation |-> 1], <<>>)

RECURSIVE TagsOf(_)
TagsOf(bytes) ==
    IF bytes = <<>> \/ ~ parse_tlv(bytes).ok THEN <<>>
    ELSE <<Head(bytes)>> \o TagsOf(parse_tlv(bytes).rest)

decode_open(bytes) ==
    Then(IntegerTlv(bytes), LAMBDA version, r1 :
      Then(OidTlv(r1), LAMBDA identity, r2 :
        Then(parse_tlv(r2), LAMBDA d, r3 :
          Then(parse_tlv(r3), LAMBDA p, r4 :
            Ok([type |-> "Open", version |-> version, identity |-> identity,
                description |-> d.content, password |-> p.content], <<>>)))))

(* An Open and a Get share a tag: the tags of the first four elements tell  *)
(* them apart, and a Get that is no registration is read as an Open.        *)
decode_a0(content) ==
    LET tags == TagsOf(content)
        pdu == decode_bare_snmp_pdu(160, content)
    IN  IF Len(tags) < 4 THEN Err
        ELSE IF tags[2] = 6 \/ tags[4] # 48 THEN decode_open(content)
        ELSE IF ~ pdu.ok THEN Err
        ELSE IF decode_register_from_varbind(pdu.v).ok THEN decode_register_from_varbind(pdu.v)
        ELSE decode_open(content)

decode_smux_pdu(tlv) ==
    LET code(type) == Then(IntegerTlv(tlv.content), LAMBDA c, rest : Ok([type |-> type, code |-> c], <<>>))
    IN  CASE tlv.tag = 160 -> decode_a0(tlv.content)
          [] tlv.tag = 161 -> code("RRsp")
          [] tlv.tag = 164 -> code("Close")
          [] tlv.tag = 165 -> code("Sout")
          [] OTHER -> decode_bare_snmp_pdu(tlv.tag, tlv.content)

----------------------------------------------------------------------------
BerInit == wire = <<>> /\ sent = <<>> /\ received = <<>>

SmuxWrite(p) ==
    /\ Len(sent) < MaxSmuxPdus
    /\ wire' = wire \o SmuxEncode(p)
    /\ sent' = Append(sent, p)
    /\ received' = <<>>

(* read_one_pdu: a tag and a length, then as many octets.                   *)
SmuxRead ==
    /\ parse_tlv(wire).ok
    /\ LET t == parse_tlv(wire)
           r == decode_smux_pdu(t.v)
       IN  /\ received' = <<Head(sent), IF r.ok THEN <<r.v>> ELSE <<>>>>
           /\ wire' = t.rest
    /\ sent' = Tail(sent)

BerNext == (\E p \in SmuxPdus : SmuxWrite(p)) \/ SmuxRead
BerSpec == BerInit /\ [][BerNext]_berVars

----------------------------------------------------------------------------
(* OIDs whose first two arcs fit one octet without its high bit.            *)
Plain128(oid) == Len(oid) >= 2 /\ oid[2] < 40 /\ 40 * oid[1] + oid[2] < 128

(* What the agent is sent: opens, registrations, closes and responses.      *)
BerKept(p) ==
    CASE p.type = "Open" -> Plain128(p.identity)
      [] p.type \in {"Close", "RRsp", "Sout"} -> TRUE
      [] p.type = "Register" -> Plain128(p.subtree) /\ p.operation = 1
      [] p.type = "Snmp" ->
           /\ p.kind \in {"Response", "Set"}
           /\ \A vb \in ToSet(p.vbs) :
                Plain128(vb.name) /\ (vb.type = "Oid" => Plain128(vb.value))

(* ber_integer's "round-trip correctly": PDUs are read one by one, whatever *)
(* their length, and what the agent is sent is read as it was written, at   *)
(* every width of integer, arc and length.                                  *)
BerReadsBack ==
    /\ received # <<>> /\ BerKept(received[1]) => received[2] = <<received[1]>>
    /\ wire = <<>> <=> sent = <<>>
============================================================================
