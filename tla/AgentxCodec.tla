---------------------------- MODULE AgentxCodec ----------------------------
(***************************************************************************)
(* The AgentX wire format (agent/agentx/protocol.rs) and the framing of the *)
(* stream it travels on (read_pdu in agent/agentx/master.rs): one end       *)
(* writes encoded PDUs, the other reads a header, then as many octets as    *)
(* the header announces, and decodes them.                                  *)
(*                                                                         *)
(* Octets are numbers below 256. A text is the sequence of its octets. A    *)
(* body is a record of all fields that some body has; those a type lacks    *)
(* keep their value in Blank. Numbers stay below 2^31, TLC's limit: the     *)
(* upper words of a Counter64 are zero.                                     *)
(***************************************************************************)
EXTENDS Decoding, SequencesExt

CONSTANTS
    Pdus,        \* the PDUs that may be written: [big, packet, body]
    MaxWritten   \* bound on the PDUs in the stream

VARIABLES
    stream,      \* octets written and not yet read
    written,     \* history: the PDUs whose octets are in the stream
    header,      \* the header the reader has read, or NoHeader
    got          \* the PDU written and what the reader made of it, or <<>>

codecVars == <<stream, written, header, got>>

NoContext == <<-1>>
Blank(type) ==
    [type |-> type, timeout |-> 0, priority |-> 0, rangeSubid |-> 0, oid |-> <<>>,
     bound |-> <<>>, context |-> NoContext, ranges |-> <<>>, nonRep |-> 0, maxRep |-> 0,
     varbinds |-> <<>>, text |-> <<>>, sysUpTime |-> 0, error |-> 0, index |-> 0]

(* The bodies that start with a context, if there is one.                   *)
HasContextField(type) == type \notin {"Open", "Close", "Cleanup", "Response"}

PduTypes ==
    << "Open", "Close", "Register", "Unregister", "Get", "GetNext", "GetBulk", "Set",
       "Undo", "Cleanup", "Notify", "Ping", "IndexAllocate", "IndexDeallocate",
       "AddAgentCaps", "RemoveAgentCaps", "none", "Response" >>

as_u8(type) == CHOOSE i \in DOMAIN PduTypes : PduTypes[i] = type

Tags ==
    [Integer |-> 2, OctetString |-> 4, Null |-> 5, Oid |-> 6, IpAddress |-> 64,
     Counter32 |-> 65, Gauge32 |-> 66, TimeTicks |-> 67, Opaque |-> 68, Counter64 |-> 70]

----------------------------------------------------------------------------
(* Numbers, padded texts and OIDs. *)

Octets(v, n, big) ==
    LET little == [i \in 1..n |-> IF i > 4 THEN 0 ELSE (v \div (256 ^ (i - 1))) % 256]
    IN  IF big THEN Reverse(little) ELSE little

Number(octets, big) ==
    LET little == IF big THEN Reverse(octets) ELSE octets
    IN  FoldLeftDomain(LAMBDA n, i : n + (IF i > 4 THEN 0 ELSE little[i] * (256 ^ (i - 1))), 0, little)

write_u32(v, big) == Octets(v, 4, big)
write_u16(v, big) == Octets(v, 2, big)

Unpadded(text) == text

(* Zeros up to the next multiple of four.                                   *)
Pad(len) == (4 - (len % 4)) % 4
Padded(text) == text \o [i \in 1..Pad(Len(text)) |-> 0]
write_text(text, big) == write_u32(Len(text), big) \o Padded(text)

(* 1.3.6.1.x is folded into a prefix octet: x is cut to eight bits, and 0   *)
(* becomes 1. The count of the other arcs is cut to eight bits too.         *)
Internet == <<1, 3, 6, 1>>
Folded(oid) == IsPrefix(Internet, oid)
encode_oid_bytes(oid, include, big) ==
    LET arcs == IF Folded(oid) THEN SubSeq(oid, 6, Len(oid)) ELSE oid
        x == oid[5] % 256
        prefix == IF ~ Folded(oid) THEN 0 ELSE IF x = 0 THEN 1 ELSE x
    IN  <<Len(arcs) % 256, prefix, include, 0>>
            \o FlattenSeq([i \in DOMAIN arcs |-> write_u32(arcs[i], big)])

(* `arcs[4]` of an OID that is 1.3.6.1 and no more is out of bounds.        *)
EncodePanics(oid) == oid = Internet

take4(bytes) == Take(4, bytes)
read_u32(bytes, big) == Then(take4(bytes), LAMBDA v, rest : Ok(Number(v, big), rest))
read_u16(bytes, big) == Then(Take(2, bytes), LAMBDA v, rest : Ok(Number(v, big), rest))
take_padded(bytes, len) ==
    Then(Take(len, bytes), LAMBDA text, rest :
      Then(Take(Pad(len), rest), LAMBDA pad, more : Ok(text, more)))
read_text(bytes, big) ==
    Then(read_u32(bytes, big), LAMBDA len, rest : take_padded(rest, len))

decode_oid_bytes(bytes, big) ==
    Then(take4(bytes), LAMBDA head, body :
      Then(Take(4 * head[1], body), LAMBDA words, rest :
        Ok((IF head[2] # 0 THEN Append(Internet, head[2]) ELSE <<>>)
             \o [i \in 1..head[1] |-> Number(SubSeq(words, 4 * i - 3, 4 * i), big)], rest)))

----------------------------------------------------------------------------
(* Values and variable bindings: [name, type, value]. *)

(* value_to_data: an exception of a handler goes out as Null.               *)
Exceptions == {"NoSuchObject", "NoSuchInstance", "EndOfMibView"}
DataType(type) == IF type \in Exceptions THEN "Null" ELSE type

DataEncode(vb, big) ==
    LET payload ==
          CASE vb.type \in {"OctetString", "Opaque"} -> write_text(vb.value, big)
            [] DataType(vb.type) = "Null" -> <<>>
            [] vb.type = "Oid" -> encode_oid_bytes(vb.value, 0, big)
            [] vb.type = "IpAddress" -> vb.value
            [] vb.type = "Counter64" -> Octets(vb.value, 8, big)
            [] OTHER -> write_u32(vb.value, big)
    IN  write_u16(Tags[DataType(vb.type)], big) \o <<0, 0>> \o payload

DataDecode(tag, bytes, big) ==
    LET typed(type, r) == Then(r, LAMBDA v, rest : Ok([type |-> type, value |-> v], rest))
    IN  CASE tag = 4 -> typed("OctetString", read_text(bytes, big))
          [] tag = 68 -> typed("Opaque", read_text(bytes, big))
          [] tag = 5 -> Ok([type |-> "Null", value |-> <<>>], bytes)
          [] tag = 6 -> typed("Oid", decode_oid_bytes(bytes, big))
          [] tag = 64 -> typed("IpAddress", take4(bytes))
          [] tag = 70 -> Then(Take(8, bytes), LAMBDA v, rest :
                           Ok([type |-> "Counter64", value |-> Number(v, big)], rest))
          [] tag \in {2, 65, 66, 67} ->
               typed(CHOOSE t \in DOMAIN Tags : Tags[t] = tag, read_u32(bytes, big))
          [] OTHER -> Err

encode_varbind(vb, big) == DataEncode(vb, big) \o encode_oid_bytes(vb.name, 0, big)
decode_varbind(bytes, big) ==
    Then(read_u16(bytes, big), LAMBDA tag, r1 :
      Then(Take(2, r1), LAMBDA reserved, r2 :
        Then(DataDecode(tag, r2, big), LAMBDA data, r3 :
          Then(decode_oid_bytes(r3, big), LAMBDA name, rest :
            Ok([name |-> name, type |-> data.type, value |-> data.value], rest)))))

encode_range(r, big) == encode_oid_bytes(r[1], 1, big) \o encode_oid_bytes(r[2], 0, big)
decode_range(bytes, big) ==
    Then(decode_oid_bytes(bytes, big), LAMBDA start, r1 :
      IF r1 = <<>> THEN Err
      ELSE Then(decode_oid_bytes(r1, big), LAMBDA end, rest : Ok(<<start, end>>, rest)))

(* `while !rest.is_empty()`: elements up to the end of the payload.         *)
RECURSIVE DecodeAll(_, _, _)
DecodeAll(kind, bytes, big) ==
    IF bytes = <<>> THEN Ok(<<>>, <<>>)
    ELSE Then(IF kind = "range" THEN decode_range(bytes, big) ELSE decode_varbind(bytes, big),
              LAMBDA v, rest :
                Then(DecodeAll(kind, rest, big), LAMBDA vs, end : Ok(<<v>> \o vs, end)))

Each(F(_, _), list, big) == FlattenSeq([i \in DOMAIN list |-> F(list[i], big)])

----------------------------------------------------------------------------
(* Bodies. *)

encode_context(ctx, big) == IF ctx = NoContext THEN <<>> ELSE write_text(ctx, big)

(* The bound of a range is the arc that rangeSubid points at, or 0.         *)
UpperArc(b) == IF b.rangeSubid <= Len(b.bound) THEN b.bound[b.rangeSubid] ELSE 0

encode_body(b, big) ==
    LET context == encode_context(b.context, big)
    IN  CASE b.type = "Open" ->
               <<b.timeout, 0, 0, 0>> \o encode_oid_bytes(b.oid, 0, big) \o write_text(b.text, big)
          [] b.type = "Close" -> <<b.error, 0, 0, 0>>
          [] b.type \in {"Register", "Unregister"} ->
               <<b.timeout, b.priority, b.rangeSubid, 0>> \o context
                 \o encode_oid_bytes(b.oid, 0, big)
                 \o (IF b.rangeSubid # 0 THEN write_u32(UpperArc(b), big) ELSE <<>>)
          [] b.type \in {"Get", "GetNext"} -> context \o Each(encode_range, b.ranges, big)
          [] b.type = "GetBulk" ->
               write_u16(b.nonRep, big) \o write_u16(b.maxRep, big) \o context
                 \o Each(encode_range, b.ranges, big)
          [] b.type \in {"Set", "Undo", "Notify", "IndexAllocate", "IndexDeallocate"} ->
               context \o Each(encode_varbind, b.varbinds, big)
          [] b.type = "Cleanup" -> <<>>
          [] b.type = "Ping" -> context
          [] b.type \in {"AddAgentCaps", "RemoveAgentCaps"} ->
               context \o encode_oid_bytes(b.oid, 0, big) \o write_text(b.text, big)
          [] b.type = "Response" ->
               write_u32(b.sysUpTime, big) \o write_u16(b.error, big) \o write_u16(b.index, big)
                 \o Each(encode_varbind, b.varbinds, big)

(* An unknown reason is read as `other`.                                    *)
CloseReason(octet) == IF octet \in 2..5 THEN octet ELSE 1

(* The parts that several bodies share, each added to the body b.           *)
decode_caps(b, bytes, big) ==
    Then(decode_oid_bytes(bytes, big), LAMBDA oid, r1 :
      Then(read_text(r1, big), LAMBDA text, r2 : Ok([b EXCEPT !.oid = oid, !.text = text], r2)))
decode_ranges(b, bytes, big) ==
    Then(DecodeAll("range", bytes, big), LAMBDA rs, end : Ok([b EXCEPT !.ranges = rs], end))
decode_varbinds(b, bytes, big) ==
    Then(DecodeAll("varbind", bytes, big), LAMBDA vs, end : Ok([b EXCEPT !.varbinds = vs], end))

decode_register(type, bytes, big) ==
    Then(take4(bytes), LAMBDA f, r1 :
      Then(decode_oid_bytes(r1, big), LAMBDA oid, r2 :
        LET b == [Blank(type) EXCEPT !.timeout = f[1], !.priority = f[2],
                                     !.rangeSubid = f[3], !.oid = oid]
        IN  IF f[3] = 0 THEN Ok(b, r2)
            ELSE Then(read_u32(r2, big), LAMBDA upper, rest :
                   Ok([b EXCEPT !.bound = <<upper>>], rest))))

decode_response(bytes, big) ==
    Then(read_u32(bytes, big), LAMBDA up, r1 :
      Then(read_u16(r1, big), LAMBDA error, r2 :
        Then(read_u16(r2, big), LAMBDA index, r3 :
          decode_varbinds([Blank("Response") EXCEPT !.sysUpTime = up, !.error = error,
                                                    !.index = index], r3, big))))

(* A leading context is not consumed; a GetNext is read as a Get.           *)
decode_body(type, bytes, big) ==
    CASE type = "Open" ->
           Then(take4(bytes), LAMBDA f, rest :
             decode_caps([Blank(type) EXCEPT !.timeout = f[1]], rest, big))
      [] type = "Close" ->
           Then(take4(bytes), LAMBDA f, rest :
             Ok([Blank(type) EXCEPT !.error = CloseReason(f[1])], rest))
      [] type \in {"Register", "Unregister"} -> decode_register(type, bytes, big)
      [] type \in {"Get", "GetNext"} -> decode_ranges(Blank("Get"), bytes, big)
      [] type = "GetBulk" ->
           Then(read_u16(bytes, big), LAMBDA n, r1 :
             Then(read_u16(r1, big), LAMBDA m, r2 :
               decode_ranges([Blank(type) EXCEPT !.nonRep = n, !.maxRep = m], r2, big)))
      [] type \in {"Set", "Undo", "Notify", "IndexAllocate", "IndexDeallocate"} ->
           decode_varbinds(Blank(type), bytes, big)
      [] type \in {"Cleanup", "Ping"} -> Ok(Blank(type), bytes)
      [] type \in {"AddAgentCaps", "RemoveAgentCaps"} -> decode_caps(Blank(type), bytes, big)
      [] type = "Response" -> decode_response(bytes, big)

----------------------------------------------------------------------------
(* Headers and PDUs. Of the flags, 4 tells the byte order and 8 that there  *)
(* is a context.                                                            *)

Flags(pdu) ==
    (IF pdu.big THEN 4 ELSE 0)
        + (IF HasContextField(pdu.body.type) /\ pdu.body.context # NoContext THEN 8 ELSE 0)

HeaderEncode(pdu, length) ==
    <<1, as_u8(pdu.body.type), Flags(pdu), 0>>
        \o write_u32(pdu.session, pdu.big) \o write_u32(pdu.transaction, pdu.big)
        \o write_u32(pdu.packet, pdu.big) \o write_u32(length, pdu.big)

HeaderDecode(octets) ==
    LET big == (octets[3] \div 4) % 2 = 1
        word(i) == Number(SubSeq(octets, i, i + 3), big)
    IN  [code |-> octets[2], big |-> big, context |-> (octets[3] \div 8) % 2 = 1,
         session |-> word(5), transaction |-> word(9), packet |-> word(13), length |-> word(17)]

encode_pdu(pdu) ==
    LET body == encode_body(pdu.body, pdu.big)
    IN  HeaderEncode(pdu, Len(body)) \o body

(* With the flag set the body is given an empty context.                    *)
fill_context(b) == IF HasContextField(b.type) THEN [b EXCEPT !.context = <<>>] ELSE b

decode_pdu(h, payload) ==
    IF h.code \notin DOMAIN PduTypes \ {17} THEN Err
    ELSE Then(decode_body(PduTypes[h.code], payload, h.big), LAMBDA b, rest :
           Ok([big |-> h.big, session |-> h.session, transaction |-> h.transaction,
               packet |-> h.packet, body |-> IF h.context THEN fill_context(b) ELSE b], <<>>))

----------------------------------------------------------------------------
(* The two ends of the stream. *)

NoHeader == [code |-> 0]

CodecInit == stream = <<>> /\ written = <<>> /\ header = NoHeader /\ got = <<>>

OidsOf(b) ==
    {b.oid} \cup UNION {{r[1], r[2]} : r \in ToSet(b.ranges)}
        \cup UNION {{v.name} \cup (IF v.type = "Oid" THEN {v.value} ELSE {}) : v \in ToSet(b.varbinds)}

(* A PDU that cannot be encoded takes the writing task down before anything *)
(* is on the stream.                                                        *)
WritePdu(pdu) ==
    /\ Len(written) < MaxWritten
    /\ \A oid \in OidsOf(pdu.body) : ~ EncodePanics(oid)
    /\ stream' = stream \o encode_pdu(pdu)
    /\ written' = Append(written, pdu)
    /\ got' = <<>>
    /\ UNCHANGED header

(* read_exact of 20 octets.                                                 *)
ReadHeader ==
    /\ header = NoHeader /\ Len(stream) >= 20
    /\ header' = HeaderDecode(SubSeq(stream, 1, 20))
    /\ stream' = SubSeq(stream, 21, Len(stream))
    /\ UNCHANGED <<written, got>>

(* read_exact of the payload, if any, and its decoding.                     *)
ReadPayload ==
    /\ header # NoHeader /\ Len(stream) >= header.length
    /\ LET r == decode_pdu(header, SubSeq(stream, 1, header.length))
       IN  got' = <<Head(written), IF r.ok THEN <<r.v>> ELSE <<>>>>
    /\ stream' = SubSeq(stream, header.length + 1, Len(stream))
    /\ written' = Tail(written)
    /\ header' = NoHeader

CodecNext == (\E pdu \in Pdus : WritePdu(pdu)) \/ ReadHeader \/ ReadPayload
CodecSpec == CodecInit /\ [][CodecNext]_codecVars

----------------------------------------------------------------------------
(* What the format keeps of a PDU: no context, no range, no GetNext, no     *)
(* exception, and OIDs that are short and whose fifth arc fits an octet.    *)
Kept(pdu) ==
    /\ pdu.body.context = NoContext /\ pdu.body.rangeSubid = 0 /\ pdu.body.type # "GetNext"
    /\ \A v \in ToSet(pdu.body.varbinds) : v.type \notin Exceptions
    /\ \A oid \in OidsOf(pdu.body) : Folded(oid) => oid[5] \in 1..255

(* "payload_length is recomputed on encode": the reader meets the PDUs one  *)
(* by one and in order, and reads each that the format can express as it    *)
(* was written, even behind one of which it lost a part.                    *)
ReadsWhatWasWritten ==
    got # <<>> =>
      /\ Kept(got[1]) => got[2] = <<got[1]>>
      /\ got[2] # <<>> => got[2][1].packet = got[1].packet
============================================================================
