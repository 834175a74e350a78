------------------------------- MODULE RlpEvm -------------------------------
(***************************************************************************)
(* The RLP codec of the EVM port (RLPEncode, RLPDecode) and the messages   *)
(* written with it (RLPEncodeStruct, RLPDecodeStruct).  A list is decoded  *)
(* into its items as they are encoded, which are pointers in the source.   *)
(***************************************************************************)
EXTENDS RlpBytes

EvmEncodeLength(len, offset) ==
  IF len < 56
  THEN <<len + offset>>
  ELSE <<Len(BigEndian(len)) + offset + 55>> \o BigEndian(len)

EvmEncodeBytes(b) ==
  IF Len(b) = 1 /\ b[1] < 128 THEN b ELSE EvmEncodeLength(Len(b), 128) \o b

EvmEncodeList(items) ==
  EvmEncodeLength(Len(FlattenSeq(items)), 192) \o FlattenSeq(items)

\* (mutant: a full byte holds 256 values, the sign bit is forgotten)
EvmUintToBytesUnsigned(x) == IF x = 0 THEN <<0>> ELSE BigEndian(x)
\* The shortest bytes that leave the sign bit clear.
EvmUintToBytes(x) ==
  LET fits(i) == x < 128 * 256^(i - 1)
      width == CHOOSE i \in 1..3 : fits(i) /\ \A j \in 1..(i - 1) : ~fits(j)
  IN  [k \in 1..width |-> (x \div 256^(width - k)) % 256]

EvmEncodeUint(x) == EvmEncodeBytes(EvmUintToBytes(x))

EvmEncodeStrings(ss) ==
  EvmEncodeList([i \in DOMAIN ss |-> EvmEncodeBytes(ss[i])])

EvmEncodeRequest(m) ==
  EvmEncodeList(
    <<EvmEncodeBytes(m.from), EvmEncodeBytes(m.to), EvmEncodeUint(m.sn),
      EvmEncodeUint(m.type), EvmEncodeBytes(m.data),
      EvmEncodeStrings(m.protocols)>>)

EvmEncodeResult(m) ==
  EvmEncodeList(
    <<EvmEncodeUint(m.sn), EvmEncodeUint(m.code), EvmEncodeBytes(m.data)>>)

EvmEncodeMessage(m) ==
  LET payload == IF m.kind = 1 THEN EvmEncodeRequest(m)
                 ELSE EvmEncodeResult(m)
  IN  EvmEncodeList(<<EvmEncodeUint(m.kind), EvmEncodeBytes(payload)>>)

-----------------------------------------------------------------------------
EvmItemLength(b, i) ==
  LET x == b[i]
      long(n) == Number(Slice(b, i + 1, n)) + n + 1
  IN  CASE x < 128 -> 1
        [] x \in 128..183 -> x - 128 + 1
        [] x \in 184..191 -> long(x - 183)
        [] x \in 192..247 -> x - 192 + 1
        [] x \in 248..255 -> long(x - 247)

EvmPayloadOffset(b) ==
  CASE b[1] < 128 -> 0
    [] b[1] \in 128..183 \cup 192..247 -> 1
    [] b[1] \in 184..191 -> b[1] - 183 + 1
    [] b[1] \in 248..255 -> b[1] - 247 + 1

\* toBytes, and for numbers toUint and toInt of its outcome.
EvmToBytes(b) ==
  Slice(b, EvmPayloadOffset(b) + 1, Len(b) - EvmPayloadOffset(b))

EvmToList(b) ==
  LET items[i \in Nat] ==
        IF i > Len(b) THEN <<>>
        ELSE <<Slice(b, i, EvmItemLength(b, i))>>
               \o items[i + EvmItemLength(b, i)]
  IN  IF b[1] < 192 THEN Failed ELSE items[EvmPayloadOffset(b) + 1]

EvmToNumber(b) == Number(EvmToBytes(b))

EvmToStringArray(b) ==
  LET ls == EvmToList(b) IN [i \in DOMAIN ls |-> EvmToBytes(ls[i])]

EvmDecodeRequest(b) ==
  LET ls == EvmToList(b)
  IN  Request(EvmToBytes(ls[1]), EvmToBytes(ls[2]), EvmToNumber(ls[3]),
              EvmToNumber(ls[4]), EvmToBytes(ls[5]), EvmToStringArray(ls[6]))

EvmDecodeResult(b) ==
  LET ls == EvmToList(b)
  IN  Result(EvmToNumber(ls[1]), EvmToNumber(ls[2]), EvmToBytes(ls[3]))

EvmDecodeMessage(b) ==
  LET ls == EvmToList(b)
      payload == EvmToBytes(ls[2])
  IN  CASE EvmToNumber(ls[1]) = 1 -> EvmDecodeRequest(payload)
        [] EvmToNumber(ls[1]) = 2 -> EvmDecodeResult(payload)
        [] OTHER -> Failed

=============================================================================
