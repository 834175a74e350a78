------------------------------- MODULE RlpSui -------------------------------
(***************************************************************************)
(* The RLP codec of the Sui port (sui_rlp) and the messages written with   *)
(* it.                                                                     *)
(***************************************************************************)
EXTENDS RlpBytes

\* truncate_zeros leaves one byte of zero.
SuiTruncated(n) == IF n = 0 THEN <<0>> ELSE BigEndian(n)

SuiToSignedBytes(n) ==
  LET bytes == SuiTruncated(n)
  IN  IF bytes[1] >= 128 THEN <<0>> \o bytes ELSE bytes

\* The offset is that of short values for len < 56 and of long ones else.
SuiEncodeLength(len, offset) ==
  IF len < 56
  THEN <<offset + len>>
  ELSE <<offset + Len(SuiTruncated(len))>> \o SuiTruncated(len)

SuiEncode(b) ==
  CASE b = <<>> -> <<128>>
    [] Len(b) = 1 /\ b[1] < 128 -> b
    [] OTHER -> SuiEncodeLength(Len(b), IF Len(b) <= 55 THEN 128 ELSE 183) \o b

SuiEncodeList(items) ==
  LET result == FlattenSeq(items)
  IN  CASE items = <<>> -> <<192>>
        [] items # <<>> /\ Len(result) <= 55 ->
             SuiEncodeLength(Len(result), 192) \o result
        [] items # <<>> /\ Len(result) > 55 ->
             <<247 + Len(SuiTruncated(Len(result)))>>
               \o SuiTruncated(Len(result)) \o result

SuiEncodeUint(n) == SuiEncode(SuiToSignedBytes(n))

SuiEncodeU8(n) == SuiEncode(<<n>>)

SuiEncodeStrings(ss) ==
  SuiEncodeList([i \in DOMAIN ss |-> SuiEncode(ss[i])])

SuiEncodeRequest(m) ==
  SuiEncodeList(
    <<SuiEncode(m.from), SuiEncode(m.to), SuiEncodeUint(m.sn),
      SuiEncodeU8(m.type), SuiEncode(m.data),
      SuiEncodeStrings(m.protocols)>>)

SuiEncodeResult(m) ==
  SuiEncodeList(
    <<SuiEncodeUint(m.sn), SuiEncodeU8(m.code), SuiEncode(m.data)>>)

SuiEncodeMessage(m) ==
  LET payload == IF m.kind = 1 THEN SuiEncodeRequest(m)
                 ELSE SuiEncodeResult(m)
  IN  SuiEncodeList(<<SuiEncodeU8(m.kind), SuiEncode(payload)>>)

-----------------------------------------------------------------------------
\* from_bytes_u64, for lengths; and decode_u128.
SuiFromBytes(b) == Number(b)

\* (mutant: the bytes are not reversed for BCS, which is little-endian)
SuiDecodeU128Unreversed(b) == Number(Reverse(b))
SuiDecodeU128(b) == Number(b)

\* The item of a list at position i, and where the next one starts.  The byte
\* 247 has no branch and aborts.
SuiItem(b, i) ==
  LET x == b[i]
      item(val, n) == [val |-> val, next |-> i + n]
      long(n) == SuiFromBytes(Slice(b, i + 1, n))
  IN  CASE x \in {128, 192} -> item(<<>>, 1)
        [] x < 128 -> item(<<x>>, 1)
        [] x \in 129..183 -> item(Slice(b, i + 1, x - 128), x - 128 + 1)
        [] x \in 193..246 -> item(Slice(b, i, x - 192 + 1), x - 192 + 1)
        [] x \in 184..191 -> item(Slice(b, i + x - 183 + 1, long(x - 183)),
                                  x - 183 + long(x - 183) + 1)
        [] x \in 248..255 ->
             LET n == x - 247 + long(x - 247) + 1
                 null == x = 248 /\ long(1) = 0
             IN  item(IF null THEN <<>> ELSE Slice(b, i, n), n)
        [] OTHER -> Failed

\* The loop of decode_list over the payload.
SuiItems(encoded) ==
  LET items[i \in Nat] ==
        IF i > Len(encoded) THEN <<>>
        ELSE Joined(SuiItem(encoded, i), items[SuiItem(encoded, i).next])
  IN  items[1]

SuiDecodeList(b) ==
  LET n == IF b[1] <= 247 THEN b[1] - 192
           ELSE SuiFromBytes(Slice(b, 2, b[1] - 247))
  IN  IF b = <<>> THEN <<>> ELSE SuiItems(SubSeq(b, Len(b) - n + 1, Len(b)))

SuiDecodeU8(b) == b[1]

SuiRequest(l, protocols) ==
  IF l = Failed \/ protocols = Failed THEN Failed
  ELSE Request(l[1], l[2], SuiDecodeU128(l[3]), SuiDecodeU8(l[4]), l[5],
               protocols)

SuiDecodeRequest(b) ==
  SuiRequest(SuiDecodeList(b), SuiDecodeList(SuiDecodeList(b)[6]))

SuiResult(l) ==
  IF l = Failed THEN Failed
  ELSE Result(SuiDecodeU128(l[1]), SuiDecodeU8(l[2]), l[3])

SuiDecodeResult(b) == SuiResult(SuiDecodeList(b))

SuiMessage(l) ==
  CASE l = Failed -> Failed
    [] l # Failed /\ SuiDecodeU8(l[1]) = 1 -> SuiDecodeRequest(l[2])
    [] l # Failed /\ SuiDecodeU8(l[1]) = 2 -> SuiDecodeResult(l[2])
    [] OTHER -> Failed

SuiDecodeMessage(b) == SuiMessage(SuiDecodeList(b))

=============================================================================
