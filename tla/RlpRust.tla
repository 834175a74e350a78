------------------------------- MODULE RlpRust ------------------------------
(***************************************************************************)
(* The RLP codecs of the Soroban port (soroban-rlp) and of the Solana port *)
(* (libs/rlp), and the messages written with them.                         *)
(***************************************************************************)
EXTENDS RlpBytes

SorobanEncodeLength(len, offset) ==
  IF len < 56
  THEN <<len + offset>>
  ELSE <<Len(BigEndian(len)) + offset + 55>> \o BigEndian(len)

SorobanEncode(b) ==
  CASE b = <<>> -> <<128>>
    [] Len(b) = 1 /\ b[1] < 128 -> b
    [] OTHER -> SorobanEncodeLength(Len(b), 128) \o b

SorobanEncodeList(items) ==
  IF items = <<>>
  THEN <<192>>
  ELSE SorobanEncodeLength(Len(FlattenSeq(items)), 192) \o FlattenSeq(items)

\* A byte of zero keeps a number with a high first byte positive.
SorobanToSignedBytes(n) ==
  LET bytes == BigEndian(n)
  IN  IF bytes # <<>> /\ bytes[1] >= 128 THEN <<0>> \o bytes ELSE bytes

SorobanEncodeUint(n) == SorobanEncode(SorobanToSignedBytes(n))

SorobanEncodeU8(n) == SorobanEncode(<<n>>)

SorobanEncodeStrings(ss) ==
  SorobanEncodeList([i \in DOMAIN ss |-> SorobanEncode(ss[i])])

SorobanEncodeRequest(m) ==
  SorobanEncodeList(
    <<SorobanEncode(m.from), SorobanEncode(m.to), SorobanEncodeUint(m.sn),
      SorobanEncodeU8(m.type), SorobanEncode(m.data),
      SorobanEncodeStrings(m.protocols)>>)

SorobanEncodeResult(m) ==
  SorobanEncodeList(
    <<SorobanEncodeUint(m.sn), SorobanEncodeU8(m.code), SorobanEncode(m.data)>>)

SorobanEncodeMessage(m) ==
  LET payload == IF m.kind = 1 THEN SorobanEncodeRequest(m)
                 ELSE SorobanEncodeResult(m)
  IN  SorobanEncodeList(<<SorobanEncodeUint(m.kind), SorobanEncode(payload)>>)

-----------------------------------------------------------------------------
\* decode of the encoding of one value.  decode_string, decode_u8 and the like
\* apply it to items of lists, which decode_list has decoded already.
SorobanDecode(b) ==
  LET long(n) == Slice(b, n + 2, Number(Slice(b, 2, n)))
  IN  CASE b = <<>> -> Failed
        [] b # <<>> /\ b[1] \in {128, 192} -> <<>>
        [] b # <<>> /\ b[1] < 128 -> b
        [] b # <<>> /\ b[1] \in 129..183 -> Slice(b, 2, b[1] - 128)
        [] b # <<>> /\ b[1] \in 184..191 -> long(b[1] - 183)
        [] b # <<>> /\ b[1] \in 193..247 -> Slice(b, 2, b[1] - 192)
        [] b # <<>> /\ b[1] \in 248..255 -> long(b[1] - 247)

\* How long the payload of a list is: decided by the length of the whole, not
\* by its first byte.
SorobanDecodeLength(b, offset) ==
  CASE b = <<>> -> 0
    [] Len(b) \in 1..55 -> b[1] - offset
    [] Len(b) >= 56 -> Number(Slice(b, 2, b[1] - offset - 55))

\* The item of a list at position i, and where the next one starts.  The byte
\* 247 has no branch and panics.
SorobanItem(b, i) ==
  LET x == b[i]
      item(val, n) == [val |-> val, next |-> i + n]
      long(n) == Number(Slice(b, i + 1, n))
  IN  CASE x \in {128, 192} -> item(<<>>, 1)
        [] x < 128 -> item(<<x>>, 1)
        [] x \in 129..183 -> item(Slice(b, i + 1, x - 128), x - 128 + 1)
        [] x \in 193..246 -> item(Slice(b, i, x - 192 + 1), x - 192 + 1)
        [] x \in 184..191 -> item(Slice(b, i + x - 183 + 1, long(x - 183)),
                                  x - 183 + long(x - 183) + 1)
        [] x \in 248..255 ->
             LET n == x - 247 + long(x - 247) + 1
                 null == x = 248 /\ long(1) = 0
             IN  item(IF null THEN <<>> ELSE Slice(b, i, n), n)
        [] OTHER -> Failed

\* The loop of decode_list over the payload.
SorobanItems(encoded) ==
  LET items[i \in Nat] ==
        IF i > Len(encoded) THEN <<>>
        ELSE Joined(SorobanItem(encoded, i),
                    items[SorobanItem(encoded, i).next])
  IN  items[1]

SorobanDecodeList(b) ==
  SorobanItems(SubSeq(b, Len(b) - SorobanDecodeLength(b, 192) + 1, Len(b)))

\* decode checks the number of items.
SorobanFields(fields, n) ==
  IF fields = Failed \/ Len(fields) # n THEN Failed ELSE fields

SorobanDecodeU128(b) ==
  IF Len(b) = 1 THEN Number(b) ELSE Number(SorobanDecode(b))

SorobanDecodeU8(b) ==
  LET bytes == SorobanDecode(b) IN IF bytes = <<>> THEN 0 ELSE bytes[1]

SorobanRequest(l, protocols) ==
  IF l = Failed \/ protocols = Failed THEN Failed
  ELSE Request(SorobanDecode(l[1]), SorobanDecode(l[2]),
               SorobanDecodeU128(l[3]), SorobanDecodeU8(l[4]), l[5], protocols)

SorobanDecodeRequest(b) ==
  LET l == SorobanFields(SorobanDecodeList(b), 6)
  IN  SorobanRequest(l, SorobanDecodeList(l[6]))

SorobanResult(l) ==
  IF l = Failed THEN Failed
  ELSE Result(SorobanDecodeU128(l[1]), SorobanDecodeU8(l[2]), l[3])

SorobanDecodeResult(b) == SorobanResult(SorobanFields(SorobanDecodeList(b), 3))

SorobanMessage(l) ==
  LET kind == Number(SorobanDecode(l[1]))
  IN  CASE l = Failed -> Failed
        [] l # Failed /\ kind = 1 -> SorobanDecodeRequest(l[2])
        [] l # Failed /\ kind = 2 -> SorobanDecodeResult(l[2])
        [] OTHER -> Failed

SorobanDecodeMessage(b) == SorobanMessage(SorobanFields(SorobanDecodeList(b), 2))

-----------------------------------------------------------------------------
(***************************************************************************)
(* Solana.  A list is decoded into its items as they are encoded.          *)
(***************************************************************************)
SolanaSize(len) == BigEndian(len)

SolanaEncodeValue(b) ==
  CASE b = <<>> -> <<128>>
    [] Len(b) = 1 /\ b[1] < 128 -> b
    [] Len(b) > 55 ->
         <<183 + Len(SolanaSize(Len(b)))>> \o SolanaSize(Len(b)) \o b
    [] OTHER -> <<128 + Len(b)>> \o b

SolanaListHeader(len) ==
  IF len <= 55 THEN <<192 + len>>
  ELSE <<247 + Len(SolanaSize(len))>> \o SolanaSize(len)

\* begin_list with the values appended to it; the length is put in front when
\* the last one is there.
SolanaEncodeList(items) ==
  SolanaListHeader(Len(FlattenSeq(items))) \o FlattenSeq(items)

\* Bytes from the least significant on, up to one that leaves the sign clear.
SolanaUint(v) ==
  LET bytes[w \in Nat] ==
        IF w < 128 THEN <<w>> ELSE Append(bytes[w \div 256], w % 256)
  IN  bytes[v]

SolanaEncodeUint(n) == SolanaEncodeValue(SolanaUint(n))

SolanaEncodeU8(n) == SolanaEncodeValue(<<n>>)

SolanaEncodeStrings(ss) ==
  SolanaEncodeList([i \in DOMAIN ss |-> SolanaEncodeValue(ss[i])])

SolanaEncodeRequest(m) ==
  SolanaEncodeList(
    <<SolanaEncodeValue(m.from), SolanaEncodeValue(m.to),
      SolanaEncodeUint(m.sn), SolanaEncodeU8(m.type), SolanaEncodeValue(m.data),
      SolanaEncodeStrings(m.protocols)>>)

SolanaEncodeResult(m) ==
  SolanaEncodeList(
    <<SolanaEncodeUint(m.sn), SolanaEncodeU8(m.code),
      SolanaEncodeValue(m.data)>>)

SolanaEncodeMessage(m) ==
  LET payload ==
        IF m.kind = 1 THEN SolanaEncodeRequest(m) ELSE SolanaEncodeResult(m)
  IN  SolanaEncodeList(<<SolanaEncodeU8(m.kind), SolanaEncodeValue(payload)>>)

-----------------------------------------------------------------------------
\* (mutant: 56 bytes are refused where 55 should be)
SolanaShortestStrict(len) == len > 56
\* The long form is refused for a payload that the short one can hold.
SolanaShortest(len) == len > 55

\* Lengths of the header and of the payload of the first item in b.
SolanaPayloadInfo(b) ==
  LET x == b[1]
      info(h, v) == IF h + v <= Len(b) THEN [header |-> h, value |-> v]
                    ELSE Failed
      long(n) == IF Len(b) > n /\ b[2] # 0
                      /\ SolanaShortest(Number(Slice(b, 2, n)))
                 THEN info(1 + n, Number(Slice(b, 2, n))) ELSE Failed
  IN  CASE b = <<>> -> Failed
        [] b # <<>> /\ x < 128 -> info(0, 1)
        [] b # <<>> /\ x \in 128..183 -> info(1, x - 128)
        [] b # <<>> /\ x \in 184..191 -> long(x - 183)
        [] b # <<>> /\ x \in 192..247 -> info(1, x - 192)
        [] b # <<>> /\ x \in 248..255 ->
             IF x = 248 /\ b[2] = 0 THEN info(1, 1) ELSE long(x - 247)

SolanaIsList(b) == b # <<>> /\ b[1] >= 192 /\ ~(b[1] = 248 /\ b[2] = 0)

\* The items of a payload, up to one without a valid header.
SolanaItemsIn(payload) ==
  LET items[rest \in Seq(Byte)] ==
        LET i == SolanaPayloadInfo(rest)
        IN  IF i = Failed THEN <<>>
            ELSE <<Slice(rest, 1, i.header + i.value)>>
                   \o items[SubSeq(rest, i.header + i.value + 1, Len(rest))]
  IN  items[payload]

SolanaPayload(b, info) ==
  IF ~SolanaIsList(b) \/ info = Failed THEN <<>>
  ELSE Slice(b, info.header + 1, info.value)

SolanaItems(b) == SolanaItemsIn(SolanaPayload(b, SolanaPayloadInfo(b)))

SolanaDecodeValue(b) ==
  LET short == Slice(b, 2, b[1] - 128)
      n == b[1] - 183
  IN  CASE b[1] < 128 -> <<b[1]>>
        [] b[1] \in 128..183 ->
             IF b[1] = 129 /\ short[1] < 128 THEN Failed ELSE short
        [] b[1] \in 184..191 -> Slice(b, 2 + n, Number(Slice(b, 2, n)))
        [] OTHER -> Failed

SolanaDecodeNumber(b) == Number(SolanaDecodeValue(b))

SolanaNames(l) == [i \in DOMAIN l |-> SolanaDecodeValue(l[i])]

SolanaRequest(l) ==
  IF Len(l) # 6 THEN Failed
  ELSE Request(SolanaDecodeValue(l[1]), SolanaDecodeValue(l[2]),
               SolanaDecodeNumber(l[3]), SolanaDecodeNumber(l[4]),
               SolanaDecodeValue(l[5]), SolanaNames(SolanaItems(l[6])))

SolanaDecodeRequest(b) == SolanaRequest(SolanaItems(b))

\* The message of a result may be missing.
SolanaResult(l) ==
  IF Len(l) < 2 THEN Failed
  ELSE Result(SolanaDecodeNumber(l[1]), SolanaDecodeNumber(l[2]),
              IF Len(l) < 3 THEN <<>> ELSE SolanaDecodeValue(l[3]))

SolanaDecodeResult(b) == SolanaResult(SolanaItems(b))

SolanaMessage(l) ==
  CASE Len(l) # 2 -> Failed
    [] Len(l) = 2 /\ SolanaDecodeNumber(l[1]) = 1 ->
         SolanaDecodeRequest(SolanaDecodeValue(l[2]))
    [] Len(l) = 2 /\ SolanaDecodeNumber(l[1]) = 2 ->
         SolanaDecodeResult(SolanaDecodeValue(l[2]))
    [] OTHER -> Failed

SolanaDecodeMessage(b) == SolanaMessage(SolanaItems(b))

=============================================================================
