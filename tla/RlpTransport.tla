---------------------------- MODULE RlpTransport ----------------------------
(***************************************************************************)
(* Messages between ports with RLP codecs of their own: one port encodes a *)
(* message, others decode it.  The other modules of this project pass      *)
(* messages as records; this one shows when that is what the codecs do.    *)
(***************************************************************************)
EXTENDS RlpEvm, RlpRust, RlpSui

CONSTANTS Message,   \* messages to send
          Receiver,  \* ports that receive
          None       \* nothing sent or read yet

VARIABLES msg,    \* the message under way
          wire,   \* its encoding
          got     \* [port, msg]: what a port read

vars == <<msg, wire, got>>

Port == {"evm", "soroban", "sui", "solana"}

Encode(p, m) ==
  CASE p = "evm" -> EvmEncodeMessage(m)
    [] p = "soroban" -> SorobanEncodeMessage(m)
    [] p = "sui" -> SuiEncodeMessage(m)
    [] p = "solana" -> SolanaEncodeMessage(m)

Decode(p, b) ==
  CASE p = "evm" -> EvmDecodeMessage(b)
    [] p = "soroban" -> SorobanDecodeMessage(b)
    [] p = "sui" -> SuiDecodeMessage(b)
    [] p = "solana" -> SolanaDecodeMessage(b)

Init == msg = None /\ wire = <<>> /\ got = None

Send(p, m) == msg = None /\ msg' = m /\ wire' = Encode(p, m) /\ got' = None

Receive(p) ==
  /\ msg # None
  /\ got' = [port |-> p, msg |-> Decode(p, wire)]
  /\ UNCHANGED <<msg, wire>>

Next ==
  \/ \E p \in Port, m \in Message : Send(p, m)
  \/ \E p \in Receiver : Receive(p)

Spec == Init /\ [][Next]_vars

-----------------------------------------------------------------------------
\* All ports write a message the same way (encode_u128 and its likes, the sign
\* byte, long and short forms), so connections may compare and hash encodings.
OneWireFormat == msg # None => \A p \in Port : wire = Encode(p, msg)

\* Length of the encodings in a list of names.
NamesLength(names) ==
  FoldLeft(LAMBDA n, s : n + Len(EvmEncodeBytes(s)), 0, names)

\* Some list in the encoding of message m has a payload of 55 bytes, the most
\* that the short form can hold: the list of protocols ...
FullProtocols(m) == m.kind = 1 /\ NamesLength(m.protocols) = 55
\* ... or the list of fields or the outermost list.
FullFields(m) ==
  LET cs == EvmToList(EvmEncodeMessage(m))
  IN  {Len(EvmEncodeMessage(m)), Len(EvmToBytes(cs[2]))} \cap {56} # {}

\* Every port reads every message of every port as it was sent, but for lists
\* that just fit the short form, and those it refuses: Soroban fails on any of
\* them (decode_length), Sui on the inner one (decode_list), and no decoder
\* makes up another message.
ReadUnlessFull ==
  got # None /\ got.msg # msg =>
    /\ got.msg = Failed
    /\ \/ got.port \in {"soroban", "sui"} /\ FullProtocols(msg)
       \/ got.port = "soroban" /\ FullFields(msg)

-----------------------------------------------------------------------------
(***************************************************************************)
(* Messages for TLC: names and data of lengths around those where the form *)
(* of an encoding changes, in all places of a message, and numbers with    *)
(* and without the sign byte.                                              *)
(***************************************************************************)
\* n times the letter a.
Name(n) == [i \in 1..n |-> 97]

\* n bytes, the first of which may look like a header.
Bytes(n, first) == [i \in 1..n |-> IF i = 1 THEN first ELSE 200]

Sns == {1, 127, 128, 255, 256, 32767, 32768}
Datas == {Bytes(n, x) : n \in 0..58 \cup {254, 255, 256}, x \in {0, 127, 247}}
Protocols ==
  {<<>>, <<Name(4)>>} \cup {<<Name(n)>> : n \in 52..56}
    \cup {<<Name(13), Name(n)>> : n \in 39..42}

Requests ==
  {Request(Name(7), Name(n), sn, type, data, protocols) :
     n \in {4, 42}, sn \in {1, 128}, type \in 0..2,
     data \in {Bytes(0, 0), Bytes(1, 0), Bytes(1, 247), Bytes(56, 127)},
     protocols \in Protocols}
  \cup
  {Request(Name(7), Name(9), sn, 1, data, <<Name(4)>>) :
     sn \in Sns, data \in Datas}

Results == {Result(sn, code, data) : sn \in Sns, code \in 0..1, data \in Datas}

Messages == Requests \cup Results

=============================================================================
