------------------------------ MODULE RlpBytes ------------------------------
(***************************************************************************)
(* Bytes and messages that the RLP codecs of the ports share.  A message   *)
(* is a request or a result as the call services exchange them:            *)
(*   [kind, from, to, sn, type, data, protocols]  (a request, kind 1)      *)
(*   [kind, sn, code, data]                       (a result, kind 2)       *)
(* where names and data are sequences of bytes.  Names are ASCII, and a    *)
(* network address is taken as the one name it is written as.              *)
(***************************************************************************)
EXTENDS Naturals, Sequences, SequencesExt

CONSTANT Failed   \* the outcome of a decoder that panics, aborts or errs

Byte == 0..255

\* The shortest bytes of a number, most significant first; none for zero.
BigEndian(n) ==
  LET bytes[m \in Nat] ==
        IF m = 0 THEN <<>> ELSE Append(bytes[m \div 256], m % 256)
  IN  bytes[n]

Number(b) == FoldLeft(LAMBDA n, x : 256 * n + x, 0, b)

\* n bytes from position i on; reading past the end stops TLC, so a run that
\* passes shows that no decoder does on what an encoder wrote.
Slice(b, i, n) == SubSeq(b, i, i + n - 1)

\* A list whose first item, of a decoder, is in front of the rest.
Joined(item, rest) ==
  IF item = Failed \/ rest = Failed THEN Failed ELSE <<item.val>> \o rest

Request(from, to, sn, type, data, protocols) ==
  [kind |-> 1, from |-> from, to |-> to, sn |-> sn, type |-> type,
   data |-> data, protocols |-> protocols]

Result(sn, code, data) ==
  [kind |-> 2, sn |-> sn, code |-> code, data |-> data]

=============================================================================
