---------------------------- MODULE ClusterRelay ----------------------------
(***************************************************************************)
(* What surrounds a cluster connection on network Here, the same for every *)
(* port: connections on other networks that emit numbered messages,        *)
(* validators that sign what they see emitted, and a relayer that hands in *)
(* any message with any signatures it can get.  Keys in Faulty sign        *)
(* everything.                                                             *)
(*                                                                         *)
(* A network or a message is one symbol that is not a digit (a message is  *)
(* an RLP list, whose first byte is at least 0xc0).  A signature is the key *)
(* recovered from it, or None if nothing can be recovered.  Who is admin   *)
(* and relayer is left out.                                                *)
(***************************************************************************)
EXTENDS Integers, Sequences, FiniteSets, Functions

CONSTANTS Nets,         \* other networks
          Here,         \* the network of the connection
          Msgs,         \* messages
          Key,          \* public keys
          Faulty,       \* keys that sign everything
          None,
          Base,         \* of the digits that numbers are written in
          Updates,      \* <<keys, threshold>> that the admin may install
          Thresholds,   \* thresholds that the admin may set
          FeeValues,    \* <<message fee, response fee>> that may be set
          MsgValues,    \* values attached to messages sent
          MaxConnSn,    \* bound: messages emitted by a network
          MaxSigs       \* bound: signatures with a message

VARIABLES emitted,      \* messages that other networks emitted for Here
          delivered,    \* history: messages passed on to xcall, in order
          outbox        \* messages that this connection emitted

relayVars == <<emitted, delivered, outbox>>

ConnSns == 1..MaxConnSn
Packet == [src : Nets, sn : ConnSns, msg : Msgs]

ASSUME ClusterAssumption ==
  /\ IsFiniteSet(Key) /\ Faulty \subseteq Key /\ None \notin Key
  /\ Base \in Nat \ {0, 1} /\ MaxConnSn \in Nat /\ MaxSigs \in Nat
  /\ Updates \subseteq Seq(Key) \X Nat /\ Thresholds \subseteq Nat
  /\ FeeValues \subseteq Nat \X Nat /\ MsgValues \subseteq Nat

RelayInit == emitted = {} /\ delivered = <<>> /\ outbox = {}

\* A number written out, most significant digit first.
Digits[n \in Nat] ==
  IF n < Base THEN <<n>> ELSE Append(Digits[n \div Base], n % Base)

\* sendMessage of the cluster connection on src, to here, under its next number.
Emit(src, m) ==
  LET n == Cardinality({e \in emitted : e.src = src}) + 1
  IN  /\ n \in ConnSns
      /\ emitted' = emitted \cup {[src |-> src, sn |-> n, msg |-> m]}

\* The sign of the number that xcall gives with a message: 1 for a request that
\* wants a response, 0 for one that does not, -1 for a response.
SnSigns == {-1, 0, 1}

SigLists == UNION {[1..n -> Key \cup {None}] : n \in 0..MaxSigs}

\* Fewer of the validators are faulty than the threshold asks for.
Trusted(validators, threshold) ==
  Cardinality(Faulty \cap validators) < threshold

\* A message goes to xcall.
Deliver(p, trusted) ==
  delivered' = Append(delivered, [packet |-> p, trusted |-> trusted])

-----------------------------------------------------------------------------
\* xcall gets a message of one number from one network once, however often
\* and with whatever signatures it is handed in.
DeliveredOnce ==
  \A i, j \in DOMAIN delivered :
    (/\ delivered[i].packet.src = delivered[j].packet.src
     /\ delivered[i].packet.sn = delivered[j].packet.sn) => i = j

\* xcall gets nothing that was not emitted under that number by that network,
\* as long as fewer validators are faulty than the threshold asks for:
\* whatever the relayer repeats or combines, and although the validators and
\* the threshold change between signing and delivery.
DeliveredAuthentic ==
  \A i \in DOMAIN delivered :
    delivered[i].trusted => delivered[i].packet \in emitted

=============================================================================
