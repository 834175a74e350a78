---------------------------- MODULE MCXcallPorts ----------------------------
(***************************************************************************)
(* The call services of five ports, and the fees of the sixth, for TLC.    *)
(* Each behaviour is one of a single port: port never changes, and what    *)
(* that port does not have stays None.  Corresponding variables of the     *)
(* ports have one name here.  What the ports are to guarantee is stated    *)
(* once for all of them.                                                   *)
(***************************************************************************)
EXTENDS XcallProperties, Integers

CONSTANTS
  Ports,                       \* the ports to check
  Here, Wire, Outgoing, FeeValues, MsgValues, CoinValues,
  SolanaWire, SolanaOutgoing,  \* Solana has no default connections
  MaxHeard, MaxDepth, MaxTickets, MaxConnSn, DAY_IN_LEDGERS,
  Handler, MaxChanges, MaxSends, Xcall,
  k1, k2, b

VARIABLES
  port,
  sn, reqId, rollbacks, proxyReqs, pendingReqs, pendingResponses,
  successfulResponses, defaultConnection, replyState, callReply, frames,
  protocolFee, connFee, balance,
  heard, admitted, executed, calls, rolledBack, sent

VARIABLES
  enabledFor, admittedFor, paid, quoted,    \* Soroban
  rollbackTickets, handed,                  \* Sui
  connSn, receipts, books, income,          \* Solana
  feeHandler, messageFee, responseFee, executing, replied, quote, refused,
  changes, sends                            \* CosmWasm

sorobanVars == <<enabledFor, admittedFor, paid, quoted>>
suiVars == <<rollbackTickets, handed>>
solanaVars == <<connSn, receipts, books, income>>
cwVars == <<feeHandler, messageFee, responseFee, executing, replied, quote,
            refused, changes, sends>>
replyVars == <<replyState, callReply, frames>>
callVars == <<sn, reqId, rollbacks, proxyReqs, pendingReqs, pendingResponses,
              successfulResponses, replyVars, connFee, heard, admitted,
              executed, calls, rolledBack, sent>>
portVars == <<port, callVars, defaultConnection, protocolFee, balance,
              sorobanVars, suiVars, solanaVars, cwVars>>

Evm == INSTANCE EvmXcallProofs WITH lastSn <- sn, lastReqId <- reqId,
                              defaultConnections <- defaultConnection
Java == INSTANCE JavaXcallProofs
Soroban == INSTANCE SorobanXcallProofs WITH proxyRequests <- proxyReqs,
                                      pendingRequests <- pendingReqs
Sui == INSTANCE SuiXcallProofs WITH connections <- defaultConnection,
                              tickets <- frames
Solana == INSTANCE SolanaXcallProofs WITH proxyRequests <- proxyReqs,
            pendingRequests <- pendingReqs, networkFee <- connFee,
            finished <- executed,
            Wire <- SolanaWire, Outgoing <- SolanaOutgoing
Cw == INSTANCE CwFees WITH defaultConnections <- defaultConnection,
        Nid <- Chain, Sources <- {<<>>, <<k1, k2>>}, MaxFee <- 1

\* What the proofs for the ports assume of the constants.
ASSUME EvmConstants == Evm!EvmAssumption
ASSUME JavaConstants == Java!JavaAssumption
ASSUME SorobanConstants == Soroban!SorobanAssumption
ASSUME SuiConstants == Sui!SuiAssumption
ASSUME SolanaConstants == Solana!SolanaAssumption

NoSoroban ==
  enabledFor = None /\ admittedFor = None /\ paid = None /\ quoted = None
NoSui == rollbackTickets = None /\ handed = None
NoSolana == connSn = None /\ receipts = None /\ books = None /\ income = None
NoCw ==
  /\ feeHandler = None /\ messageFee = None /\ responseFee = None
  /\ executing = None /\ replied = None /\ quote = None /\ refused = None
  /\ changes = None /\ sends = None
NoReplies == replyState = None /\ callReply = None /\ frames = None
NoCalls ==
  /\ NoReplies
  /\ sn = None /\ reqId = None /\ rollbacks = None /\ proxyReqs = None
  /\ pendingReqs = None /\ pendingResponses = None
  /\ successfulResponses = None /\ connFee = None /\ heard = None
  /\ admitted = None /\ executed = None /\ calls = None
  /\ rolledBack = None /\ sent = None

PortsInit ==
  /\ port \in Ports
  /\ \/ port = "evm" /\ Evm!EvmInit /\ NoSoroban /\ NoSui /\ NoSolana /\ NoCw
     \/ port = "java" /\ Java!JavaInit /\ NoSoroban /\ NoSui /\ NoSolana /\ NoCw
     \/ /\ port = "soroban" /\ Soroban!SorobanInit
        /\ NoSui /\ NoSolana /\ NoCw /\ NoReplies /\ balance = None
     \/ /\ port = "sui" /\ Sui!SuiInit
        /\ NoSoroban /\ NoSolana /\ NoCw /\ balance = None
     \/ /\ port = "solana" /\ Solana!SolanaInit
        /\ NoSoroban /\ NoSui /\ NoCw /\ NoReplies /\ defaultConnection = None
     \/ /\ port = "cosmwasm" /\ Cw!Init
        /\ NoSoroban /\ NoSui /\ NoSolana /\ NoCalls

EvmStep ==
  /\ port = "evm" /\ Evm!EvmNext
  /\ UNCHANGED <<port, sorobanVars, suiVars, solanaVars, cwVars>>
JavaStep ==
  /\ port = "java" /\ Java!JavaNext
  /\ UNCHANGED <<port, sorobanVars, suiVars, solanaVars, cwVars>>
SorobanStep ==
  /\ port = "soroban" /\ Soroban!SorobanNext
  /\ UNCHANGED <<port, suiVars, solanaVars, cwVars, replyVars, balance>>
SuiStep ==
  /\ port = "sui" /\ Sui!SuiNext
  /\ UNCHANGED <<port, sorobanVars, solanaVars, cwVars, balance>>
SolanaStep ==
  /\ port = "solana" /\ Solana!SolanaNext
  /\ UNCHANGED <<port, sorobanVars, suiVars, cwVars, replyVars,
                 defaultConnection>>
CwStep ==
  /\ port = "cosmwasm" /\ Cw!Next
  /\ UNCHANGED <<port, sorobanVars, suiVars, solanaVars, callVars>>

PortsNext ==
  EvmStep \/ JavaStep \/ SorobanStep \/ SuiStep \/ SolanaStep \/ CwStep

PortsSpec == PortsInit /\ [][PortsNext]_portVars

-----------------------------------------------------------------------------
(***************************************************************************)
(* Instances                                                               *)
(***************************************************************************)
Lists == {<<>>, <<k1>>, <<k2>>, <<k1, k2>>, <<k1, k1>>}

Req(s, type, protocols) ==
  [from |-> b, sn |-> s, type |-> type, protocols |-> protocols]
Res(s, code, reply) == CSResult([sn |-> s, code |-> code, reply |-> reply])

\* Settling: a call over two connections or the default one, answered with
\* every code, with a reply and without.
SettleOutgoing == {<<TwoWay, <<k1, k2>>, <<k1, k2>>>>, <<TwoWay, <<>>, <<>>>>}
SettleWire ==
  {Res(1, Success, None), Res(1, Failure, None),
   Res(1, Success, Req(1, OneWay, <<k1>>))}
\* On Solana a second call, and results that are brought as answers to the other.
SolanaSettleOutgoing ==
  {<<TwoWay, <<k1, k2>>, <<k1>>>>, <<TwoWay, <<k1, k1>>, <<k1>>>>}
SolanaSettleWire == SettleWire \cup {Res(2, Success, None)}

\* Admitting: requests of all types, over two protocols, the same one twice,
\* one, or the default one.
NamedWire ==
  {CSRequest(Req(1, OneWay, <<k1, k2>>)), CSRequest(Req(1, OneWay, <<k1, k1>>)),
   CSRequest(Req(1, Persisted, <<k1>>))}
AdmitWire == NamedWire \cup {CSRequest(Req(2, TwoWay, <<>>))}
SolanaAdmitWire == NamedWire \cup {CSRequest(Req(2, TwoWay, <<k2>>))}

DeliverWire == SettleWire \cup AdmitWire
SolanaDeliverWire == SolanaSettleWire \cup SolanaAdmitWire

\* A behaviour settles one call, on Solana two, or admits requests, not both;
\* three deliveries are enough to admit and to settle two calls.  Solana sends
\* over k1 and k2 to b only, whose answers have numbers in order; the others
\* admit with k1 as the default connection, set or not yet.
DeliverFocus ==
  LET requests == {h \in heard : h[1] \in AdmitWire \cup SolanaAdmitWire}
      routes == IF port = "solana" THEN DOMAIN connFee ELSE {}
      defaults == IF port = "solana" THEN {}
                  ELSE {defaultConnection[n] : n \in DOMAIN defaultConnection}
  IN  \/ /\ sn <= 1 \/ (port = "solana" /\ Cardinality(heard) <= 3)
         /\ reqId <= 1 /\ requests = {}
         /\ port = "solana" =>
              \A k \in Conn : <<b, 2>> \in receipts[k] => <<b, 1>> \in receipts[k]
         /\ routes \subseteq {k1, k2} \X {b}
      \/ /\ sn = 0 /\ heard = requests /\ Cardinality(heard) <= 3
         /\ routes = {} /\ defaults \subseteq {None, k1}

\* Executing: requests over one connection, dapps that send back.
ExecuteOutgoing == {<<OneWay, <<k1>>, <<k1>>>>, <<TwoWay, <<k1>>, <<k1>>>>}
ExecuteWire ==
  {CSRequest(Req(s, TwoWay, <<k1>>)) : s \in Sns}
    \cup {CSRequest(Req(1, OneWay, <<k1>>))}
SolanaAnswerWire ==
  {CSRequest(Req(1, TwoWay, <<k1, k2>>)), CSRequest(Req(2, TwoWay, <<k1>>))}
SolanaAnswerOutgoing == {<<OneWay, <<k1>>, <<k1>>>>}

\* On Sui and Solana two requests, under way together, are enough.
ExecuteFocus == port \in {"sui", "solana"} => reqId <= 2

\* Fees: messages over the default connection or a list, replies.
FeeOutgoing ==
  {<<type, l, l>> : type \in {OneWay, TwoWay}, l \in {<<>>, <<k1, k2>>}}
FeeWire == {CSRequest(Req(1, TwoWay, <<k1>>))}
SolanaFeeOutgoing == {<<type, <<k1, k2>>, <<k1>>>> : type \in {OneWay, TwoWay}}

\* What comes in does not bear on the fees of Soroban, where one call is enough;
\* on Solana a call or an answer, and fees to b only.
FeesFocus ==
  /\ port = "soroban" => heard = {} /\ sn <= 1
  /\ port = "solana" => /\ DOMAIN connFee \subseteq {k1, k2} \X {b}
                        /\ sn = 0 \/ (sn = 1 /\ heard = {})

-----------------------------------------------------------------------------
(***************************************************************************)
(* Properties                                                              *)
(***************************************************************************)
\* Type invariant, of every port.
TypeOK ==
  CASE port = "evm" -> Evm!TypeOK
    [] port = "java" -> Java!TypeOK
    [] port = "soroban" -> Soroban!TypeOK
    [] port = "sui" -> Sui!TypeOK
    [] port = "solana" -> Solana!TypeOK
    [] port = "cosmwasm" -> Cw!TypeOK

\* A request becomes executable only after every one of its protocols delivered
\* that very request (handleRequest of every port), whatever outsiders deliver,
\* in whatever order, and although entries expire (Soroban).  A reply becomes
\* executable only after every connection of the call delivered the result that
\* carries it (Java, Soroban, Sui); on EVM after all answered the call, in any
\* way, and one of them with this reply; on Solana after all delivered this
\* result, or others under the same number besides the call's, as answers to one
\* call with these protocols, which need not be the call in the result.
RequestsEndorsed ==
  CASE port = "evm" -> Evm!RequestsEndorsed
    [] port = "java" -> Java!RequestsEndorsed
    [] port = "soroban" -> Soroban!RequestsEndorsed
    [] port = "sui" -> Sui!RequestsEndorsed
    [] port = "solana" -> Solana!RequestsEndorsed

\* A call succeeds or is rolled back only after all its connections answered:
\* with one and the same result (Java, Soroban, Sui); on EVM, where handleResult
\* adds up answers by sequence number, in any way, and one connection of the call
\* with the code that it settles on; on Solana with one result, handed in as an
\* answer to this call although the number in it is never compared.
SettlementEndorsed ==
  CASE port = "evm" -> Evm!ResultsVouched
    [] port = "java" -> Java!SettlementEndorsed
    [] port = "soroban" -> Soroban!SettlementEndorsed
    [] port = "sui" -> Sui!SettlementEndorsed
    [] port = "solana" -> Solana!SettlementEndorsed

\* No call both succeeds and is rolled back, and a settled call leaves no
\* rollback behind (handleResult, executeRollback), although a success and a
\* failure may both gather all their deliveries.
SettledOnce ==
  CASE port = "evm" -> Evm!SettledOnce
    [] port = "java" -> Java!SettledOnce
    [] port = "soroban" -> Soroban!SettledOnce
    [] port = "sui" -> Sui!SettledOnce
    [] port = "solana" -> Solana!SettledOnce

\* On Soroban, where requests and rollbacks live in temporary storage, users
\* have three days to act however late the last delivery came: that long an
\* admitted request and an enabled rollback stay executable (storage.rs).
TimeToAct == port = "soroban" => Soroban!TimeToAct

\* However executions nest, a request runs once, and a two-way request that
\* ran is answered with the outcome it had, over its protocols, or is still
\* under way (executeCall of EVM, Java, Sui).  On Solana, where requests may
\* also be rolled back by force, each is finished once, no later delivery takes
\* its account, and every answer or call that a connection sends has a number
\* of its own (get_next_conn_sn).
ExecutedOnceAndAnswered ==
  CASE port = "evm" -> Evm!ExecutedOnceAndAnswered
    [] port = "java" -> Java!ExecutedOnceAndAnswered
    [] port = "sui" -> Sui!ExecutedOnceAndAnswered
    [] port = "solana" -> Solana!AdmittedFinishedOnce /\ Solana!ConnSnUnique
    [] OTHER -> TRUE

\* The slots for the reply of the call being executed are empty when none is,
\* and a reply travels with one result only, although executions that nest or
\* fail share the slots (replyState, callReply; on Sui the state alone).
RepliesStayInside ==
  CASE port = "evm" -> Evm!RepliesStayInside
    [] port = "java" -> Java!RepliesStayInside
    [] port = "sui" -> Sui!ReplyStateCleared
    [] OTHER -> TRUE

\* The fee that getFee quotes is enough for sendCall to go through at any
\* moment, for a list of connections and for the default one (EVM, Java; on
\* Sui outside of executions); on CosmWasm a send is refused only if it pays
\* less than get_fee asks at that moment.
QuoteSuffices ==
  CASE port = "evm" -> Evm!QuoteSuffices
    [] port = "java" -> Java!QuoteSuffices
    [] port = "sui" -> Sui!QuoteSufficesOutside
    [] port = "cosmwasm" -> Cw!RefusedOnlyIfShort
    [] OTHER -> TRUE

\* What a caller is charged is what get_fee quoted at that moment, and no
\* money is created or lost on its way to fee handler and connections
\* (Soroban, Solana); the CosmWasm call service, which has no way to pay out,
\* keeps no money of callers.
ChargedAsQuoted ==
  CASE port = "soroban" -> Soroban!ChargedAsQuoted
    [] port = "solana" -> Solana!ChargedAsQuoted
    [] port = "cosmwasm" -> Cw!NothingKept
    [] OTHER -> TRUE

=============================================================================
