-------------------------- MODULE XcallPortsProofs --------------------------
(***************************************************************************)
(* What the runs check of the call services of five ports holds for all    *)
(* networks, connections, lists and bounds.  Every behaviour is one of a   *)
(* single port, and the modules of the ports prove what their steps keep:  *)
(* here the parts are put together.                                        *)
(***************************************************************************)
EXTENDS MCXcallPorts, TLAPS

\* The ports whose call services are modelled in full.
CallPorts == {"evm", "java", "soroban", "sui", "solana"}

\* The invariant of the port at hand.
PortsInv ==
  /\ port \in Ports
  /\ port = "evm" => Evm!EvmInv
  /\ port = "java" => Java!JavaInv
  /\ port = "soroban" => Soroban!SorobanInv
  /\ port = "sui" => Sui!SuiInv
  /\ port = "solana" => Solana!SolanaInv

-----------------------------------------------------------------------------
\* What module EvmXcallProofs proves, of its instance here.
LEMMA EvmPort ==
  /\ Evm!EvmInit => Evm!EvmInv
  /\ Evm!EvmInv /\ [Evm!EvmNext]_Evm!vars => Evm!EvmInv'
  /\ Evm!EvmInv =>
       /\ Evm!TypeOK
       /\ Evm!RequestsEndorsed
       /\ Evm!ResultsVouched
       /\ Evm!SettledOnce
       /\ Evm!ExecutedOnceAndAnswered
       /\ Evm!RepliesStayInside
<1>1. /\ Protocols \subseteq Seq(Conn) /\ MaxSn \in Nat /\ MaxReqId \in Nat
      /\ None \notin Conn /\ None \notin Evm!Request
      /\ None \notin Evm!Rollback /\ None \notin Evm!Call
  BY XcallAssumption, Zenon
     DEF Request, Evm!Request, Rollback, Evm!Rollback, Call, Evm!Call, Sns,
         Evm!Sns, MsgType, Evm!MsgType, OneWay, Evm!OneWay, TwoWay, Evm!TwoWay,
         Persisted, Evm!Persisted
<1> QED
  BY <1>1, EvmConstants, Evm!EvmInvInit, Evm!EvmInvStep, Evm!EvmInvGives,
     Zenon

\* A step of a behaviour of this port is one of its call service.
LEMMA EvmPortStep ==
  port = "evm" /\ [PortsNext]_portVars => [Evm!EvmNext]_Evm!vars
BY Zenon
   DEF PortsNext, EvmStep, JavaStep, SorobanStep, SuiStep, SolanaStep,
       CwStep, portVars, callVars, replyVars, solanaVars, suiVars, sorobanVars,
       Evm!sendVars, Evm!reqVars, Evm!replyVars, Evm!feeVars, Evm!pendVars,
       Evm!doneVars, Evm!vars

-----------------------------------------------------------------------------
\* What module JavaXcallProofs proves, of its instance here.
LEMMA JavaPort ==
  /\ Java!JavaInit => Java!JavaInv
  /\ Java!JavaInv /\ [Java!JavaNext]_Java!vars => Java!JavaInv'
  /\ Java!JavaInv =>
       /\ Java!TypeOK
       /\ Java!RequestsEndorsed
       /\ Java!SettlementEndorsed
       /\ Java!SettledOnce
       /\ Java!ExecutedOnceAndAnswered
       /\ Java!RepliesStayInside
<1>1. /\ Protocols \subseteq Seq(Conn) /\ MaxSn \in Nat /\ MaxReqId \in Nat
      /\ None \notin Conn /\ None \notin Java!Request
      /\ None \notin Java!Rollback /\ None \notin Java!Call
  BY XcallAssumption, Zenon
     DEF Request, Java!Request, Rollback, Java!Rollback, Call, Java!Call,
         Sns, Java!Sns, MsgType, Java!MsgType, OneWay, Java!OneWay, TwoWay,
         Java!TwoWay, Persisted, Java!Persisted
<1> QED
  BY <1>1, JavaConstants, Java!JavaInvInit, Java!JavaInvStep,
     Java!JavaInvGives, Zenon

\* A step of a behaviour of this port is one of its call service.
LEMMA JavaPortStep ==
  port = "java" /\ [PortsNext]_portVars => [Java!JavaNext]_Java!vars
BY Zenon
   DEF PortsNext, EvmStep, JavaStep, SorobanStep, SuiStep, SolanaStep,
       CwStep, portVars, callVars, replyVars, solanaVars, suiVars, sorobanVars,
       Java!sendVars, Java!reqVars, Java!replyVars, Java!feeVars, Java!pendVars,
       Java!doneVars, Java!vars

-----------------------------------------------------------------------------
\* What module SorobanXcallProofs proves, of its instance here.
LEMMA SorobanPort ==
  /\ Soroban!SorobanInit => Soroban!SorobanInv
  /\ Soroban!SorobanInv /\ [Soroban!SorobanNext]_Soroban!vars => Soroban!SorobanInv'
  /\ Soroban!SorobanInv =>
       /\ Soroban!TypeOK
       /\ Soroban!RequestsEndorsed
       /\ Soroban!SettlementEndorsed
       /\ Soroban!SettledOnce
       /\ Soroban!TimeToAct
<1>1. /\ Protocols \subseteq Seq(Conn) /\ MaxSn \in Nat /\ MaxReqId \in Nat
      /\ None \notin Conn /\ None \notin Soroban!Request
      /\ None \notin Soroban!Rollback /\ None \notin Soroban!Call
  BY XcallAssumption, Zenon
     DEF Request, Soroban!Request, Rollback, Soroban!Rollback, Call,
         Soroban!Call, Sns, Soroban!Sns, MsgType, Soroban!MsgType, OneWay,
         Soroban!OneWay, TwoWay, Soroban!TwoWay, Persisted, Soroban!Persisted
<1> QED
  BY <1>1, SorobanConstants, Soroban!SorobanInvInit,
     Soroban!SorobanInvStep, Soroban!SorobanInvGives, Zenon

\* A step of a behaviour of this port is one of its call service.
LEMMA SorobanPortStep ==
  port = "soroban" /\ [PortsNext]_portVars => [Soroban!SorobanNext]_Soroban!vars
BY Zenon
   DEF PortsNext, EvmStep, JavaStep, SorobanStep, SuiStep, SolanaStep,
       CwStep, portVars, callVars, replyVars, solanaVars, suiVars, sorobanVars,
       Soroban!sendVars, Soroban!reqVars, Soroban!feeVars, Soroban!pendVars,
       Soroban!doneVars, Soroban!rollVars, Soroban!vars

-----------------------------------------------------------------------------
\* What module SuiXcallProofs proves, of its instance here.
LEMMA SuiPort ==
  /\ Sui!SuiInit => Sui!SuiInv
  /\ Sui!SuiInv /\ [Sui!SuiNext]_Sui!vars => Sui!SuiInv'
  /\ Sui!SuiInv =>
       /\ Sui!TypeOK
       /\ Sui!RequestsEndorsed
       /\ Sui!SettlementEndorsed
       /\ Sui!SettledOnce
       /\ Sui!ExecutedOnceAndAnswered
       /\ Sui!ReplyStateCleared
<1>1. /\ Protocols \subseteq Seq(Conn) /\ MaxSn \in Nat /\ MaxReqId \in Nat
      /\ None \notin Conn /\ None \notin Sui!Request
      /\ None \notin Sui!Rollback /\ None \notin Sui!Call
  BY XcallAssumption, Zenon
     DEF Request, Sui!Request, Rollback, Sui!Rollback, Call, Sui!Call, Sns,
         Sui!Sns, MsgType, Sui!MsgType, OneWay, Sui!OneWay, TwoWay, Sui!TwoWay,
         Persisted, Sui!Persisted
<1> QED
  BY <1>1, SuiConstants, Sui!SuiInvInit, Sui!SuiInvStep, Sui!SuiInvGives,
     Zenon

\* A step of a behaviour of this port is one of its call service.
LEMMA SuiPortStep ==
  port = "sui" /\ [PortsNext]_portVars => [Sui!SuiNext]_Sui!vars
BY Zenon
   DEF PortsNext, EvmStep, JavaStep, SorobanStep, SuiStep, SolanaStep,
       CwStep, portVars, callVars, replyVars, solanaVars, suiVars, sorobanVars,
       Sui!sendVars, Sui!reqVars, Sui!replyVars, Sui!ticketVars, Sui!feeVars,
       Sui!pendVars, Sui!doneVars, Sui!vars

-----------------------------------------------------------------------------
\* What module SolanaXcallProofs proves, of its instance here.
LEMMA SolanaPort ==
  /\ Solana!SolanaInit => Solana!SolanaInv
  /\ Solana!SolanaInv /\ [Solana!SolanaNext]_Solana!vars => Solana!SolanaInv'
  /\ Solana!SolanaInv =>
       /\ Solana!TypeOK
       /\ Solana!RequestsEndorsed
       /\ Solana!SettlementEndorsed
       /\ Solana!SettledOnce
       /\ Solana!AdmittedFinishedOnce
       /\ Solana!ConnSnUnique
<1>1. /\ Protocols \subseteq Seq(Conn) /\ MaxSn \in Nat /\ MaxReqId \in Nat
      /\ None \notin Conn /\ None \notin Solana!Request
      /\ None \notin Solana!Rollback /\ None \notin Solana!Call
  BY XcallAssumption, Zenon
     DEF Request, Solana!Request, Rollback, Solana!Rollback, Call,
         Solana!Call, Sns, Solana!Sns, MsgType, Solana!MsgType, OneWay,
         Solana!OneWay, TwoWay, Solana!TwoWay, Persisted, Solana!Persisted
<1> QED
  BY <1>1, SolanaConstants, Solana!SolanaInvInit, Solana!SolanaInvStep,
     Solana!SolanaInvGives, Zenon

\* A step of a behaviour of this port is one of its call service.
LEMMA SolanaPortStep ==
  port = "solana" /\ [PortsNext]_portVars => [Solana!SolanaNext]_Solana!vars
BY Zenon
   DEF PortsNext, EvmStep, JavaStep, SorobanStep, SuiStep, SolanaStep,
       CwStep, portVars, callVars, replyVars, solanaVars, suiVars, sorobanVars,
       Solana!sendVars, Solana!reqVars, Solana!pendVars, Solana!doneVars,
       Solana!outVars, Solana!feeVars, Solana!vars

-----------------------------------------------------------------------------
LEMMA PortsInvInit ==
  PortsInit => PortsInv
BY EvmPort, JavaPort, SorobanPort, SuiPort, SolanaPort, Zenon
   DEF PortsInit, PortsInv

LEMMA PortsInvStep ==
  PortsInv /\ [PortsNext]_portVars => PortsInv'
<1>1. [PortsNext]_portVars => port' = port
  BY Zenon
     DEF PortsNext, portVars, EvmStep, JavaStep, SorobanStep, SuiStep,
         SolanaStep, CwStep
<1> QED
  BY <1>1, EvmPort, JavaPort, SorobanPort, SuiPort, SolanaPort,
     EvmPortStep, JavaPortStep, SorobanPortStep, SuiPortStep, SolanaPortStep, Zenon
     DEF PortsInv

\* What the invariant gives, port by port.
LEMMA PortsInvGives ==
  ASSUME PortsInv
  PROVE  /\ TimeToAct /\ ExecutedOnceAndAnswered /\ RepliesStayInside
         /\ Ports \subseteq CallPorts =>
              TypeOK /\ RequestsEndorsed /\ SettlementEndorsed /\ SettledOnce
<1>1. CASE port = "evm"
  BY <1>1, EvmPort, Zenon
     DEF PortsInv, TypeOK, RequestsEndorsed, SettlementEndorsed,
         SettledOnce, TimeToAct, ExecutedOnceAndAnswered, RepliesStayInside
<1>2. CASE port = "java"
  BY <1>2, JavaPort, Zenon
     DEF PortsInv, TypeOK, RequestsEndorsed, SettlementEndorsed,
         SettledOnce, TimeToAct, ExecutedOnceAndAnswered, RepliesStayInside
<1>3. CASE port = "soroban"
  BY <1>3, SorobanPort, Zenon
     DEF PortsInv, TypeOK, RequestsEndorsed, SettlementEndorsed,
         SettledOnce, TimeToAct, ExecutedOnceAndAnswered, RepliesStayInside
<1>4. CASE port = "sui"
  BY <1>4, SuiPort, Zenon
     DEF PortsInv, TypeOK, RequestsEndorsed, SettlementEndorsed,
         SettledOnce, TimeToAct, ExecutedOnceAndAnswered, RepliesStayInside
<1>5. CASE port = "solana"
  BY <1>5, SolanaPort, Zenon
     DEF PortsInv, TypeOK, RequestsEndorsed, SettlementEndorsed,
         SettledOnce, TimeToAct, ExecutedOnceAndAnswered, RepliesStayInside
<1>6. CASE port \notin CallPorts
  BY <1>6, Zenon
     DEF PortsInv, CallPorts, TimeToAct, ExecutedOnceAndAnswered,
         RepliesStayInside
<1> QED
  BY <1>1, <1>2, <1>3, <1>4, <1>5, <1>6, Zenon DEF CallPorts

LEMMA PortsInvAlways ==
  PortsSpec => []PortsInv
BY PortsInvInit, PortsInvStep, PTL DEF PortsSpec

\* The storage of each of the five call services stays well formed, whatever
\* is delivered, executed and set (TypeOK of the ports).
THEOREM PortsWellTyped ==
  ASSUME Ports \subseteq CallPorts
  PROVE  PortsSpec => []TypeOK
<1>1. PortsInv => TypeOK
  BY PortsInvGives, Zenon
<1> QED
  BY <1>1, PortsInvAlways, PTL

\* On each of the five ports handleRequest makes a request executable only on
\* the word of every protocol in its list.  A reply needs the same result from all
\* connections of the call, except on EVM (all answered the call, one of them
\* with this reply) and on Solana (all handed it in as an answer to one call,
\* which may be another than the one in the result).
THEOREM PortsRequestsEndorsed ==
  ASSUME Ports \subseteq CallPorts
  PROVE  PortsSpec => []RequestsEndorsed
<1>1. PortsInv => RequestsEndorsed
  BY PortsInvGives, Zenon
<1> QED
  BY <1>1, PortsInvAlways, PTL

\* On each of the five ports handleResult settles a call only after all its
\* connections answered: with one and the same result, except on EVM (with
\* whatever codes, one of them the code that it settles on) and on Solana (with one
\* result handed in for this call, whatever call it names).
THEOREM PortsSettlementEndorsed ==
  ASSUME Ports \subseteq CallPorts
  PROVE  PortsSpec => []SettlementEndorsed
<1>1. PortsInv => SettlementEndorsed
  BY PortsInvGives, Zenon
<1> QED
  BY <1>1, PortsInvAlways, PTL

\* On each of the five ports a call is settled one way only, and what is settled
\* leaves no rollback behind (handleResult, executeRollback).
THEOREM PortsSettledOnce ==
  ASSUME Ports \subseteq CallPorts
  PROVE  PortsSpec => []SettledOnce
<1>1. PortsInv => SettledOnce
  BY PortsInvGives, Zenon
<1> QED
  BY <1>1, PortsInvAlways, PTL

\* Soroban leaves users their three days to execute what was admitted or to
\* roll back what failed (extend_temporary_request).
THEOREM PortsTimeToAct ==
  PortsSpec => []TimeToAct
<1>1. PortsInv => TimeToAct
  BY PortsInvGives, Zenon
<1> QED
  BY <1>1, PortsInvAlways, PTL

\* executeCall of EVM, Java and Sui runs a request once and answers it with the
\* outcome that it had; on Solana a request is finished once and no connection
\* uses a number twice.
THEOREM PortsExecutedOnceAndAnswered ==
  PortsSpec => []ExecutedOnceAndAnswered
<1>1. PortsInv => ExecutedOnceAndAnswered
  BY PortsInvGives, Zenon
<1> QED
  BY <1>1, PortsInvAlways, PTL

\* The slots for replies are empty outside of executions, and a reply leaves
\* with one result only (executeCall of EVM, Java and Sui).
THEOREM PortsRepliesStayInside ==
  PortsSpec => []RepliesStayInside
<1>1. PortsInv => RepliesStayInside
  BY PortsInvGives, Zenon
<1> QED
  BY <1>1, PortsInvAlways, PTL

=============================================================================
