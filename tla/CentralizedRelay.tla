-------------------------- MODULE CentralizedRelay --------------------------
(***************************************************************************)
(* Centralized connections of four ports that talk to each other: a        *)
(* contract on every network, of the EVM port (CentralizedConnection.sol), *)
(* of the ICON port (CentralizedConnection.java), of the Stellar port      *)
(* (centralized-connection) or of the CosmWasm port                        *)
(* (cw-centralized-connection), and the relayer, their admin, that carries *)
(* the Message events of one network to recvMessage on another.  It may    *)
(* carry them in any order and, after it was restarted, again.             *)
(*                                                                         *)
(* Payloads are numbered in the order in which xcall sends them.  A        *)
(* require or error undoes the whole call and is a guard that is false.    *)
(* revertMessage only calls xcall and changes nothing here.                *)
(***************************************************************************)
EXTENDS Integers, Sequences, Functions

CONSTANTS EvmNets, JavaNets, SorobanNets, CwNets,  \* networks by port
          FeePairs,    \* <<message fee, response fee>> that may be set
          Values,      \* values attached to messages
          PricedNets,  \* networks that fees are set for
          MaxMsgs      \* bound: messages sent

Net == EvmNets \cup JavaNets \cup SorobanNets \cup CwNets

Event == [src : Net, to : Net, sn : 1..MaxMsgs, msg : 1..MaxMsgs]

VARIABLES connSn, receiptsOf, feesOf, balanceOf,  \* of the contract of a network
          msgs,         \* messages that xcall sent so far
          events,       \* Message events, of all networks
          passed        \* history: what was passed to xcall, in order

centralVars == <<connSn, receiptsOf, feesOf, balanceOf, msgs, events, passed>>

ASSUME RelayAssumption ==
  /\ FeePairs \subseteq Nat \X Nat /\ Values \subseteq Nat
  /\ MaxMsgs \in Nat

CentralInit ==
  /\ connSn = [n \in Net |-> 0] /\ receiptsOf = [n \in Net |-> {}]
  /\ feesOf = [n \in Net |-> [to \in Net |-> <<0, 0>>]]
  /\ balanceOf = [n \in Net |-> 0]
  /\ msgs = 0 /\ events = {} /\ passed = <<>>

\* The Message event of the next message of xcall.
EmitMessage(n, to, sn) ==
  /\ msgs < MaxMsgs
  /\ msgs' = msgs + 1
  /\ events' = events \cup {[src |-> n, to |-> to, sn |-> sn, msg |-> msgs + 1]}

\* Value goes to the contract of n with a message.
Pay(n, value) == balanceOf' = [balanceOf EXCEPT ![n] = @ + value]

-----------------------------------------------------------------------------
(***************************************************************************)
(* EVM.  sign is that of the number of the xcall message: positive for a   *)
(* call that wants a response, zero for another, negative for a response.  *)
(***************************************************************************)
EvmGetFee(n, to, response) ==
  feesOf[n][to][1] + IF response THEN feesOf[n][to][2] ELSE 0

\* (mutant: the number is not advanced)
EvmNextSnSame(n) == IF connSn[n] = 0 THEN 1 ELSE connSn[n]
EvmNextSn(n) == connSn[n] + 1

EvmSendMessage(n, to, sign, value) ==
  /\ n \in EvmNets
  /\ value >= CASE sign > 0 -> EvmGetFee(n, to, TRUE)
                [] sign = 0 -> EvmGetFee(n, to, FALSE)
                [] OTHER -> 0
  /\ connSn' = [connSn EXCEPT ![n] = EvmNextSn(n)]
  /\ EmitMessage(n, to, EvmNextSn(n))
  /\ Pay(n, value)
  /\ UNCHANGED <<receiptsOf, feesOf, passed>>

EvmRecvMessage(n, src, sn) ==
  /\ n \in EvmNets
  /\ <<src, sn>> \notin receiptsOf[n]
  /\ receiptsOf' = [receiptsOf EXCEPT ![n] = @ \cup {<<src, sn>>}]

EvmSetFee(n, to, fee) ==
  /\ n \in EvmNets
  /\ feesOf' = [feesOf EXCEPT ![n][to] = fee]
  /\ UNCHANGED <<connSn, receiptsOf, balanceOf, msgs, events, passed>>

EvmClaimFees(n) ==
  /\ n \in EvmNets
  /\ balanceOf' = [balanceOf EXCEPT ![n] = 0]
  /\ UNCHANGED <<connSn, receiptsOf, feesOf, msgs, events, passed>>

-----------------------------------------------------------------------------
(***************************************************************************)
(* ICON                                                                    *)
(***************************************************************************)
JavaGetFee(n, to, response) ==
  IF response THEN feesOf[n][to][1] + feesOf[n][to][2] ELSE feesOf[n][to][1]

\* The number is advanced before the value is looked at.
JavaSendMessage(n, to, sign, value) ==
  LET fee == CASE sign > 0 -> JavaGetFee(n, to, TRUE)
               [] sign = 0 -> JavaGetFee(n, to, FALSE)
               [] OTHER -> 0
  IN  /\ n \in JavaNets
      /\ connSn' = [connSn EXCEPT ![n] = @ + 1]
      /\ value >= fee
      /\ EmitMessage(n, to, connSn[n] + 1)
      /\ Pay(n, value)
      /\ UNCHANGED <<receiptsOf, feesOf, passed>>

\* (mutant: the receipt is not looked at)
JavaNoReceiptWanted(n, src, sn) == TRUE
JavaNoReceipt(n, src, sn) == <<src, sn>> \notin receiptsOf[n]

JavaRecvMessage(n, src, sn) ==
  /\ n \in JavaNets
  /\ JavaNoReceipt(n, src, sn)
  /\ receiptsOf' = [receiptsOf EXCEPT ![n] = @ \cup {<<src, sn>>}]

JavaSetFee(n, to, fee) ==
  /\ n \in JavaNets
  /\ feesOf' = [feesOf EXCEPT ![n][to] = fee]
  /\ UNCHANGED <<connSn, receiptsOf, balanceOf, msgs, events, passed>>

JavaClaimFees(n) ==
  /\ n \in JavaNets
  /\ balanceOf' = [balanceOf EXCEPT ![n] = 0]
  /\ UNCHANGED <<connSn, receiptsOf, feesOf, msgs, events, passed>>

-----------------------------------------------------------------------------
(***************************************************************************)
(* Stellar: the fee is taken from the account that started the call.       *)
(***************************************************************************)
SorobanGetNetworkFee(n, to, response) ==
  feesOf[n][to][1] + IF response THEN feesOf[n][to][2] ELSE 0

SorobanSendMessage(n, to, sign) ==
  /\ n \in SorobanNets
  /\ connSn' = [connSn EXCEPT ![n] = @ + 1]
  /\ EmitMessage(n, to, connSn[n] + 1)
  /\ Pay(n, IF sign >= 0 THEN SorobanGetNetworkFee(n, to, sign > 0) ELSE 0)
  /\ UNCHANGED <<receiptsOf, feesOf, passed>>

\* The key of a receipt.
SorobanReceipt(src, sn) == <<src, sn>>

\* (mutant: a receipt of the same number of any network counts)
SorobanNoReceiptOfNumber(n, src, sn) == \A r \in receiptsOf[n] : r[2] # sn
SorobanNoReceipt(n, src, sn) == SorobanReceipt(src, sn) \notin receiptsOf[n]

SorobanRecvMessage(n, src, sn) ==
  /\ n \in SorobanNets
  /\ SorobanNoReceipt(n, src, sn)
  /\ receiptsOf' = [receiptsOf EXCEPT ![n] = @ \cup {SorobanReceipt(src, sn)}]

SorobanSetFee(n, to, fee) ==
  /\ n \in SorobanNets
  /\ feesOf' = [feesOf EXCEPT ![n][to] = fee]
  /\ UNCHANGED <<connSn, receiptsOf, balanceOf, msgs, events, passed>>

SorobanClaimFees(n) ==
  /\ n \in SorobanNets
  /\ balanceOf' = [balanceOf EXCEPT ![n] = 0]
  /\ UNCHANGED <<connSn, receiptsOf, feesOf, msgs, events, passed>>

-----------------------------------------------------------------------------
(***************************************************************************)
(* CosmWasm: xcall attaches the fee that it has asked for.                 *)
(***************************************************************************)
CwGetFee(n, to, response) ==
  feesOf[n][to][1] + IF response THEN feesOf[n][to][2] ELSE 0

CwSendMessage(n, to, sign, value) ==
  /\ n \in CwNets
  /\ connSn' = [connSn EXCEPT ![n] = @ + 1]
  /\ value >= IF sign >= 0 THEN CwGetFee(n, to, sign > 0) ELSE 0
  /\ EmitMessage(n, to, connSn[n] + 1)
  /\ Pay(n, value)
  /\ UNCHANGED <<receiptsOf, feesOf, passed>>

CwRecvMessage(n, src, sn) ==
  /\ n \in CwNets
  /\ <<src, sn>> \notin receiptsOf[n]
  /\ receiptsOf' = [receiptsOf EXCEPT ![n] = @ \cup {<<src, sn>>}]

CwSetFee(n, to, fee) ==
  /\ n \in CwNets
  /\ feesOf' = [feesOf EXCEPT ![n][to] = fee]
  /\ UNCHANGED <<connSn, receiptsOf, balanceOf, msgs, events, passed>>

CwClaimFees(n) ==
  /\ n \in CwNets
  /\ balanceOf' = [balanceOf EXCEPT ![n] = 0]
  /\ UNCHANGED <<connSn, receiptsOf, feesOf, msgs, events, passed>>

-----------------------------------------------------------------------------
\* The relayer submits an event on the network that it is for; xcall gets it.
Relay(e) ==
  /\ e \in events
  /\ \/ EvmRecvMessage(e.to, e.src, e.sn)
     \/ JavaRecvMessage(e.to, e.src, e.sn)
     \/ SorobanRecvMessage(e.to, e.src, e.sn)
     \/ CwRecvMessage(e.to, e.src, e.sn)
  /\ passed' = Append(passed, e)
  /\ UNCHANGED <<connSn, feesOf, balanceOf, msgs, events>>

CentralNext ==
  \/ \E n \in Net : \E to \in Net \ {n}, sign \in {-1, 0, 1} :
       \/ \E value \in Values : EvmSendMessage(n, to, sign, value)
       \/ \E value \in Values : JavaSendMessage(n, to, sign, value)
       \/ \E value \in Values : CwSendMessage(n, to, sign, value)
       \/ SorobanSendMessage(n, to, sign)
  \/ \E n \in Net, to \in PricedNets, fee \in FeePairs :
       \/ EvmSetFee(n, to, fee)
       \/ JavaSetFee(n, to, fee)
       \/ SorobanSetFee(n, to, fee)
       \/ CwSetFee(n, to, fee)
  \/ \E n \in Net : \/ EvmClaimFees(n) \/ JavaClaimFees(n)
                    \/ SorobanClaimFees(n) \/ CwClaimFees(n)
  \/ \E e \in Event : Relay(e)

CentralSpec == CentralInit /\ [][CentralNext]_centralVars

\* The relayer goes on as long as there is an event to carry.
CentralFairSpec == CentralSpec /\ WF_centralVars(\E e \in Event : Relay(e))

-----------------------------------------------------------------------------
Channel == INSTANCE OnceChannel
             WITH Message <- Event, sent <- events, received <- passed

\* Type invariant.
CentralTypeOK ==
  /\ msgs \in 0..MaxMsgs
  /\ connSn \in [Net -> 0..msgs]
  /\ receiptsOf \in [Net -> SUBSET (Net \X (1..MaxMsgs))]
  /\ feesOf \in [Net -> [Net -> FeePairs \cup {<<0, 0>>}]]
  /\ balanceOf \in [Net -> Nat]
  /\ events \subseteq Event
  /\ passed \in Seq(Event)

\* Why nothing is passed on twice: the number of an event is one that its
\* contract has used, it is the only one of that number and network, and
\* there is a receipt for everything that was passed on.
ChannelInv ==
  /\ \A e \in events : e.sn <= connSn[e.src] /\ e.msg <= msgs
  /\ \A e, f \in events : e.src = f.src /\ e.sn = f.sn => e = f
  /\ \A i \in DOMAIN passed :
       /\ passed[i] \in events
       /\ <<passed[i].src, passed[i].sn>> \in receiptsOf[passed[i].to]

\* Connections of all ports and their relayer implement a channel that passes
\* on what was sent and nothing twice (recvMessage, connSn): numbers never
\* repeat and receipts of different networks never collide.
ImplementsChannel == Channel!Spec

\* No message is shut out by the receipt of another: each is passed on in the
\* end.
AllReceived ==
  \A m \in 1..MaxMsgs :
    msgs >= m ~> \E i \in DOMAIN passed : passed[i].msg = m

=============================================================================
