-------------------------- MODULE ConnectionProofs --------------------------
(***************************************************************************)
(* Connections, and what counts signatures.                                *)
(*                                                                         *)
(* The centralized connections of the EVM, ICON, Stellar and CosmWasm      *)
(* ports and their relayer implement a channel that passes every message   *)
(* on at most once and nothing that was not sent, for any number of        *)
(* networks of each port, any fees and any number of messages.  The        *)
(* inductive invariant is CentralTypeOK with ChannelInv: a receipt stands  *)
(* for a message only because no two events of a network have the same     *)
(* number, and this in turn because numbers in events never exceed connSn. *)
(*                                                                         *)
(* The adapters to Wormhole and LayerZero keep every response, and that of *)
(* Wormhole passes every delivery on once, for all networks, chains,       *)
(* prices and deliveries.                                                  *)
(*                                                                         *)
(* The cluster connection of the Sui port delivers only what was emitted,  *)
(* once, and its threshold can always be met, for all networks, keys,      *)
(* faulty keys, signature lists and bounds.                                *)
(*                                                                         *)
(* The relay aggregator of ICON acknowledges a packet once and with enough *)
(* signatures, for any relayers and packets.                               *)
(***************************************************************************)
EXTENDS MCConnections, SuiCluster, RelayAggregator, FiniteSetTheorems,
        FunctionTheorems, TLAPS

CentralInv == CentralTypeOK /\ ChannelInv

\* The steps that send, of whatever port: they take the next number of their
\* contract and leave receipts and deliveries alone.
Sends(n, to) ==
  /\ n \in Net /\ to \in Net
  /\ connSn' = [connSn EXCEPT ![n] = connSn[n] + 1]
  /\ EmitMessage(n, to, connSn[n] + 1)
  /\ \E value \in Nat : Pay(n, value)
  /\ UNCHANGED <<receiptsOf, feesOf, passed>>

\* The steps that receive.
Receives(e) ==
  /\ e \in events
  /\ <<e.src, e.sn>> \notin receiptsOf[e.to]
  /\ receiptsOf' = [receiptsOf EXCEPT ![e.to] = @ \cup {<<e.src, e.sn>>}]
  /\ passed' = Append(passed, e)
  /\ UNCHANGED <<connSn, feesOf, balanceOf, msgs, events>>

\* The steps that only touch fees and money.
Administers ==
  /\ feesOf' \in [Net -> [Net -> FeePairs \cup {<<0, 0>>}]]
  /\ balanceOf' \in [Net -> Nat]
  /\ UNCHANGED <<connSn, receiptsOf, msgs, events, passed>>

\* A fee that was set is a pair of amounts.
LEMMA FeesAreNat ==
  ASSUME CentralTypeOK, NEW n \in Net, NEW to \in Net
  PROVE  /\ EvmGetFee(n, to, TRUE) \in Nat /\ EvmGetFee(n, to, FALSE) \in Nat
         /\ SorobanGetNetworkFee(n, to, TRUE) \in Nat
         /\ SorobanGetNetworkFee(n, to, FALSE) \in Nat
<1>1. feesOf[n][to] \in Nat \X Nat
  BY RelayAssumption DEF CentralTypeOK
<1>2. feesOf[n][to][1] \in Nat /\ feesOf[n][to][2] \in Nat
  BY <1>1, Zenon
<1> QED
  BY <1>2 DEF EvmGetFee, SorobanGetNetworkFee

\* Every step of the ports is one of the three kinds, or changes nothing.
LEMMA StepKinds ==
  ASSUME CentralTypeOK, [CentralNext]_centralVars
  PROVE  \/ \E n, to \in Net : Sends(n, to)
         \/ \E e \in Event : Receives(e)
         \/ Administers
         \/ UNCHANGED centralVars
<1>1. CASE \E n \in Net : \E to \in Net \ {n}, sign \in {-1, 0, 1} :
             \/ \E value \in Values : EvmSendMessage(n, to, sign, value)
             \/ \E value \in Values : JavaSendMessage(n, to, sign, value)
             \/ \E value \in Values : CwSendMessage(n, to, sign, value)
             \/ SorobanSendMessage(n, to, sign)
  <2>1. PICK n \in Net, to \in Net, sign \in {-1, 0, 1} :
          \/ \E value \in Values : EvmSendMessage(n, to, sign, value)
          \/ \E value \in Values : JavaSendMessage(n, to, sign, value)
          \/ \E value \in Values : CwSendMessage(n, to, sign, value)
          \/ SorobanSendMessage(n, to, sign)
    BY <1>1, Zenon
  <2>2. CASE \E value \in Values : EvmSendMessage(n, to, sign, value)
    BY <2>2, RelayAssumption, Zenon DEF EvmSendMessage, EvmNextSn, Sends
  <2>3. CASE \E value \in Values : JavaSendMessage(n, to, sign, value)
    BY <2>3, RelayAssumption, Zenon DEF JavaSendMessage, Sends
  <2>4. CASE SorobanSendMessage(n, to, sign)
    <3>1. (IF sign >= 0 THEN SorobanGetNetworkFee(n, to, sign > 0) ELSE 0)
            \in Nat
      <4>1. SorobanGetNetworkFee(n, to, sign > 0)
              \in {SorobanGetNetworkFee(n, to, TRUE),
                   SorobanGetNetworkFee(n, to, FALSE)}
        BY Zenon DEF SorobanGetNetworkFee
      <4> QED
        BY <4>1, FeesAreNat, Zenon
    <3> QED
      BY <2>4, <3>1, Zenon DEF SorobanSendMessage, Sends
  <2>5. CASE \E value \in Values : CwSendMessage(n, to, sign, value)
    BY <2>5, RelayAssumption, Zenon DEF CwSendMessage, Sends
  <2> QED
    BY <2>1, <2>2, <2>3, <2>4, <2>5, Zenon
<1>2. CASE \E n \in Net, to \in PricedNets, fee \in FeePairs :
             \/ EvmSetFee(n, to, fee)
             \/ JavaSetFee(n, to, fee)
             \/ SorobanSetFee(n, to, fee)
             \/ CwSetFee(n, to, fee)
  <2>1. PICK n \in Net, to \in PricedNets, fee \in FeePairs :
          /\ feesOf' = [feesOf EXCEPT ![n][to] = fee]
          /\ UNCHANGED <<connSn, receiptsOf, balanceOf, msgs, events, passed>>
    BY <1>2, Zenon DEF EvmSetFee, JavaSetFee, SorobanSetFee, CwSetFee
  <2>2. [feesOf[n] EXCEPT ![to] = fee] \in [Net -> FeePairs \cup {<<0, 0>>}]
    BY Zenon DEF CentralTypeOK
  <2>3. feesOf' \in [Net -> [Net -> FeePairs \cup {<<0, 0>>}]]
    BY <2>1, <2>2, Zenon DEF CentralTypeOK
  <2> QED
    BY <2>1, <2>3, Zenon DEF Administers, CentralTypeOK
<1>3. CASE \E n \in Net :
             \/ EvmClaimFees(n) \/ JavaClaimFees(n)
             \/ SorobanClaimFees(n) \/ CwClaimFees(n)
  <2>1. PICK n \in Net :
          /\ balanceOf' = [balanceOf EXCEPT ![n] = 0]
          /\ UNCHANGED <<connSn, receiptsOf, feesOf, msgs, events, passed>>
    BY <1>3, Zenon
       DEF EvmClaimFees, JavaClaimFees, SorobanClaimFees, CwClaimFees
  <2>2. balanceOf' \in [Net -> Nat]
    BY <2>1, Zenon DEF CentralTypeOK
  <2> QED
    BY <2>1, <2>2, Zenon DEF Administers, CentralTypeOK
<1>4. CASE \E e \in Event : Relay(e)
  <2>1. PICK e \in Event : Relay(e)
    BY <1>4, Zenon
  <2>2. /\ <<e.src, e.sn>> \notin receiptsOf[e.to]
        /\ receiptsOf' = [receiptsOf EXCEPT ![e.to] = @ \cup {<<e.src, e.sn>>}]
    BY <2>1, Zenon DEF Relay, EvmRecvMessage, JavaRecvMessage, JavaNoReceipt,
                SorobanRecvMessage, SorobanNoReceipt, SorobanReceipt,
                CwRecvMessage
  <2>3. Receives(e)
    BY <2>1, <2>2, Zenon DEF Relay, Receives
  <2> QED
    BY <2>3, Zenon
<1> QED
  BY <1>1, <1>2, <1>3, <1>4, Zenon DEF CentralNext

-----------------------------------------------------------------------------
LEMMA InitInv == CentralInit => CentralInv
BY RelayAssumption DEF CentralInit, CentralInv, CentralTypeOK, ChannelInv

\* Sending keeps the invariant: the number and the message of the new event
\* are larger than those of all others.
LEMMA SendsInv ==
  ASSUME CentralInv, NEW n \in Net, NEW to \in Net, Sends(n, to)
  PROVE  CentralInv'
<1> DEFINE new == [src |-> n, to |-> to, sn |-> connSn[n] + 1, msg |-> msgs + 1]
<1> USE RelayAssumption
<1>1. /\ msgs < MaxMsgs /\ msgs' = msgs + 1 /\ events' = events \cup {new}
      /\ UNCHANGED <<receiptsOf, feesOf, passed>>
  BY Zenon DEF Sends, EmitMessage
<1>2. /\ msgs \in 0..MaxMsgs /\ MaxMsgs \in Nat /\ connSn[n] \in 0..msgs
      /\ connSn' = [connSn EXCEPT ![n] = connSn[n] + 1]
  BY Zenon DEF CentralInv, CentralTypeOK, Sends
<1>3. connSn' \in [Net -> 0..msgs'] /\ msgs' \in 0..MaxMsgs
  BY <1>1, <1>2 DEF CentralInv, CentralTypeOK
<1>4. new \in Event
  BY <1>1, <1>2 DEF Event
<1>5. balanceOf' \in [Net -> Nat]
  <2>1. PICK value \in Nat : balanceOf' = [balanceOf EXCEPT ![n] = @ + value]
    BY Zenon DEF Sends, Pay
  <2> QED
    BY <2>1 DEF CentralInv, CentralTypeOK
<1>6. CentralTypeOK'
  BY <1>1, <1>3, <1>4, <1>5, Zenon DEF CentralInv, CentralTypeOK
<1>7. \A e \in events : /\ e \in Event /\ e.sn <= connSn[e.src] /\ e.msg <= msgs
                        /\ e.src \in Net /\ e.sn \in Nat /\ e.msg \in Nat
  BY DEF CentralInv, CentralTypeOK, ChannelInv, Event
<1>8. \A k \in Net : connSn[k] \in Nat /\ connSn[k] <= connSn'[k]
  BY <1>2 DEF CentralInv, CentralTypeOK
<1>9. new.sn <= connSn'[new.src] /\ new.msg <= msgs'
  BY <1>1, <1>2 DEF CentralInv, CentralTypeOK
<1>10. \A e \in events' : e.sn <= connSn'[e.src] /\ e.msg <= msgs'
  <2> SUFFICES ASSUME NEW e \in events
               PROVE  e.sn <= connSn'[e.src] /\ e.msg <= msgs'
    BY <1>1, <1>9, Zenon
  <2>1. /\ e.sn \in Nat /\ e.msg \in Nat /\ e.src \in Net
        /\ e.sn <= connSn[e.src] /\ e.msg <= msgs
    BY <1>7, Zenon
  <2>2. connSn[e.src] \in Nat /\ connSn[e.src] <= connSn'[e.src]
        /\ connSn'[e.src] \in Nat
    BY <1>3, <1>8, <1>1, <1>2, <2>1
  <2> QED
    BY <1>1, <1>2, <2>1, <2>2
<1>11. \A e \in events : ~(e.src = n /\ e.sn = connSn[n] + 1)
  BY <1>2, <1>7
<1>12. \A e, f \in events' : e.src = f.src /\ e.sn = f.sn => e = f
  <2>1. \A e, f \in events : e.src = f.src /\ e.sn = f.sn => e = f
    BY Zenon DEF CentralInv, ChannelInv
  <2> QED
    BY <1>1, <1>11, <2>1
<1>13. \A i \in DOMAIN passed' :
         /\ passed'[i] \in events'
         /\ <<passed'[i].src, passed'[i].sn>>
              \in receiptsOf'[passed'[i].to]
  BY <1>1, Zenon DEF CentralInv, ChannelInv
<1> QED
  BY <1>6, <1>10, <1>12, <1>13, Zenon DEF CentralInv, ChannelInv

\* Receiving keeps the invariant: the receipt comes with the delivery.
LEMMA ReceivesInv ==
  ASSUME CentralInv, NEW e \in Event, Receives(e)
  PROVE  CentralInv'
<1>1. /\ e \in events
      /\ receiptsOf' = [receiptsOf EXCEPT ![e.to] = @ \cup {<<e.src, e.sn>>}]
      /\ passed' = Append(passed, e)
      /\ UNCHANGED <<connSn, feesOf, balanceOf, msgs, events>>
  BY Zenon DEF Receives
<1>2. e.src \in Net /\ e.to \in Net /\ e.sn \in 1..MaxMsgs
  BY Zenon DEF Event
<1>3. receiptsOf' \in [Net -> SUBSET (Net \X (1..MaxMsgs))]
  BY <1>1, <1>2 DEF CentralInv, CentralTypeOK
<1>4. CentralTypeOK'
  BY <1>1, <1>3 DEF CentralInv, CentralTypeOK
<1>5. /\ passed \in Seq(Event)
      /\ \A i \in DOMAIN passed :
           /\ passed[i] \in events /\ passed[i].to \in Net
           /\ <<passed[i].src, passed[i].sn>> \in receiptsOf[passed[i].to]
  BY Zenon DEF CentralInv, CentralTypeOK, ChannelInv, Event
<1>6. \A k \in Net : receiptsOf[k] \subseteq receiptsOf'[k]
  BY <1>1, Zenon DEF CentralInv, CentralTypeOK
<1>7. <<e.src, e.sn>> \in receiptsOf'[e.to]
  BY <1>1, <1>2, Zenon DEF CentralInv, CentralTypeOK
<1>8. \A i \in DOMAIN passed' :
        /\ passed'[i] \in events'
        /\ <<passed'[i].src, passed'[i].sn>>
             \in receiptsOf'[passed'[i].to]
  <2> SUFFICES ASSUME NEW i \in DOMAIN passed'
               PROVE  /\ passed'[i] \in events'
                      /\ <<passed'[i].src, passed'[i].sn>>
                           \in receiptsOf'[passed'[i].to]
    BY Zenon
  <2>1. \/ i \in DOMAIN passed /\ passed'[i] = passed[i]
        \/ passed'[i] = e
    BY <1>1, <1>5
  <2> QED
    BY <1>1, <1>5, <1>6, <1>7, <2>1
<1> QED
  BY <1>1, <1>4, <1>8, Zenon DEF CentralInv, ChannelInv

LEMMA NextInv == CentralInv /\ [CentralNext]_centralVars => CentralInv'
<1> SUFFICES ASSUME CentralInv, [CentralNext]_centralVars PROVE CentralInv'
  BY Zenon
<1>1. CASE \E n, to \in Net : Sends(n, to)
  BY <1>1, SendsInv, Zenon
<1>2. CASE \E e \in Event : Receives(e)
  BY <1>2, ReceivesInv, Zenon
<1>3. CASE Administers
  BY <1>3, Zenon DEF Administers, CentralInv, CentralTypeOK, ChannelInv
<1>4. CASE UNCHANGED centralVars
  BY <1>4, Zenon DEF centralVars, CentralInv, CentralTypeOK, ChannelInv
<1> QED
  BY <1>1, <1>2, <1>3, <1>4, StepKinds, Zenon DEF CentralInv

\* Numbers of events stay below connSn, no two events of a network share one,
\* and whatever was passed on has its receipt, in every state (sendMessage,
\* recvMessage).
THEOREM RelayInvariant == CentralSpec => [](CentralTypeOK /\ ChannelInv)
<1>1. CentralSpec => []CentralInv
  BY InitInv, NextInv, PTL DEF CentralSpec
<1>2. CentralInv => CentralTypeOK /\ ChannelInv
  BY Zenon DEF CentralInv
<1> QED
  BY <1>1, <1>2, PTL

-----------------------------------------------------------------------------
LEMMA InitImplements == CentralInit => Channel!Init
BY Zenon DEF CentralInit, Channel!Init

\* A step sends a message that is new to the channel, receives one that was
\* not received, or does nothing to it.
LEMMA StepImplements ==
  CentralInv /\ [CentralNext]_centralVars => [Channel!Next]_(Channel!vars)
<1> SUFFICES ASSUME CentralInv, [CentralNext]_centralVars
             PROVE  Channel!Next \/ UNCHANGED <<events, passed>>
  BY Zenon DEF Channel!vars
<1>1. ASSUME NEW n \in Net, NEW to \in Net, Sends(n, to)
      PROVE  Channel!Next
  <2> DEFINE new == [src |-> n, to |-> to, sn |-> connSn[n] + 1,
                     msg |-> msgs + 1]
  <2>1. /\ msgs < MaxMsgs /\ msgs \in 0..MaxMsgs /\ MaxMsgs \in Nat
        /\ connSn[n] \in 0..msgs
        /\ events' = events \cup {new} /\ passed' = passed
    BY <1>1, RelayAssumption, Zenon
       DEF CentralInv, CentralTypeOK, Sends, EmitMessage
  <2>2. new \in Event
    BY <2>1 DEF Event
  <2>3. new \notin events
    BY <2>1 DEF CentralInv, ChannelInv
  <2>4. Channel!Send(new)
    BY <2>1, <2>3, Zenon DEF Channel!Send
  <2> QED
    BY <2>2, <2>4, Zenon DEF Channel!Next
<1>2. ASSUME NEW e \in Event, Receives(e)
      PROVE  Channel!Next
  <2>1. e \notin Range(passed)
    BY <1>2, Zenon DEF Receives, CentralInv, ChannelInv, Range
  <2>2. Channel!Receive(e)
    BY <1>2, <2>1, Zenon DEF Channel!Receive, Receives, Range, Channel!Range
  <2> QED
    BY <2>2, Zenon DEF Channel!Next
<1>3. Administers \/ UNCHANGED centralVars => UNCHANGED <<events, passed>>
  BY Zenon DEF Administers, centralVars
<1> QED
  BY <1>1, <1>2, <1>3, StepKinds DEF CentralInv

\* Connections of four ports and a relayer that reorders and repeats
\* implement a channel that passes on nothing twice and nothing that was not
\* sent (recvMessage, connSn).
THEOREM RelayImplementsChannel == CentralSpec => ImplementsChannel
<1>1. CentralSpec => []CentralInv
  BY InitInv, NextInv, PTL DEF CentralSpec
<1> QED
  BY <1>1, InitImplements, StepImplements, PTL
     DEF CentralSpec, ImplementsChannel, Channel!Spec

-----------------------------------------------------------------------------
(***************************************************************************)
(* Responses.  A response is on hold under its own number, and it is not   *)
(* handed over yet, or sent, or on hold.                                   *)
(***************************************************************************)
OnHold(r) == r[2] \in DOMAIN pendingResponses

KeptInv ==
  /\ paid \in [Response -> Nat]
  /\ \A s \in DOMAIN pendingResponses :
       pendingResponses[s] \in Response /\ pendingResponses[s][2] = s
  /\ \A r \in Response :
       \/ r \notin handed /\ paid[r] = 0 /\ ~OnHold(r)
       \/ r \in handed /\ paid[r] = 1 /\ ~OnHold(r)
       \/ r \in handed /\ paid[r] = 0 /\ OnHold(r)

\* What the adapters do with responses: hold one, send one, trigger one.
HoldStep(r) ==
  /\ r \notin handed
  /\ handed' = handed \cup {r}
  /\ pendingResponses' =
       [s \in DOMAIN pendingResponses \cup {r[2]} |->
          IF s = r[2] THEN r ELSE pendingResponses[s]]
  /\ UNCHANGED paid

SendStep(r) ==
  /\ r \notin handed
  /\ handed' = handed \cup {r}
  /\ paid' = [paid EXCEPT ![r] = @ + 1]
  /\ UNCHANGED pendingResponses

TriggerStep(s) ==
  /\ s \in DOMAIN pendingResponses
  /\ pendingResponses' =
       [t \in DOMAIN pendingResponses \ {s} |-> pendingResponses[t]]
  /\ paid' = [paid EXCEPT ![pendingResponses[s]] = @ + 1]
  /\ UNCHANGED handed

ResponseStep ==
  \/ UNCHANGED Wormhole!responseVars
  \/ \E r \in Response : HoldStep(r) \/ SendStep(r)
  \/ \E s \in DOMAIN pendingResponses : TriggerStep(s)

\* The empty table of responses on hold.
LEMMA InitKept ==
  ASSUME Wormhole!BridgeInit
  PROVE  KeptInv
<1>1. DOMAIN pendingResponses = {}
  BY DEF Wormhole!BridgeInit
<1> QED
  BY <1>1, Zenon DEF Wormhole!BridgeInit, KeptInv, OnHold

\* A number is that of one response: the table of the others does not change.
LEMMA StepKeeps ==
  ASSUME Wormhole!DistinctNumbers, KeptInv, ResponseStep
  PROVE  KeptInv'
<1>1. CASE UNCHANGED Wormhole!responseVars
  BY <1>1, Zenon DEF KeptInv, OnHold, Wormhole!responseVars
<1>2. ASSUME NEW r \in Response, HoldStep(r)
      PROVE  KeptInv'
  <2>1. DOMAIN pendingResponses' = DOMAIN pendingResponses \cup {r[2]}
    BY <1>2, Zenon DEF HoldStep
  <2>2. \A s \in DOMAIN pendingResponses' :
          pendingResponses'[s] = IF s = r[2] THEN r ELSE pendingResponses[s]
    BY <1>2, Zenon DEF HoldStep
  <2>3. \A q \in Response : q # r => OnHold(q)' = OnHold(q)
    BY <2>1 DEF Wormhole!DistinctNumbers, OnHold
  <2>4. OnHold(r)' /\ r \notin handed /\ r \in handed'
    BY <1>2, <2>1, Zenon DEF OnHold, HoldStep
  <2>5. paid[r] = 0 /\ paid' = paid
    BY <1>2, <2>4, Zenon DEF KeptInv, HoldStep
  <2>6. \A q \in Response : q # r => (q \in handed' <=> q \in handed)
    BY <1>2, Zenon DEF HoldStep
  <2> QED
    BY <2>1, <2>2, <2>3, <2>4, <2>5, <2>6 DEF KeptInv
<1>3. ASSUME NEW r \in Response, SendStep(r)
      PROVE  KeptInv'
  <2>1. \A q \in Response : OnHold(q)' = OnHold(q)
    BY <1>3, Zenon DEF OnHold, SendStep
  <2>2. /\ paid' \in [Response -> Nat]
        /\ paid'[r] = paid[r] + 1
        /\ \A q \in Response : q # r => paid'[q] = paid[q]
    BY <1>3 DEF KeptInv, SendStep
  <2>3. paid[r] = 0 /\ ~OnHold(r)
    BY <1>3, Zenon DEF KeptInv, SendStep
  <2> QED
    BY <1>3, <2>1, <2>2, <2>3 DEF KeptInv, SendStep
<1>4. ASSUME NEW s \in DOMAIN pendingResponses, TriggerStep(s)
      PROVE  KeptInv'
  <2>1. PICK r \in Response : r = pendingResponses[s] /\ r[2] = s
    BY Zenon DEF KeptInv
  <2>2. /\ DOMAIN pendingResponses' = DOMAIN pendingResponses \ {s}
        /\ \A t \in DOMAIN pendingResponses' :
             pendingResponses'[t] = pendingResponses[t]
    BY <1>4, Zenon DEF TriggerStep
  <2>3. \A q \in Response : q # r => OnHold(q)' = OnHold(q)
    BY <2>1, <2>2 DEF Wormhole!DistinctNumbers, OnHold
  <2>4. OnHold(r) /\ ~OnHold(r)'
    BY <2>1, <2>2, Zenon DEF OnHold
  <2>5. /\ paid' \in [Response -> Nat]
        /\ paid'[r] = paid[r] + 1
        /\ \A q \in Response : q # r => paid'[q] = paid[q]
    BY <1>4, <2>1 DEF KeptInv, TriggerStep
  <2>6. r \in handed /\ paid[r] = 0 /\ handed' = handed
    BY <1>4, <2>4, Zenon DEF KeptInv, TriggerStep
  <2> QED
    BY <2>2, <2>3, <2>4, <2>5, <2>6 DEF KeptInv
<1> QED
  BY <1>1, <1>2, <1>3, <1>4 DEF ResponseStep

\* The adapters count as everybody does.
LEMMA AdapterCounts == \A S : Wormhole!Cardinality(S) = Cardinality(S)
BY Zenon DEF Wormhole!Cardinality, Cardinality

\* The responses on hold, counted.
LEMMA KeptCounts ==
  ASSUME Wormhole!DistinctNumbers, KeptInv
  PROVE  Wormhole!ResponsesKept
<1> SUFFICES ASSUME NEW r \in Response
             PROVE  paid[r] + Cardinality({s \in DOMAIN pendingResponses :
                                             pendingResponses[s] = r})
                      = IF r \in handed THEN 1 ELSE 0
  BY AdapterCounts, Zenon DEF Wormhole!ResponsesKept
<1> DEFINE held == {s \in DOMAIN pendingResponses : pendingResponses[s] = r}
<1>1. CASE OnHold(r)
  <2>1. pendingResponses[r[2]] = r
    BY <1>1, Zenon DEF KeptInv, OnHold, Wormhole!DistinctNumbers
  <2>2. held = {r[2]}
    BY <1>1, <2>1, Zenon DEF KeptInv, OnHold
  <2>3. Cardinality(held) = 1
    BY <2>2, FS_Singleton, Zenon
  <2> QED
    BY <1>1, <2>3 DEF KeptInv
<1>2. CASE ~OnHold(r)
  <2>1. held = {}
    BY <1>2 DEF KeptInv, OnHold
  <2>2. Cardinality(held) = 0
    BY <2>1, FS_EmptySet, Zenon
  <2> QED
    BY <1>2, <2>2 DEF KeptInv
<1> QED
  BY <1>1, <1>2, Zenon

-----------------------------------------------------------------------------
(***************************************************************************)
(* Wormhole                                                                *)
(***************************************************************************)
\* Every function of the adapter is one of the steps above.
LEMMA WormholeSteps ==
  ASSUME Wormhole!BridgeAssumption, KeptInv,
         [Wormhole!WormholeNext]_(Wormhole!wvars)
  PROVE  ResponseStep
<1>1. CASE UNCHANGED Wormhole!wvars
  BY <1>1, Zenon
     DEF Wormhole!wvars, Wormhole!vars, ResponseStep, Wormhole!responseVars,
              Wormhole!responseVars
<1>2. ASSUME NEW n, NEW c, NEW e, NEW gas, NEW fee,
             \/ Wormhole!ConfigureConnection(n, c, e, gas, fee)
             \/ Wormhole!SetGasLimit(n, gas)
             \/ Wormhole!SetResponseFee(n, fee)
      PROVE  ResponseStep
  BY <1>2, Zenon DEF Wormhole!ConfigureConnection, Wormhole!SetGasLimit,
              Wormhole!SetResponseFee, ResponseStep, Wormhole!responseVars,
              Wormhole!responseVars
<1>3. ASSUME NEW n \in Networks, NEW response \in BOOLEAN,
             Wormhole!SendCall(n, response)
      PROVE  ResponseStep
  BY <1>3, Zenon DEF Wormhole!SendCall, ResponseStep, Wormhole!responseVars,
              Wormhole!responseVars
<1>4. ASSUME NEW r \in Response, Wormhole!SendResponse(r)
      PROVE  ResponseStep
  <2>1. Wormhole!HeldUnder(Wormhole!SnOf(r)) = r[2]
    BY DEF Wormhole!BridgeAssumption, Wormhole!HeldUnder, Wormhole!SnOf
  <2>2. HoldStep(r) \/ SendStep(r)
    BY <1>4, <2>1 DEF Wormhole!SendResponse, Wormhole!Hold, HoldStep, SendStep
  <2> QED
    BY <2>2, Zenon DEF ResponseStep
<1>5. ASSUME NEW d \in Delivery, Wormhole!ReceiveWormholeMessages(d)
      PROVE  ResponseStep
  BY <1>5, Zenon
     DEF Wormhole!ReceiveWormholeMessages, ResponseStep, Wormhole!responseVars,
              Wormhole!responseVars
<1>6. ASSUME NEW sn, Wormhole!TriggerResponse(sn)
      PROVE  ResponseStep
  <2>1. TriggerStep(sn)
    BY <1>6, Zenon DEF Wormhole!TriggerResponse, Wormhole!Release, TriggerStep
  <2> QED
    BY <2>1, Zenon DEF ResponseStep, TriggerStep
<1> QED
  BY <1>1, <1>2, <1>3, <1>4, <1>5, <1>6 DEF Wormhole!WormholeNext

-----------------------------------------------------------------------------
(***************************************************************************)
(* LayerZero                                                               *)
(***************************************************************************)
\* Every function of the adapter is one of the steps above.
LEMMA LayerZeroSteps ==
  ASSUME Wormhole!BridgeAssumption, KeptInv,
         [LayerZero!LayerZeroNext]_(LayerZero!vars)
  PROVE  ResponseStep
<1>1. CASE UNCHANGED LayerZero!vars
  BY <1>1, Zenon DEF LayerZero!vars, ResponseStep, Wormhole!responseVars,
              LayerZero!responseVars
<1>2. ASSUME NEW n, NEW c, NEW e, NEW gas, NEW fee,
             \/ LayerZero!ConfigureConnection(n, c, e, gas, fee)
             \/ LayerZero!SetGasLimit(n, gas)
             \/ LayerZero!SetResponseFee(n, fee)
      PROVE  ResponseStep
  BY <1>2, Zenon DEF LayerZero!ConfigureConnection, LayerZero!SetGasLimit,
              LayerZero!SetResponseFee, ResponseStep, Wormhole!responseVars,
              LayerZero!responseVars
<1>3. ASSUME NEW n \in Networks, NEW response \in BOOLEAN,
             LayerZero!SendCall(n, response)
      PROVE  ResponseStep
  BY <1>3, Zenon DEF LayerZero!SendCall, ResponseStep, Wormhole!responseVars,
              LayerZero!responseVars
<1>4. ASSUME NEW r \in Response, LayerZero!SendResponse(r)
      PROVE  ResponseStep
  <2>1. -LayerZero!SnOf(r) = r[2]
    BY DEF Wormhole!BridgeAssumption, LayerZero!SnOf
  <2>2. HoldStep(r) \/ SendStep(r)
    BY <1>4, <2>1, Zenon DEF LayerZero!SendResponse, HoldStep, SendStep
  <2> QED
    BY <2>2, Zenon DEF ResponseStep
<1>5. ASSUME NEW d \in Delivery, LayerZero!LzReceive(d)
      PROVE  ResponseStep
  BY <1>5, Zenon DEF LayerZero!LzReceive, ResponseStep, Wormhole!responseVars,
              LayerZero!responseVars
<1>6. ASSUME NEW sn, NEW extra, LayerZero!TriggerResponse(sn, extra)
      PROVE  ResponseStep
  <2>1. TriggerStep(sn)
    BY <1>6, Zenon DEF LayerZero!TriggerResponse, LayerZero!Release,
                LayerZero!OnHold, TriggerStep
  <2> QED
    BY <2>1, Zenon DEF ResponseStep, TriggerStep
<1>7. ASSUME NEW value \in Money, LayerZero!Fallback(value)
      PROVE  ResponseStep
  BY <1>7, Zenon DEF LayerZero!Fallback, ResponseStep, Wormhole!responseVars,
              LayerZero!responseVars
<1> QED
  BY <1>1, <1>2, <1>3, <1>4, <1>5, <1>6, <1>7 DEF LayerZero!LayerZeroNext

-----------------------------------------------------------------------------
\* A response that xcall hands to an adapter is on hold or was sent, once,
\* whatever the balance, the prices and the order of holding and triggering
\* are, although money may arrive and triggering may be overpaid at any time,
\* if no two responses have the same number (sendMessage, triggerResponse,
\* fallback).
THEOREM ResponsesAlwaysKept == MCSpec => []ResponsesKept
<1>1. MCInit => KeptInv
  BY InitKept, Zenon DEF MCInit, Wormhole!WormholeInit
<1>2. ASSUME KeptInv, [MCNext]_<<kind, centralVars, adapterVars>>
      PROVE  KeptInv'
  <2>1. UNCHANGED adapterVars => ResponseStep
    BY Zenon DEF adapterVars, ResponseStep, Wormhole!responseVars
  <2>2. ResponseStep
    BY <1>2, <2>1, AdapterConstants, WormholeSteps, LayerZeroSteps DEF MCNext
  <2> QED
    BY <1>2, <2>2, AdapterConstants, StepKeeps
<1>3. KeptInv => ResponsesKept
  BY AdapterConstants, KeptCounts, Zenon DEF ResponsesKept
<1> QED
  BY <1>1, <1>2, <1>3, PTL DEF MCSpec

\* What was passed on has, for Wormhole, its hash recorded.
SeenInv ==
  kind = "wormhole" =>
    /\ brought \in [Delivery -> {0, 1}]
    /\ \A d \in Delivery : brought[d] = 1 => d.hash \in seenDeliveryVaaHashes

\* What the relayer of Wormhole brings repeatedly, or again after it was
\* refused, is passed on to xcall at most once (receiveWormholeMessages).
THEOREM AlwaysBroughtOnce == MCSpec => []BroughtOnce
<1>1. MCInit => SeenInv
  BY DEF MCInit, Wormhole!WormholeInit, Wormhole!BridgeInit, SeenInv
<1>2. ASSUME SeenInv, [MCNext]_<<kind, centralVars, adapterVars>>
      PROVE  SeenInv'
  <2>1. CASE UNCHANGED <<kind, brought, seenDeliveryVaaHashes>>
    BY <1>2, <2>1, Zenon DEF SeenInv
  <2>2. ASSUME NEW d \in Delivery, kind = "wormhole", UNCHANGED kind,
               Wormhole!ReceiveWormholeMessages(d)
        PROVE  SeenInv'
    <3>1. /\ brought[d] = 0
          /\ brought' = [brought EXCEPT ![d] = @ + 1]
          /\ seenDeliveryVaaHashes' = seenDeliveryVaaHashes \cup {d.hash}
      BY <1>2, <2>2, Zenon DEF SeenInv, Wormhole!ReceiveWormholeMessages,
                        Wormhole!MarkSeen
    <3> QED
      BY <1>2, <2>2, <3>1 DEF SeenInv
  <2>3. CASE kind # "wormhole" /\ UNCHANGED kind
    BY <2>3, Zenon DEF SeenInv
  <2>4. CASE kind = "wormhole" /\ UNCHANGED kind /\ Wormhole!WormholeNext
    BY <2>1, <2>2, <2>4, Zenon
       DEF Wormhole!WormholeNext, Wormhole!ConfigureConnection,
           Wormhole!SetGasLimit, Wormhole!SetResponseFee, Wormhole!SendCall,
           Wormhole!SendResponse, Wormhole!TriggerResponse
  <2> QED
    BY <1>2, <2>1, <2>3, <2>4, Zenon DEF MCNext, adapterVars
<1>3. SeenInv => BroughtOnce
  BY DEF SeenInv, BroughtOnce, Wormhole!DeliveredOnce
<1> QED
  BY <1>1, <1>2, <1>3, PTL DEF MCSpec

-----------------------------------------------------------------------------
(***************************************************************************)
(* The cluster connection of Sui                                           *)
(***************************************************************************)
\* Every delivery left its receipt.
Receipted ==
  \A i \in DOMAIN delivered :
    <<delivered[i].packet.src, delivered[i].packet.sn>> \in receipts

SuiInv ==
  TypeOK /\ ThresholdReachable /\ Receipted /\ DeliveredOnce
  /\ DeliveredAuthentic

\* The range of a prefix is in the range of the sequence.
LEMMA PrefixRange ==
  ASSUME NEW S, NEW s \in Seq(S), NEW n \in 0..Len(s)
  PROVE  Range(SubSeq(s, 1, n)) \subseteq Range(s)
BY DEF Range

\* More keys than there are faulty validators include an honest one.
LEMMA HonestSigner ==
  ASSUME NEW V \in SUBSET Key, NEW R, NEW t \in Nat,
         Cardinality(R \cap V) >= t, Trusted(V, t)
  PROVE  \E k \in R \cap V : k \notin Faulty
<1> SUFFICES ASSUME R \cap V \subseteq Faulty PROVE FALSE
  BY Zenon
<1>1. IsFiniteSet(Faulty \cap V)
  BY FS_Subset, ClusterAssumption, Zenon DEF ClusterAssumption
<1>2. R \cap V \subseteq Faulty \cap V
  BY Zenon
<1>3. /\ IsFiniteSet(R \cap V)
      /\ Cardinality(R \cap V) <= Cardinality(Faulty \cap V)
  BY <1>1, <1>2, FS_Subset
<1>4. Cardinality(R \cap V) \in Nat /\ Cardinality(Faulty \cap V) \in Nat
  BY <1>1, <1>3, FS_CardinalityType, Zenon
<1> QED
  BY <1>3, <1>4 DEF Trusted

\* Signatures that are accepted while fewer validators are faulty than the
\* threshold include one of an honest validator, who saw the message emitted.
LEMMA AcceptedWasEmitted ==
  ASSUME BytesTellMessages, TypeOK,
         NEW src \in Nets, NEW n \in ConnSns, NEW m \in Msgs,
         NEW sigs \in Seq(Key \cup {None}),
         \A k \in Range(sigs) \ {None} :
            Available(k, GetMessageHash(src, n, m)),
         VerifySignatures(sigs),
         Trusted(validators, validators_threshold)
  PROVE  [src |-> src, sn |-> n, msg |-> m] \in emitted
<1>1. PICK j \in 0..Len(sigs) :
        Verified(SubSeq(sigs, 1, j)) >= validators_threshold
  BY Zenon DEF VerifySignatures
<1>2. \E k \in Range(SubSeq(sigs, 1, j)) \cap validators : k \notin Faulty
  BY <1>1, HonestSigner, Zenon DEF Verified, TypeOK
<1>3. PICK k \in Range(sigs) \cap validators : k \notin Faulty
  BY <1>2, PrefixRange, Zenon
<1>4. k # None
  BY <1>3, ClusterAssumption, Zenon DEF TypeOK, ClusterAssumption
<1>5. PICK e \in emitted :
        GetMessageHash(e.src, e.sn, e.msg) = GetMessageHash(src, n, m)
  BY <1>3, <1>4, Zenon DEF Available
<1>6. e \in Packet
  BY <1>5, Zenon DEF TypeOK
<1>7. e.src = src /\ e.sn = n /\ e.msg = m
  BY <1>5, <1>6 DEF BytesTellMessages, Packet
<1> QED
  BY <1>5, <1>6, <1>7, Zenon DEF Packet

\* Signature lists are sequences of keys and of None.
LEMMA SigListsType == SigLists \subseteq Seq(Key \cup {None})
BY ClusterAssumption DEF SigLists, ClusterAssumption

\* A finite range of keys.
LEMMA RangeFinite ==
  ASSUME NEW keys \in Seq(Key)
  PROVE  /\ Range(keys) \subseteq Key
         /\ IsFiniteSet(Range(keys))
         /\ Cardinality(Range(keys)) \in Nat
<1>1. Range(keys) \subseteq Key
  BY DEF Range
<1> QED
  BY <1>1, FS_Subset, FS_CardinalityType, ClusterAssumption, Zenon
     DEF ClusterAssumption

\* A delivery keeps the invariant.
LEMMA ReceiveKeeps ==
  ASSUME BytesTellMessages, SuiInv,
         NEW src \in Nets, NEW n \in ConnSns, NEW m \in Msgs,
         NEW sigs \in SigLists, ReceiveMessageWithSignatures(src, n, m, sigs)
  PROVE  SuiInv'
<1> DEFINE p == [src |-> src, sn |-> n, msg |-> m]
           d == [packet |-> p,
                 trusted |-> Trusted(validators, validators_threshold)]
<1>1. /\ delivered' = Append(delivered, d)
      /\ receipts' = receipts \cup {<<src, n>>}
      /\ <<src, n>> \notin receipts
      /\ UNCHANGED <<emitted, outbox, validators, validators_threshold,
                     conn_sn, fees, balance>>
  BY Zenon
     DEF ReceiveMessageWithSignatures, Deliver, CheckSaveReceipt, feeVars
<1>2. delivered \in Seq([packet : Packet, trusted : BOOLEAN])
  BY Zenon DEF SuiInv, TypeOK
<1>3. p \in Packet /\ Trusted(validators, validators_threshold) \in BOOLEAN
  BY DEF Packet, Trusted
<1>4. d \in [packet : Packet, trusted : BOOLEAN]
  BY <1>3, Zenon
<1>5. delivered' \in Seq([packet : Packet, trusted : BOOLEAN])
  BY <1>1, <1>2, <1>4
<1>6. TypeOK'
  BY <1>1, <1>5 DEF SuiInv, TypeOK
<1>7. ThresholdReachable'
  BY <1>1, Zenon DEF SuiInv, ThresholdReachable
<1>8. /\ DOMAIN delivered' = 1..(Len(delivered) + 1)
      /\ \A i \in 1..Len(delivered) : delivered'[i] = delivered[i]
      /\ delivered'[Len(delivered) + 1] = d
      /\ DOMAIN delivered = 1..Len(delivered)
      /\ Len(delivered) \in Nat
  BY <1>1, <1>2, <1>4
<1> HIDE DEF d
<1>9. d.packet = p /\ d.trusted = Trusted(validators, validators_threshold)
  BY Zenon DEF d
<1>10. p.src = src /\ p.sn = n
  BY Zenon
<1> HIDE DEF p
<1>11. Receipted'
  <2> SUFFICES ASSUME NEW i \in 1..(Len(delivered) + 1)
               PROVE  <<delivered'[i].packet.src, delivered'[i].packet.sn>>
                         \in receipts'
    BY <1>8, Zenon DEF Receipted
  <2>1. CASE i \in 1..Len(delivered)
    BY <2>1, <1>1, <1>8, Zenon DEF SuiInv, Receipted
  <2>2. CASE i = Len(delivered) + 1
    BY <2>2, <1>1, <1>8, <1>9, <1>10
  <2> QED
    BY <2>1, <2>2, <1>8
<1>12. DeliveredOnce'
  <2> SUFFICES ASSUME NEW i \in 1..(Len(delivered) + 1),
                      NEW j \in 1..(Len(delivered) + 1),
                      delivered'[i].packet.src = delivered'[j].packet.src,
                      delivered'[i].packet.sn = delivered'[j].packet.sn
               PROVE  i = j
    BY <1>8, Zenon DEF DeliveredOnce
  <2>1. \A k \in 1..Len(delivered) :
          ~ (delivered[k].packet.src = src /\ delivered[k].packet.sn = n)
    BY <1>1, <1>8, Zenon DEF SuiInv, Receipted
  <2>2. CASE i \in 1..Len(delivered) /\ j \in 1..Len(delivered)
    BY <2>2, <1>8, Zenon DEF SuiInv, DeliveredOnce
  <2>3. CASE i \in 1..Len(delivered) /\ j = Len(delivered) + 1
    BY <2>1, <2>3, <1>8, <1>9, <1>10
  <2>4. CASE i = Len(delivered) + 1 /\ j \in 1..Len(delivered)
    BY <2>1, <2>4, <1>8, <1>9, <1>10
  <2> QED
    BY <2>2, <2>3, <2>4, <1>8
<1>13. DeliveredAuthentic'
  <2> SUFFICES ASSUME NEW i \in 1..(Len(delivered) + 1),
                      delivered'[i].trusted
               PROVE  delivered'[i].packet \in emitted
    BY <1>1, <1>8, Zenon DEF DeliveredAuthentic
  <2>1. CASE i \in 1..Len(delivered)
    BY <2>1, <1>8, Zenon DEF SuiInv, DeliveredAuthentic
  <2>2. CASE i = Len(delivered) + 1
    <3>1. Trusted(validators, validators_threshold)
      BY <2>2, <1>8, <1>9
    <3>2. sigs \in Seq(Key \cup {None})
      BY SigListsType, Zenon
    <3>3. p \in emitted
      BY <3>1, <3>2, AcceptedWasEmitted, Zenon
         DEF p, SuiInv, ReceiveMessageWithSignatures
    <3> QED
      BY <2>2, <3>3, <1>8, <1>9
  <2> QED
    BY <2>1, <2>2, <1>8
<1> QED
  BY <1>6, <1>7, <1>11, <1>12, <1>13, Zenon DEF SuiInv

\* What leaves deliveries, receipts, validators and threshold alone keeps the
\* rest of the invariant as long as nothing emitted is forgotten.
LEMMA DeliveriesKept ==
  ASSUME SuiInv, UNCHANGED <<delivered, receipts>>, emitted \subseteq emitted'
  PROVE  Receipted' /\ DeliveredOnce' /\ DeliveredAuthentic'
BY Zenon DEF SuiInv, Receipted, DeliveredOnce, DeliveredAuthentic

\* Every step keeps the invariant.
LEMMA SuiStepKeeps ==
  ASSUME BytesTellMessages, SuiInv, SuiNext
  PROVE  SuiInv'
<1>1. ASSUME NEW src \in Nets, NEW m \in Msgs, PeerEmits(src, m)
      PROVE  SuiInv'
  <2>1. PICK n \in ConnSns :
          emitted' = emitted \cup {[src |-> src, sn |-> n, msg |-> m]}
    BY <1>1, Zenon DEF PeerEmits, Emit
  <2>2. UNCHANGED <<delivered, validators, validators_threshold, receipts,
                    conn_sn, fees, balance>>
    BY <1>1, Zenon DEF PeerEmits, feeVars
  <2>3. TypeOK' /\ ThresholdReachable'
    BY <2>1, <2>2 DEF SuiInv, TypeOK, Packet, ThresholdReachable
  <2> QED
    BY <2>1, <2>2, <2>3, DeliveriesKept, Zenon DEF SuiInv
<1>2. ASSUME NEW src \in Nets, NEW n \in ConnSns, NEW m \in Msgs,
             NEW sigs \in SigLists,
             ReceiveMessageWithSignatures(src, n, m, sigs)
      PROVE  SuiInv'
  BY <1>2, ReceiveKeeps, Zenon
<1>3. ASSUME NEW to \in Nets, NEW need \in BOOLEAN, NEW response \in BOOLEAN,
             NEW m \in Msgs, NEW v \in MsgValues,
             SendMessage(to, need, response, m, v)
      PROVE  SuiInv'
  <2>1. /\ UNCHANGED <<emitted, delivered, validators, validators_threshold,
                       receipts, fees>>
        /\ conn_sn' = conn_sn + 1 /\ conn_sn + 1 \in ConnSns
        /\ balance' = balance + v /\ v \in Nat
    BY <1>3, ClusterAssumption, Zenon
       DEF SendMessage, NextConnSn, ClusterAssumption
  <2>2. TypeOK' /\ ThresholdReachable'
    BY <2>1, ClusterAssumption
       DEF SuiInv, TypeOK, ThresholdReachable, ConnSns, ClusterAssumption
  <2> QED
    BY <2>1, <2>2, DeliveriesKept, Zenon DEF SuiInv
<1>4. ASSUME NEW u \in Updates, SetValidators(u[1], u[2])
      PROVE  SuiInv'
  <2>1. u[1] \in Seq(Key) /\ u[2] \in Nat
    BY ClusterAssumption, Zenon DEF ClusterAssumption
  <2>2. /\ UNCHANGED <<emitted, delivered, receipts, conn_sn, fees, balance>>
        /\ validators' = Range(u[1]) /\ validators_threshold' = u[2]
        /\ Cardinality(Range(u[1])) >= u[2]
    BY <1>4, Zenon DEF SetValidators, relayVars, feeVars
  <2>3. TypeOK' /\ ThresholdReachable'
    BY <2>1, <2>2, RangeFinite, Zenon DEF SuiInv, TypeOK, ThresholdReachable
  <2> QED
    BY <2>2, <2>3, DeliveriesKept, Zenon DEF SuiInv
<1>5. ASSUME NEW t \in Thresholds, SetValidatorThreshold(t)
      PROVE  SuiInv'
  <2>1. t \in Nat
    BY ClusterAssumption, Zenon DEF ClusterAssumption
  <2>2. /\ UNCHANGED <<emitted, delivered, validators, receipts, conn_sn,
                       fees, balance>>
        /\ validators_threshold' = t /\ t <= Cardinality(validators)
    BY <1>5, Zenon DEF SetValidatorThreshold, relayVars, feeVars
  <2>3. TypeOK' /\ ThresholdReachable'
    BY <2>1, <2>2, Zenon DEF SuiInv, TypeOK, ThresholdReachable
  <2> QED
    BY <2>2, <2>3, DeliveriesKept, Zenon DEF SuiInv
<1>6. ASSUME NEW net \in Nets, NEW fee \in FeeValues, SetFee(net, fee)
      PROVE  SuiInv'
  <2>1. /\ UNCHANGED <<emitted, delivered, validators, validators_threshold,
                       receipts, conn_sn, balance>>
        /\ fees' = [fees EXCEPT ![net] = fee] /\ fee \in Nat \X Nat
    BY <1>6, ClusterAssumption, Zenon DEF SetFee, relayVars, ClusterAssumption
  <2>2. TypeOK' /\ ThresholdReachable'
    BY <2>1, Zenon DEF SuiInv, TypeOK, ThresholdReachable
  <2> QED
    BY <2>1, <2>2, DeliveriesKept, Zenon DEF SuiInv
<1>7. ASSUME ClaimFees
      PROVE  SuiInv'
  <2>1. /\ UNCHANGED <<emitted, delivered, validators, validators_threshold,
                       receipts, conn_sn, fees>>
        /\ balance' = 0
    BY <1>7, Zenon DEF ClaimFees, relayVars
  <2>2. TypeOK' /\ ThresholdReachable'
    BY <2>1, Zenon DEF SuiInv, TypeOK, ThresholdReachable
  <2> QED
    BY <2>1, <2>2, DeliveriesKept, Zenon DEF SuiInv
<1> QED
  BY <1>1, <1>2, <1>3, <1>4, <1>5, <1>6, <1>7 DEF SuiNext

\* The invariant holds at the start.
LEMMA SuiInitHolds == SuiInit => SuiInv
<1> SUFFICES ASSUME SuiInit PROVE SuiInv
  BY Zenon
<1>1. Cardinality({}) = 0
  BY FS_EmptySet, Zenon
<1>2. TypeOK /\ ThresholdReachable
  BY <1>1, ClusterAssumption
     DEF SuiInit, RelayInit, TypeOK, ThresholdReachable, ClusterAssumption
<1> QED
  BY <1>2 DEF SuiInit, RelayInit, SuiInv, Receipted, DeliveredOnce,
              DeliveredAuthentic

\* The invariant holds in every state of the Sui cluster connection.
THEOREM SuiClusterInvariant ==
  ASSUME BytesTellMessages
  PROVE  SuiSpec => []SuiInv
<1>1. SuiInv /\ UNCHANGED vars => SuiInv'
  BY Zenon
     DEF vars, relayVars, feeVars, SuiInv, TypeOK, ThresholdReachable,
         Receipted,
         DeliveredOnce, DeliveredAuthentic
<1>2. SuiInv /\ [SuiNext]_vars => SuiInv'
  BY <1>1, SuiStepKeeps, Zenon
<1> QED
  BY SuiInitHolds, <1>2, PTL DEF SuiSpec

\* xcall gets only what was emitted, while fewer validators are faulty than
\* the threshold asks for (verify_signatures), provided that the bytes signed
\* tell messages apart.
THEOREM SuiDeliversAuthentic ==
  ASSUME BytesTellMessages
  PROVE  SuiSpec => []DeliveredAuthentic
<1>1. SuiInv => DeliveredAuthentic
  BY Zenon DEF SuiInv
<1> QED
  BY SuiClusterInvariant, <1>1, PTL

\* xcall gets a message of one number from one network once
\* (check_save_receipt).
THEOREM SuiDeliversOnce ==
  ASSUME BytesTellMessages
  PROVE  SuiSpec => []DeliveredOnce
<1>1. SuiInv => DeliveredOnce
  BY Zenon DEF SuiInv
<1> QED
  BY SuiClusterInvariant, <1>1, PTL

\* The threshold can always be met (set_validators, set_validator_threshold).
THEOREM SuiThresholdReachable ==
  ASSUME BytesTellMessages
  PROVE  SuiSpec => []ThresholdReachable
<1>1. SuiInv => ThresholdReachable
  BY Zenon DEF SuiInv
<1> QED
  BY SuiClusterInvariant, <1>1, PTL

-----------------------------------------------------------------------------
(***************************************************************************)
(* The packets of the relay aggregator.  What is stored of a packet was    *)
(* submitted for it, and what was announced is recorded as acknowledged.   *)
(***************************************************************************)
Ack == [pkt : Pkt, sigs : SUBSET Relayer, threshold : Nat]

PacketInv ==
  /\ signatureThreshold \in Nat
  /\ signatures \in [Pkt -> SUBSET Relayer]
  /\ acks \in Seq(Ack)
  /\ \A p \in Pkt : \A r \in signatures[p] : <<r, p>> \in signed
  /\ \A i \in DOMAIN acks : acks[i].pkt \in acknowledgedPackets
  /\ AcknowledgedOnceByQuorum

\* A submission keeps the invariant, whether it completes the packet or not.
LEMMA SubmitKeeps ==
  ASSUME PacketInv, NEW r \in Relayer, NEW p \in Pkt, SubmitPacket(r, p)
  PROVE  PacketInv'
<1> DEFINE sigs == signatures[p] \cup {r}
<1>1. /\ sigs \subseteq Relayer
      /\ signed' = signed \cup {<<r, p>>}
      /\ UNCHANGED <<relayers, signatureThreshold>>
      /\ p \notin acknowledgedPackets
  BY Zenon DEF PacketInv, SubmitPacket, relVars
<1>2. \A q \in sigs : <<q, p>> \in signed'
  BY <1>1, Zenon DEF PacketInv
<1>3. ASSUME NEW T \in SUBSET sigs,
             signatures' = [signatures EXCEPT ![p] = T]
      PROVE  /\ signatures' \in [Pkt -> SUBSET Relayer]
             /\ \A q \in Pkt : \A s \in signatures'[q] : <<s, q>> \in signed'
  <2>1. signatures' \in [Pkt -> SUBSET Relayer]
    BY <1>1, <1>3, Zenon DEF PacketInv
  <2>2. signatures'[p] \subseteq sigs
    BY <1>3, Zenon DEF PacketInv
  <2>3. \A q \in Pkt : q # p => signatures'[q] = signatures[q]
    BY <1>3, Zenon DEF PacketInv
  <2> QED
    BY <1>1, <1>2, <2>1, <2>2, <2>3 DEF PacketInv
<1>4. CASE SignatureThresholdReached(sigs)
  <2> DEFINE ack == [pkt |-> p, sigs |-> GetSignatures(sigs),
                     threshold |-> signatureThreshold]
             n == Len(acks)
  <2>1. /\ acks' = Append(acks, ack)
        /\ acknowledgedPackets' = acknowledgedPackets \cup {p}
        /\ signatures' = [signatures EXCEPT ![p] = sigs \ Range(relayers)]
    BY <1>4, Zenon DEF SubmitPacket, Acknowledge, RemovePacket
  <2>2. /\ GetSignatures(sigs) \subseteq sigs
        /\ Cardinality(GetSignatures(sigs)) >= signatureThreshold
    BY <1>4, Zenon DEF SignatureThresholdReached, GetSignatures
  <2>3. ack \in Ack
    BY <1>1, <2>2, Zenon DEF PacketInv, Ack
  <2>4. /\ ack.pkt = p /\ ack.sigs = GetSignatures(sigs)
        /\ ack.threshold = signatureThreshold
    BY Zenon
  <2> HIDE DEF ack
  <2>5. /\ acks' \in Seq(Ack) /\ n \in Nat
        /\ DOMAIN acks = 1..n /\ DOMAIN acks' = 1..(n + 1)
        /\ acks'[n + 1] = ack
        /\ \A i \in 1..n : acks'[i] = acks[i]
    BY <2>1, <2>3 DEF PacketInv
  <2>6. \A i \in DOMAIN acks' : acks'[i].pkt \in acknowledgedPackets'
    BY <2>1, <2>4, <2>5 DEF PacketInv
  <2>7. \A i, j \in DOMAIN acks' : acks'[i].pkt = acks'[j].pkt => i = j
    <3>1. \A i \in 1..n : acks'[i].pkt # p
      BY <1>1, <2>5, Zenon DEF PacketInv
    <3> QED
      BY <2>4, <2>5, <3>1 DEF PacketInv, AcknowledgedOnceByQuorum
  <2>8. \A i \in DOMAIN acks' :
          /\ Cardinality(acks'[i].sigs) >= acks'[i].threshold
          /\ \A s \in acks'[i].sigs : <<s, acks'[i].pkt>> \in signed'
    <3>1. \A i \in 1..n :
            /\ Cardinality(acks'[i].sigs) >= acks'[i].threshold
            /\ \A s \in acks'[i].sigs : <<s, acks'[i].pkt>> \in signed'
      BY <1>1, <2>5, Zenon DEF PacketInv, AcknowledgedOnceByQuorum
    <3>2. /\ Cardinality(ack.sigs) >= ack.threshold
          /\ \A s \in ack.sigs : <<s, ack.pkt>> \in signed'
      BY <1>2, <2>2, <2>4, Zenon
    <3> QED
      BY <2>5, <3>1, <3>2
  <2> QED
    BY <1>1, <1>3, <2>1, <2>5, <2>6, <2>7, <2>8
       DEF PacketInv, AcknowledgedOnceByQuorum
<1>5. CASE ~SignatureThresholdReached(sigs)
  <2>1. /\ signatures' = [signatures EXCEPT ![p] = sigs]
        /\ UNCHANGED <<acks, acknowledgedPackets>>
    BY <1>5, Zenon DEF SubmitPacket
  <2> QED
    BY <1>1, <1>3, <2>1, Zenon DEF PacketInv, AcknowledgedOnceByQuorum
<1> QED
  BY <1>4, <1>5, Zenon

\* This is so at all times.
LEMMA PacketInvAlways == AggregatorSpec => []PacketInv
<1>1. AggregatorInit => PacketInv
  BY DEF AggregatorInit, PacketInv, AcknowledgedOnceByQuorum
<1>2. PacketInv /\ [AggregatorNext]_aggregatorVars => PacketInv'
  <2> SUFFICES ASSUME PacketInv, [AggregatorNext]_aggregatorVars
               PROVE  PacketInv'
    BY Zenon
  <2>1. ASSUME UNCHANGED pktVars, signatureThreshold' \in Nat
        PROVE  PacketInv'
    BY <2>1, Zenon DEF PacketInv, pktVars, AcknowledgedOnceByQuorum
  <2>2. ASSUME NEW new, NEW threshold \in 0..Cardinality(Relayer),
               SetRelayers(new, threshold) \/ SetSignatureThreshold(threshold)
        PROVE  PacketInv'
    BY <2>1, <2>2 DEF SetRelayers, SetSignatureThreshold
  <2>3. CASE UNCHANGED aggregatorVars
    BY <2>1, <2>3, Zenon DEF aggregatorVars, relVars, PacketInv
  <2> QED
    BY <2>2, <2>3, SubmitKeeps, Zenon DEF AggregatorNext
<1> QED
  BY <1>1, <1>2, PTL DEF AggregatorSpec

\* However relayers and threshold change, a packet is acknowledged at most
\* once, by as many relayers as the threshold then asked for, each of whom
\* submitted it (submitPacket, removePacket).
THEOREM AcknowledgedOnceAlways == AggregatorSpec => []AcknowledgedOnceByQuorum
<1>1. PacketInv => AcknowledgedOnceByQuorum
  BY Zenon DEF PacketInv
<1> QED
  BY <1>1, PacketInvAlways, PTL

-----------------------------------------------------------------------------
(***************************************************************************)
(* The relayers of the aggregator.  setRelayers runs two loops, the second *)
(* over the list that it shortens and reorders; each is a recursive        *)
(* function, and what it preserves is shown by induction over its index.   *)
(***************************************************************************)
\* Sets of numbers with zero and with all successors have them all.
LEMMA Inductive ==
  ASSUME NEW S, 0 \in S, \A n \in Nat : n \in S => n + 1 \in S
  PROVE  Nat \subseteq S
<1>1. PICK R : /\ IsWellFoundedOn(R, Nat)
               /\ \A x, y \in Nat : y < x => <<y, x>> \in R
  <2>1. \A x, y \in Nat : y < x => <<y, x>> \in OpToRel(<, Nat)
    BY DEF OpToRel
  <2> QED
    BY <2>1, NatLessThanWellFounded, Zenon
<1> SUFFICES ASSUME Nat \ S # {} PROVE FALSE
  OBVIOUS
<1>2. PICK x \in Nat \ S : \A y \in Nat \ S : <<y, x>> \notin R
  BY <1>1, WFMin, Zenon
<1>3. x # 0 /\ x - 1 \in Nat /\ x - 1 < x
  OBVIOUS
<1>4. x - 1 \in S
  BY <1>1, <1>2, <1>3
<1> QED
  BY <1>3, <1>4

\* g is what the steps F lead to from a, one after the other.
Walk(g, S, a, F, n) ==
  /\ g \in [0..n -> S]
  /\ g[0] = a
  /\ \A i \in 1..n : g[i] = F[i][g[i - 1]]

\* A loop can be run any number of times.
LEMMA WalkExists ==
  ASSUME NEW S, NEW a \in S, NEW F \in [Nat -> [S -> S]], NEW n \in Nat
  PROVE  \E g : Walk(g, S, a, F, n)
<1> DEFINE N == {k \in Nat : \E g : Walk(g, S, a, F, k)}
<1>1. 0 \in N
  <2>1. Walk([i \in 0..0 |-> a], S, a, F, 0)
    BY DEF Walk
  <2> QED
    BY <2>1
<1>2. ASSUME NEW k \in Nat, k \in N
      PROVE  k + 1 \in N
  <2>1. PICK g : Walk(g, S, a, F, k)
    BY <1>2
  <2> DEFINE h == [i \in 0..(k + 1) |->
                     IF i = k + 1 THEN F[k + 1][g[k]] ELSE g[i]]
  <2>2. F[k + 1][g[k]] \in S
    BY <2>1 DEF Walk
  <2>3. Walk(h, S, a, F, k + 1) /\ k + 1 \in Nat
    BY <2>1, <2>2 DEF Walk
  <2> HIDE DEF h
  <2> QED
    BY <2>3
<1>3. Nat \subseteq N
  <2> HIDE DEF N
  <2> QED
    BY <1>1, <1>2, Inductive, Zenon
<1> QED
  BY <1>3

\* What every step of a loop preserves holds after it.
LEMMA WalkStays ==
  ASSUME NEW S, NEW n \in Nat, NEW f, f[0] \in S,
         \A i \in 1..n : f[i - 1] \in S => f[i] \in S
  PROVE  f[n] \in S
<1> DEFINE N == {i \in Nat : i <= n => f[i] \in S}
<1>1. 0 \in N
  OBVIOUS
<1>2. ASSUME NEW i \in Nat, i \in N
      PROVE  i + 1 \in N
  <2> SUFFICES ASSUME i + 1 <= n PROVE f[i + 1] \in S
    OBVIOUS
  <2>1. i + 1 \in 1..n /\ (i + 1) - 1 = i /\ i <= n
    OBVIOUS
  <2> QED
    BY <1>2, <2>1
<1>3. Nat \subseteq N
  <2> HIDE DEF N
  <2> QED
    BY <1>1, <1>2, Inductive, Zenon
<1> QED
  BY <1>3

\* Rosters whose list has the relayers of the lookup table, each once.
Consistent ==
  {x \in Roster : Range(x.list) = x.lookup /\ IsInjective(x.list)}

\* What a list and a table need for that.
LEMMA InConsistent ==
  ASSUME NEW l \in Seq(Relayer), IsInjective(l), NEW T \in SUBSET Relayer,
         Range(l) = T
  PROVE  [list |-> l, lookup |-> T] \in Consistent
<1> DEFINE x == [list |-> l, lookup |-> T]
<1>1. x.list = l /\ x.lookup = T /\ x \in Roster
  BY Zenon DEF Roster
<1> HIDE DEF x
<1>2. x \in Consistent
  BY <1>1, Zenon DEF Consistent
<1> QED
  BY <1>2, Zenon DEF x

\* addRelayer keeps list and table in step.
LEMMA AddKeeps ==
  ASSUME NEW x \in Consistent, NEW r \in Relayer
  PROVE  AddRelayer(x, r) \in Consistent
<1>1. CASE r \in x.lookup
  BY <1>1, Zenon DEF AddRelayer
<1>2. CASE r \notin x.lookup
  <2> DEFINE l == Append(x.list, r)
             n == Len(x.list)
  <2>1. /\ x.list \in Seq(Relayer) /\ x.lookup \subseteq Relayer
        /\ Range(x.list) = x.lookup /\ IsInjective(x.list)
    BY Zenon DEF Consistent, Roster
  <2>2. /\ l \in Seq(Relayer) /\ n \in Nat
        /\ DOMAIN x.list = 1..n /\ DOMAIN l = 1..(n + 1)
        /\ l[n + 1] = r /\ \A i \in 1..n : l[i] = x.list[i]
    BY <2>1
  <2>3. 1..(n + 1) = 1..n \cup {n + 1}
    BY <2>2
  <2> HIDE DEF l, n
  <2>4. Range(l) = x.lookup \cup {r}
    <3>1. \A i \in 1..(n + 1) : l[i] \in x.lookup \cup {r}
      BY <2>1, <2>2, <2>3, Zenon DEF Range
    <3>2. ASSUME NEW q \in x.lookup
          PROVE  \E i \in 1..(n + 1) : l[i] = q
      <4>1. PICK i \in 1..n : x.list[i] = q
        BY <2>1, <2>2, Zenon DEF Range
      <4> QED
        BY <2>2, <2>3, <4>1, Zenon
    <3>3. \E i \in 1..(n + 1) : l[i] = r
      BY <2>2, <2>3, Zenon
    <3> QED
      BY <2>2, <3>1, <3>2, <3>3, Zenon DEF Range
  <2>5. \A i \in 1..n : x.list[i] # r
    BY <1>2, <2>1, <2>2, Zenon DEF Range
  <2>6. IsInjective(l)
    BY <2>1, <2>2, <2>3, <2>5 DEF IsInjective
  <2>7. AddRelayer(x, r) = [list |-> l, lookup |-> x.lookup \cup {r}]
    BY <1>2, Zenon DEF AddRelayer, l
  <2> QED
    BY <2>1, <2>2, <2>4, <2>6, <2>7, InConsistent, Zenon
<1> QED
  BY <1>1, <1>2, Zenon

\* removeRelayer, of a relayer of the list, does too.
LEMMA RemoveKeeps ==
  ASSUME NEW x \in Consistent, NEW k \in 1..Len(x.list)
  PROVE  RemoveRelayer(x, x.list[k]) \in Consistent
<1> DEFINE r == x.list[k]
           n == Len(x.list)
           l == [i \in 1..(n - 1) |->
                   IF x.list[i] = r THEN x.list[n] ELSE x.list[i]]
<1>1. /\ x.list \in Seq(Relayer) /\ x.lookup \subseteq Relayer
      /\ Range(x.list) = x.lookup /\ IsInjective(x.list)
  BY Zenon DEF Consistent, Roster
<1>2. /\ n \in Nat \ {0} /\ DOMAIN x.list = 1..n /\ n - 1 \in Nat
      /\ \A i \in 1..n : x.list[i] \in Relayer
      /\ 1..n = 1..(n - 1) \cup {n} /\ n \notin 1..(n - 1) /\ k \in 1..n
  BY <1>1
<1>3. \A i, j \in 1..n : x.list[i] = x.list[j] => i = j
  BY <1>1, <1>2, Zenon DEF IsInjective
<1>4. \A i \in 1..(n - 1) : l[i] = IF i = k THEN x.list[n] ELSE x.list[i]
  BY <1>2, <1>3, Zenon
<1>5. l \in Seq(Relayer) /\ DOMAIN l = 1..(n - 1)
  BY <1>2
<1>6. RemoveRelayer(x, r) = [list |-> l, lookup |-> x.lookup \ {r}]
  BY Zenon DEF RemoveRelayer
<1>0. r = x.list[k]
  OBVIOUS
<1> HIDE DEF l, n, r
<1>7. Range(l) = x.lookup \ {r}
  <2>1. ASSUME NEW i \in 1..(n - 1)
        PROVE  l[i] \in x.lookup \ {r}
    BY <1>0, <1>1, <1>2, <1>3, <1>4, Zenon DEF Range
  <2>2. ASSUME NEW q \in x.lookup, q # r
        PROVE  \E i \in 1..(n - 1) : l[i] = q
    <3>1. PICK i \in 1..n : x.list[i] = q
      BY <1>1, <1>2, <2>2, Zenon DEF Range
    <3>2. i # k
      BY <1>0, <2>2, <3>1, Zenon
    <3> QED
      BY <1>2, <1>4, <3>1, <3>2, Zenon
  <2> QED
    BY <1>5, <2>1, <2>2, Zenon DEF Range
<1>8. IsInjective(l)
  BY <1>2, <1>3, <1>4, <1>5, Zenon DEF IsInjective
<1> QED
  BY <1>0, <1>1, <1>5, <1>6, <1>7, <1>8, InConsistent, Zenon

\* The loop over the new relayers.
LEMMA AddAllKeeps ==
  ASSUME NEW ros \in Consistent, NEW new \in Seq(Relayer)
  PROVE  AddAll(ros, new) \in Consistent
<1> DEFINE Step(i, x) == AddRelayer(x, new[i])
           Loop(g) == g = [i \in 0..Len(new) |->
                             IF i = 0 THEN ros ELSE AddRelayer(g[i - 1], new[i])]
           f == CHOOSE g : Loop(g)
           F == [i \in Nat |-> [x \in Consistent |->
                   IF i \in 1..Len(new) THEN Step(i, x) ELSE x]]
<1>1. AddAll(ros, new) = f[Len(new)]
  BY Zenon DEF AddAll
<1>2. Len(new) \in Nat
  OBVIOUS
<1>3. \A i \in 1..Len(new), x \in Consistent : Step(i, x) \in Consistent
  BY AddKeeps
<1> HIDE DEF Step
<1>4. F \in [Nat -> [Consistent -> Consistent]]
  BY <1>3, Zenon
<1>5. \A i \in 1..Len(new) : \A x \in Consistent : F[i][x] = Step(i, x)
  <2>1. \A i \in 1..Len(new) : i \in Nat
    BY <1>2
  <2> QED
    BY <2>1, Zenon
<1>6. PICK g : Walk(g, Consistent, ros, F, Len(new))
  <2> HIDE DEF F
  <2> QED
    BY <1>2, <1>4, WalkExists, Zenon
<1> HIDE DEF F
<1>7. /\ 0 \in 0..Len(new)
      /\ \A i \in 1..Len(new) :
           i \in 0..Len(new) /\ i - 1 \in 0..Len(new) /\ i # 0
  BY <1>2
<1>8. \A i \in 0..Len(new) : i # 0 => i \in 1..Len(new)
  BY <1>2
<1>9. Loop(g)
  <2>1. \A i \in 1..Len(new) : g[i] = Step(i, g[i - 1])
    BY <1>5, <1>6, <1>7, Zenon DEF Walk
  <2> QED
    BY <1>6, <1>8, <2>1, Zenon DEF Walk, Step
<1>10. Loop(f)
  <2> HIDE DEF Loop
  <2> QED
    BY <1>9, Zenon
<1> HIDE DEF f
<1>11. f[0] = ros /\ \A i \in 1..Len(new) : f[i] = Step(i, f[i - 1])
  BY <1>2, <1>7, <1>10, Zenon DEF Step
<1>12. \A i \in 1..Len(new) : f[i - 1] \in Consistent => f[i] \in Consistent
  BY <1>3, <1>11, Zenon
<1>13. f[0] \in Consistent
  BY <1>11, Zenon
<1>14. f[Len(new)] \in Consistent
  BY <1>2, <1>12, <1>13, WalkStays, Zenon
<1> QED
  BY <1>1, <1>14, Zenon

\* The loop over the list that it shortens.
LEMMA RemoveOldKeeps ==
  ASSUME NEW ros \in Consistent, NEW new \in Seq(Relayer)
  PROVE  RemoveOld(ros, new) \in Consistent
<1> DEFINE Step(i, x) == IF i > Len(x.list) \/ x.list[i] \in Range(new)
                            THEN x
                            ELSE RemoveRelayer(x, x.list[i])
           Loop(g) == g = [i \in 0..Len(ros.list) |->
             IF i = 0
             THEN ros
             ELSE IF \/ i > Len(g[i - 1].list)
                     \/ g[i - 1].list[i] \in Range(new)
                  THEN g[i - 1]
                  ELSE RemoveRelayer(g[i - 1], g[i - 1].list[i])]
           f == CHOOSE g : Loop(g)
           F == [i \in Nat |-> [x \in Consistent |->
                   IF i \in 1..Len(ros.list) THEN Step(i, x) ELSE x]]
<1>1. RemoveOld(ros, new) = f[Len(ros.list)]
  BY Zenon DEF RemoveOld
<1>2. Len(ros.list) \in Nat
  BY DEF Consistent, Roster
<1>3. \A i \in 1..Len(ros.list), x \in Consistent : Step(i, x) \in Consistent
  <2> SUFFICES ASSUME NEW i \in 1..Len(ros.list), NEW x \in Consistent,
                      ~(i > Len(x.list))
               PROVE  RemoveRelayer(x, x.list[i]) \in Consistent
    BY Zenon
  <2>1. i \in 1..Len(x.list)
    BY <1>2 DEF Consistent, Roster
  <2> QED
    BY <2>1, RemoveKeeps, Zenon
<1> HIDE DEF Step
<1>4. F \in [Nat -> [Consistent -> Consistent]]
  BY <1>3, Zenon
<1>5. \A i \in 1..Len(ros.list) : \A x \in Consistent : F[i][x] = Step(i, x)
  <2>1. \A i \in 1..Len(ros.list) : i \in Nat
    BY <1>2
  <2> QED
    BY <2>1, Zenon
<1>6. PICK g : Walk(g, Consistent, ros, F, Len(ros.list))
  <2> HIDE DEF F
  <2> QED
    BY <1>2, <1>4, WalkExists, Zenon
<1> HIDE DEF F
<1>7. /\ 0 \in 0..Len(ros.list)
      /\ \A i \in 1..Len(ros.list) :
           i \in 0..Len(ros.list) /\ i - 1 \in 0..Len(ros.list) /\ i # 0
  BY <1>2
<1>8. \A i \in 0..Len(ros.list) : i # 0 => i \in 1..Len(ros.list)
  BY <1>2
<1>9. Loop(g)
  <2>1. \A i \in 1..Len(ros.list) : g[i] = Step(i, g[i - 1])
    BY <1>5, <1>6, <1>7, Zenon DEF Walk
  <2> QED
    BY <1>6, <1>8, <2>1, Zenon DEF Walk, Step
<1>10. Loop(f)
  <2> HIDE DEF Loop
  <2> QED
    BY <1>9, Zenon
<1> HIDE DEF f
<1>11. f[0] = ros /\ \A i \in 1..Len(ros.list) : f[i] = Step(i, f[i - 1])
  BY <1>2, <1>7, <1>10, Zenon DEF Step
<1>12. \A i \in 1..Len(ros.list) :
         f[i - 1] \in Consistent => f[i] \in Consistent
  BY <1>3, <1>11, Zenon
<1>13. f[0] \in Consistent
  BY <1>11, Zenon
<1>14. f[Len(ros.list)] \in Consistent
  BY <1>2, <1>12, <1>13, WalkStays, Zenon
<1> QED
  BY <1>1, <1>14, Zenon

RelayersInv == [list |-> relayers, lookup |-> relayersLookup] \in Consistent

\* What that means for the two variables.
LEMMA RelayersInvMeans ==
  RelayersInv <=>
    /\ relayers \in Seq(Relayer) /\ relayersLookup \subseteq Relayer
    /\ LookupMatchesList
<1> DEFINE x == [list |-> relayers, lookup |-> relayersLookup]
<1>1. x.list = relayers /\ x.lookup = relayersLookup
  BY Zenon
<1>2. x \in Roster <=>
        relayers \in Seq(Relayer) /\ relayersLookup \subseteq Relayer
  BY Zenon DEF Roster
<1> HIDE DEF x
<1>3. x \in Consistent <=>
        /\ relayers \in Seq(Relayer) /\ relayersLookup \subseteq Relayer
        /\ LookupMatchesList
  BY <1>1, <1>2, Zenon DEF Consistent, LookupMatchesList
<1> QED
  BY <1>3, Zenon DEF RelayersInv, x

\* setRelayers keeps list and table in step.
LEMMA SetRelayersKeeps ==
  ASSUME RelayersInv, NEW new \in Seq(Relayer), NEW threshold,
         SetRelayers(new, threshold)
  PROVE  RelayersInv'
<1> DEFINE old == [list |-> relayers, lookup |-> relayersLookup]
           ros == IF new = <<>> THEN old ELSE RemoveOld(AddAll(old, new), new)
<1>1. old \in Consistent
  BY Zenon DEF RelayersInv
<1>2. relayers' = ros.list /\ relayersLookup' = ros.lookup
  BY Zenon DEF SetRelayers
<1> HIDE DEF old
<1>3. ros \in Consistent
  BY <1>1, AddAllKeeps, RemoveOldKeeps, Zenon
<1> HIDE DEF ros
<1>4. ros = [list |-> ros.list, lookup |-> ros.lookup]
  <2>1. ros \in Roster
    BY <1>3, Zenon DEF Consistent
  <2> QED
    BY <2>1, Zenon DEF Roster
<1> QED
  BY <1>2, <1>3, <1>4 DEF RelayersInv

\* List and table are in step at all times.
LEMMA RelayersInvAlways == AggregatorSpec => []RelayersInv
<1>1. AggregatorInit => RelayersInv
  <2> SUFFICES ASSUME AggregatorInit PROVE RelayersInv
    BY Zenon
  <2>1. relayers = <<>> /\ relayersLookup = {}
    BY Zenon DEF AggregatorInit
  <2>2. relayers \in Seq(Relayer) /\ DOMAIN relayers = {}
    BY <2>1
  <2> QED
    BY <2>1, <2>2, RelayersInvMeans, Zenon
       DEF LookupMatchesList, Range, IsInjective
<1>2. RelayersInv /\ [AggregatorNext]_aggregatorVars => RelayersInv'
  <2> SUFFICES ASSUME RelayersInv, [AggregatorNext]_aggregatorVars
               PROVE  RelayersInv'
    BY Zenon
  <2>1. ASSUME NEW n \in 0..Cardinality(Relayer),
               NEW new \in [1..n -> Relayer],
               NEW threshold, SetRelayers(new, threshold)
        PROVE  RelayersInv'
    <3>1. n \in Nat
      OBVIOUS
    <3>2. new \in Seq(Relayer)
      BY <3>1
    <3> QED
      BY <2>1, <3>2, SetRelayersKeeps, Zenon
  <2>2. CASE UNCHANGED <<relayers, relayersLookup>>
    BY <2>2, Zenon DEF RelayersInv
  <2>3. ASSUME NEW threshold, SetSignatureThreshold(threshold)
        PROVE  RelayersInv'
    BY <2>2, <2>3, Zenon DEF SetSignatureThreshold
  <2>4. ASSUME NEW r, NEW p, SubmitPacket(r, p)
        PROVE  RelayersInv'
    BY <2>2, <2>4, Zenon DEF SubmitPacket, relVars
  <2>5. CASE UNCHANGED aggregatorVars
    BY <2>2, <2>5, Zenon DEF aggregatorVars, relVars
  <2> QED
    BY <2>1, <2>3, <2>4, <2>5, Zenon DEF AggregatorNext
<1> QED
  BY <1>1, <1>2, PTL DEF AggregatorSpec

\* However the admin replaces relayers, in whatever order and with whatever
\* repetitions, the list that signatures are counted over has the relayers of
\* the lookup table, each once (setRelayers, addRelayer, removeRelayer).
THEOREM LookupAlwaysMatches == AggregatorSpec => []LookupMatchesList
<1>1. RelayersInv => LookupMatchesList
  BY RelayersInvMeans, Zenon
<1> QED
  BY <1>1, RelayersInvAlways, PTL

\* A step that acknowledges a packet does so with signatures of relayers of
\* that moment only, at least as many as the threshold: those of former
\* relayers, which stay stored, are not counted (getSignatures, submitPacket).
THEOREM AcknowledgedByRelayersAlways == AggregatorSpec => AcknowledgedByRelayers
<1> DEFINE Good == Len(acks') > Len(acks) =>
             /\ acks'[Len(acks')].sigs \subseteq relayersLookup
             /\ Cardinality(acks'[Len(acks')].sigs) >= signatureThreshold
<1>1. ASSUME PacketInv, RelayersInv, [AggregatorNext]_aggregatorVars
      PROVE  [Good]_aggregatorVars
  <2>1. ASSUME UNCHANGED acks
        PROVE  Good
    <3>1. acks \in Seq(Ack)
      BY <1>1, Zenon DEF PacketInv
    <3>2. ~(Len(acks') > Len(acks))
      BY <2>1, <3>1
    <3> QED
      BY <3>2, Zenon
  <2>2. ASSUME NEW new, NEW threshold,
               SetRelayers(new, threshold) \/ SetSignatureThreshold(threshold)
        PROVE  Good
    BY <2>1, <2>2, Zenon DEF SetRelayers, SetSignatureThreshold, pktVars
  <2>3. ASSUME NEW r \in Relayer, NEW p \in Pkt, SubmitPacket(r, p)
        PROVE  Good
    <3> DEFINE sigs == signatures[p] \cup {r}
               ack == [pkt |-> p, sigs |-> GetSignatures(sigs),
                       threshold |-> signatureThreshold]
    <3>1. CASE ~SignatureThresholdReached(sigs)
      BY <2>1, <2>3, <3>1, Zenon DEF SubmitPacket
    <3>2. CASE SignatureThresholdReached(sigs)
      <4>1. acks' = Append(acks, ack) /\ acks \in Seq(Ack)
        BY <1>1, <2>3, <3>2, Zenon DEF SubmitPacket, PacketInv
      <4>2. ack.sigs = GetSignatures(sigs)
        BY Zenon
      <4> HIDE DEF ack
      <4>3. acks'[Len(acks')] = ack
        BY <4>1
      <4>4. Range(relayers) = relayersLookup
        BY <1>1, RelayersInvMeans, Zenon DEF LookupMatchesList
      <4> QED
        BY <3>2, <4>2, <4>3, <4>4, Zenon
           DEF SignatureThresholdReached, GetSignatures
    <3> QED
      BY <3>1, <3>2, Zenon
  <2> QED
    BY <1>1, <2>2, <2>3, Zenon DEF AggregatorNext
<1> QED
  BY <1>1, PacketInvAlways, RelayersInvAlways, PTL
     DEF AggregatorSpec, AcknowledgedByRelayers

-----------------------------------------------------------------------------
(***************************************************************************)
(* The facts about counting that CwXcall names as an assumption hold for   *)
(* every value of the constants: they restrict nothing.  They stand apart  *)
(* from the proofs that use them, which this way do without the theorems   *)
(* on finite sets.                                                         *)
(***************************************************************************)
CONSTANTS Conn, Protocols, MaxSn, MaxReqId

Calls == INSTANCE XcallMessages

\* Elements of a list that are as many as the list is long are all of them:
\* the comparison of lengths in handle_request and handle_result.
LEMMA UnanimousCount ==
  ASSUME NEW p \in Seq(Conn), NEW S \in SUBSET Range(p),
         Cardinality(S) = Len(p)
  PROVE  S = Range(p)
<1> DEFINE I == 1..Len(p)
<1>1. p \in [I -> Conn] /\ Len(p) \in Nat
  OBVIOUS
<1>2. IsFiniteSet(I) /\ Cardinality(I) = Len(p)
  <2>1. 1 \in Int /\ Len(p) \in Int
    BY <1>1
  <2>2. /\ IsFiniteSet(I)
        /\ Cardinality(I) = IF 1 > Len(p) THEN 0 ELSE Len(p) - 1 + 1
    BY <2>1, FS_Interval, Zenon
  <2> QED
    BY <1>1, <2>2
<1>3. p \in Surjection(I, Range(p))
  BY <1>1, Fun_RangeProperties, Zenon
<1>4. IsFiniteSet(Range(p)) /\ Cardinality(Range(p)) <= Len(p)
  BY <1>2, <1>3, FS_Surjection
<1>5. /\ Cardinality(S) <= Cardinality(Range(p))
      /\ Cardinality(Range(p)) = Cardinality(S) => Range(p) = S
  BY <1>4, FS_Subset, Zenon
<1>6. Cardinality(Range(p)) \in Nat
  BY <1>4, FS_CardinalityType, Zenon
<1> QED
  BY <1>1, <1>4, <1>5, <1>6

\* Positions of a list can be counted: the sequence numbers that a connection
\* hands out for the list in SendMessage.
LEMMA PositionsCount ==
  ASSUME NEW p \in Seq(Conn), NEW I \in SUBSET (DOMAIN p)
  PROVE  Cardinality(I) \in Nat
<1>1. DOMAIN p = 1..Len(p) /\ Len(p) \in Nat
  OBVIOUS
<1>2. IsFiniteSet(DOMAIN p)
  BY <1>1, FS_Interval
<1>3. IsFiniteSet(I)
  BY <1>2, FS_Subset, Zenon
<1> QED
  BY <1>3, FS_CardinalityType

\* The assumption of CwXcall about counting holds, whatever the connections
\* and the lists that dapps use are.
THEOREM RoutesCount ==
  ASSUME Protocols \subseteq Seq(Conn)
  PROVE  Calls!Countable
<1>1. Calls!Routes \subseteq Seq(Conn)
  <2>1. \A k \in Conn : <<k>> \in Seq(Conn)
    OBVIOUS
  <2> QED
    BY <2>1, Zenon DEF Calls!Routes
<1>2. /\ \A p : Calls!Range(p) = Range(p)
      /\ \A S : Calls!Cardinality(S) = Cardinality(S)
  BY Zenon DEF Calls!Range, Range, Calls!Cardinality, Cardinality
<1> QED
  BY <1>1, <1>2, UnanimousCount, PositionsCount, ZenonT(20)
     DEF Calls!Countable

=============================================================================
