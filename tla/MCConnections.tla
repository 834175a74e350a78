--------------------------- MODULE MCConnections ----------------------------
(***************************************************************************)
(* Connections without validators for TLC.  A behaviour is one of the      *)
(* centralized connections of four ports with their relayer, or one of an  *)
(* adapter of the EVM port to a bridge.                                    *)
(***************************************************************************)
EXTENDS CentralizedRelay

CONSTANTS Kinds,      \* the kinds of connections
          Networks, Chain, Endpoint, Absent, Response, Delivery, Money,
          MaxCalls, MaxBalance    \* of the adapters

VARIABLES
  kind,           \* whose behaviour this is
  networkIds, chainIds, remoteEndpoint, gasLimits, responseFees,
  pendingResponses, funds, handed, paid, calls, brought,
  seenDeliveryVaaHashes

adapterVars == <<networkIds, chainIds, remoteEndpoint, gasLimits, responseFees,
                 pendingResponses, funds, handed, paid, calls, brought,
                 seenDeliveryVaaHashes>>

\* Networks, Absent, funds and brought are what BridgeAdapter calls Net, None,
\* balance and delivered.
Wormhole == INSTANCE WormholeAdapter
              WITH Net <- Networks, None <- Absent, balance <- funds,
                   delivered <- brought
LayerZero == INSTANCE LayerZeroAdapter
               WITH Net <- Networks, None <- Absent, balance <- funds,
                    delivered <- brought

\* What the proofs for the adapters assume of the constants.
ASSUME AdapterConstants ==
  Wormhole!BridgeAssumption /\ Wormhole!DistinctNumbers

-----------------------------------------------------------------------------
Fees == {<<1, 1>>}

\* Calls of two networks with numbers of their own.
DistinctSns == {<<"a", 1>>, <<"b", 2>>}

\* From two chains, with money or without.
Deliveries ==
  {[hash |-> 1, chain |-> 1, from |-> "ea", value |-> 2],
   [hash |-> 2, chain |-> 2, from |-> "eb", value |-> 0]}

-----------------------------------------------------------------------------
MCInit == kind \in Kinds /\ CentralInit /\ Wormhole!WormholeInit

MCNext ==
  /\ UNCHANGED kind
  /\ \/ kind = "relay" /\ CentralNext /\ UNCHANGED adapterVars
     \/ kind = "wormhole" /\ Wormhole!WormholeNext /\ UNCHANGED centralVars
     \/ /\ kind = "layerzero" /\ LayerZero!LayerZeroNext
        /\ UNCHANGED <<centralVars, seenDeliveryVaaHashes>>

\* A response on hold is paid for by whoever waits for it.
Trigger(sn) ==
  \/ kind = "wormhole" /\ Wormhole!TriggerResponse(sn)
  \/ /\ kind = "layerzero" /\ LayerZero!TriggerResponse(sn, 0)
     /\ UNCHANGED seenDeliveryVaaHashes

MCSpec ==
  /\ MCInit /\ [][MCNext]_<<kind, centralVars, adapterVars>>
  /\ WF_centralVars(kind = "relay" /\ \E e \in Event : Relay(e))
  /\ \A sn \in Wormhole!Numbers : WF_adapterVars(Trigger(sn))

-----------------------------------------------------------------------------
\* If responses are to calls with different numbers, one that xcall handed to an
\* adapter is on hold or was sent, once (sendMessage, triggerResponse).
ResponsesKept == Wormhole!ResponsesKept

\* What the relayer of Wormhole brings repeatedly is passed on to xcall once
\* (receiveWormholeMessages).  The adapter to LayerZero keeps no record and
\* relies on the endpoint.
BroughtOnce == kind = "wormhole" => Wormhole!DeliveredOnce

\* Every response that an adapter got is sent in the end if somebody pays for
\* those on hold (triggerResponse).
ResponsesSent == Wormhole!ResponsesSent

=============================================================================
