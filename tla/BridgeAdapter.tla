--------------------------- MODULE BridgeAdapter ----------------------------
(***************************************************************************)
(* What the adapters of the EVM port to the bridges Wormhole and LayerZero *)
(* have in common: their storage, the bridge, and what is expected of      *)
(* them.  An adapter pays the bridge for responses from its own balance,   *)
(* which the bridge fills with what senders of calls paid in advance; a    *)
(* response it cannot pay for is held until somebody pays.                 *)
(*                                                                         *)
(* A response is the network it goes to and the serial number of its call. *)
(* A delivery is what a bridge brings: an identity, the chain and endpoint *)
(* it comes from, and the money that comes with it.  Admin and owner are   *)
(* left out.                                                               *)
(***************************************************************************)
EXTENDS Integers, FiniteSets

CONSTANTS Net,          \* network ids
          Chain,        \* chain ids of the bridge, positive
          Endpoint,     \* adapters on other chains
          None,         \* the empty string or address
          Response,     \* responses that xcall sends: <<network, number>>
          Delivery,     \* what the bridge may bring
          Money,        \* gas limits and response fees that may be set
          MaxCalls      \* bound: different calls sent

VARIABLES networkIds, chainIds, remoteEndpoint, gasLimits, responseFees,
          pendingResponses,   \* number -> response on hold
          balance             \* of the adapter

(* History: handed are the responses that xcall gave to the adapter, paid  *)
(* counts how often each was sent, calls are the messages sent that are no *)
(* responses, delivered counts what was passed on to xcall.                *)
VARIABLES handed, paid, calls, delivered

routeVars == <<networkIds, chainIds, remoteEndpoint>>
feeVars == <<gasLimits, responseFees>>
responseVars == <<pendingResponses, handed, paid>>
vars == <<routeVars, feeVars, responseVars, balance, calls, delivered>>

\* Assumptions on the constants.
BridgeAssumption ==
  /\ Chain \subseteq Nat \ {0} /\ Money \subseteq Nat /\ MaxCalls \in Nat
  /\ Response \subseteq Net \X (Nat \ {0})
  /\ \A d \in Delivery : d.chain \in Chain /\ d.from # None /\ d.value \in Nat

\* Responses are to calls with different numbers.  xcall does not see to that:
\* calls of different networks may have the same number, and then one response
\* on hold takes the place of the other.
DistinctNumbers == \A r, q \in Response : r[2] = q[2] => r = q

BridgeInit ==
  /\ networkIds = [c \in Chain |-> None]
  /\ chainIds = [n \in Net |-> 0]
  /\ remoteEndpoint = [n \in Net |-> None]
  /\ gasLimits = [n \in Net |-> 0] /\ responseFees = [n \in Net |-> 0]
  /\ pendingResponses = <<>> /\ balance = 0
  /\ handed = {} /\ paid = [r \in Response |-> 0] /\ calls = {}
  /\ delivered = [d \in Delivery |-> 0]

\* The price of the bridge; it has none for an unknown chain and reverts.
Quote(gas, airdrop) == gas + airdrop
Reachable(n) == chainIds[n] # 0

\* Every response goes out under the number of its call, negated.
SnOf(r) == -r[2]

-----------------------------------------------------------------------------
\* If responses are to calls with different numbers (DistinctNumbers), one that
\* xcall handed over is either on hold or was sent, once; none is lost and none
\* sent twice, whatever the balance was and however holding and triggering
\* interleave (sendMessage, triggerResponse).
ResponsesKept ==
  \A r \in Response :
    LET held == {s \in DOMAIN pendingResponses : pendingResponses[s] = r}
    IN  paid[r] + Cardinality(held) = IF r \in handed THEN 1 ELSE 0

\* What the bridge brings repeatedly is passed on to xcall once.
DeliveredOnce == \A d \in Delivery : delivered[d] <= 1

\* Every response is sent in the end if somebody pays for those on hold.
ResponsesSent == \A r \in Response : r \in handed ~> paid[r] > 0

=============================================================================
