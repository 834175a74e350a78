-------------------------- MODULE WormholeAdapter ---------------------------
(***************************************************************************)
(* The adapter of the EVM port to Wormhole (WormholeAdapter.sol).  The     *)
(* relayer takes exactly its price with a message and may bring a delivery *)
(* again.  A failed require reverts and is a guard that is false.          *)
(***************************************************************************)
EXTENDS BridgeAdapter

VARIABLE seenDeliveryVaaHashes

wvars == <<vars, seenDeliveryVaaHashes>>

WormholeInit == BridgeInit /\ seenDeliveryVaaHashes = {}

FreeChain(c) == networkIds[c] = None

ConfigureConnection(n, c, e, gas, fee) ==
  /\ FreeChain(c)
  /\ networkIds' = [networkIds EXCEPT ![c] = n]
  /\ chainIds' = [chainIds EXCEPT ![n] = c]
  /\ remoteEndpoint' = [remoteEndpoint EXCEPT ![n] = e]
  /\ gasLimits' = [gasLimits EXCEPT ![n] = gas]
  /\ responseFees' = [responseFees EXCEPT ![n] = fee]
  /\ UNCHANGED <<responseVars, balance, calls, delivered,
                 seenDeliveryVaaHashes>>

SetGasLimit(n, gas) ==
  /\ gasLimits' = [gasLimits EXCEPT ![n] = gas]
  /\ UNCHANGED <<routeVars, responseFees, responseVars, balance, calls,
                 delivered, seenDeliveryVaaHashes>>

SetResponseFee(n, fee) ==
  /\ responseFees' = [responseFees EXCEPT ![n] = fee]
  /\ UNCHANGED <<routeVars, gasLimits, responseVars, balance, calls,
                 delivered, seenDeliveryVaaHashes>>

GetFee(n, response) ==
  Quote(gasLimits[n], IF response THEN responseFees[n] ELSE 0)

\* The number that a response is put on hold under.
HeldUnder(sn) == -sn

Hold(r) ==
  pendingResponses' =
    [s \in DOMAIN pendingResponses \cup {HeldUnder(SnOf(r))} |->
       IF s = HeldUnder(SnOf(r)) THEN r ELSE pendingResponses[s]]

\* sendMessage of a call: xcall brings what getFee asks for, and the relayer
\* takes it all.
SendCall(n, response) ==
  /\ Cardinality(calls) < MaxCalls
  /\ Reachable(n)
  /\ calls' = calls \cup {[to |-> chainIds[n], price |-> GetFee(n, response)]}
  /\ UNCHANGED <<routeVars, feeVars, responseVars, balance, delivered,
                 seenDeliveryVaaHashes>>

\* sendMessage of a response: xcall passes no money with it.
SendResponse(r) ==
  LET fee == GetFee(r[1], FALSE)
  IN  /\ r \notin handed
      /\ Reachable(r[1])
      /\ handed' = handed \cup {r}
      /\ IF balance < fee
         THEN Hold(r) /\ UNCHANGED <<paid, balance>>
         ELSE /\ paid' = [paid EXCEPT ![r] = @ + 1]
              /\ balance' = balance - fee
              /\ UNCHANGED pendingResponses
      /\ UNCHANGED <<routeVars, feeVars, calls, delivered,
                     seenDeliveryVaaHashes>>

\* (mutant: hashes are not recorded)
MarkSeenNot(d) == UNCHANGED seenDeliveryVaaHashes
MarkSeen(d) == seenDeliveryVaaHashes' = seenDeliveryVaaHashes \cup {d.hash}

\* receiveWormholeMessages; the money that comes with it stays here.
ReceiveWormholeMessages(d) ==
  /\ d.hash \notin seenDeliveryVaaHashes
  /\ MarkSeen(d)
  /\ networkIds[d.chain] # None
  /\ d.from = remoteEndpoint[networkIds[d.chain]]
  /\ delivered' = [delivered EXCEPT ![d] = @ + 1]
  /\ balance' = balance + d.value
  /\ UNCHANGED <<routeVars, feeVars, responseVars, calls>>

\* (mutant: the response stays on hold)
ReleaseNot(sn) == UNCHANGED pendingResponses
Release(sn) ==
  pendingResponses' =
    [s \in DOMAIN pendingResponses \ {sn} |-> pendingResponses[s]]

\* (mutant: paid from the balance as in sendMessage)
TriggerResponseFromBalance(sn) ==
  /\ sn \in DOMAIN pendingResponses
  /\ balance >= GetFee(pendingResponses[sn][1], FALSE)
  /\ Release(sn)
  /\ paid' = [paid EXCEPT ![pendingResponses[sn]] = @ + 1]
  /\ balance' = balance - GetFee(pendingResponses[sn][1], FALSE)
  /\ UNCHANGED <<routeVars, feeVars, handed, calls, delivered,
                 seenDeliveryVaaHashes>>
\* triggerResponse, with the price of the relayer.
TriggerResponse(sn) ==
  /\ sn \in DOMAIN pendingResponses
  /\ Reachable(pendingResponses[sn][1])
  /\ Release(sn)
  /\ paid' = [paid EXCEPT ![pendingResponses[sn]] = @ + 1]
  /\ UNCHANGED <<routeVars, feeVars, balance, handed, calls, delivered,
                 seenDeliveryVaaHashes>>

Numbers == {r[2] : r \in Response}

WormholeNext ==
  \/ \E n \in Net, c \in Chain, e \in Endpoint, gas, fee \in Money :
       ConfigureConnection(n, c, e, gas, fee)
  \/ \E n \in Net, gas \in Money : SetGasLimit(n, gas)
  \/ \E n \in Net, fee \in Money : SetResponseFee(n, fee)
  \/ \E n \in Net, response \in BOOLEAN : SendCall(n, response)
  \/ \E r \in Response : SendResponse(r)
  \/ \E d \in Delivery : ReceiveWormholeMessages(d)
  \/ \E sn \in Numbers : TriggerResponse(sn)

WormholeSpec == WormholeInit /\ [][WormholeNext]_wvars

\* Whoever waits for a response on hold pays for it.
WormholeFairSpec ==
  WormholeSpec /\ \A sn \in Numbers : WF_wvars(TriggerResponse(sn))

=============================================================================
