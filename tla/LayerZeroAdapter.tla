-------------------------- MODULE LayerZeroAdapter --------------------------
(***************************************************************************)
(* The adapter of the EVM port to LayerZero (LayerZeroAdapter.sol).  It    *)
(* takes every delivery that the endpoint brings, and the endpoint is      *)
(* assumed to bring each once; money in advance arrives apart from it, and *)
(* what exceeds the price of a message is given back to the adapter.  A    *)
(* failed require reverts and is a guard that is false.                    *)
(***************************************************************************)
EXTENDS BridgeAdapter

CONSTANT MaxBalance      \* bound: money of the adapter

LayerZeroInit == BridgeInit

FreeChain(c) == networkIds[c] = None

ConfigureConnection(n, c, e, gas, fee) ==
  /\ FreeChain(c)
  /\ networkIds' = [networkIds EXCEPT ![c] = n]
  /\ chainIds' = [chainIds EXCEPT ![n] = c]
  /\ remoteEndpoint' = [remoteEndpoint EXCEPT ![n] = e]
  /\ gasLimits' = [gasLimits EXCEPT ![n] = gas]
  /\ responseFees' = [responseFees EXCEPT ![n] = fee]
  /\ UNCHANGED <<responseVars, balance, calls, delivered>>

SetGasLimit(n, gas) ==
  /\ gasLimits' = [gasLimits EXCEPT ![n] = gas]
  /\ UNCHANGED <<routeVars, responseFees, responseVars, balance, calls,
                 delivered>>

SetResponseFee(n, fee) ==
  /\ responseFees' = [responseFees EXCEPT ![n] = fee]
  /\ UNCHANGED <<routeVars, gasLimits, responseVars, balance, calls,
                 delivered>>

\* The price depends on the parameters that go with a message: a gas limit, and
\* the money to give to the endpoint there.
GetFee(n, response) ==
  Quote(gasLimits[n], IF response THEN responseFees[n] ELSE 0)

\* sendMessage of a call: xcall brings what getFee asks for, and the endpoint
\* takes it all.
SendCall(n, response) ==
  /\ Cardinality(calls) < MaxCalls
  /\ Reachable(n)
  /\ calls' = calls \cup {[to |-> chainIds[n], price |-> GetFee(n, response)]}
  /\ UNCHANGED <<routeVars, feeVars, responseVars, balance, delivered>>

\* The response cannot be paid for.
Holds(r) == balance < GetFee(r[1], FALSE)

\* sendMessage of a response: xcall passes no money with it.
SendResponse(r) ==
  /\ r \notin handed
  /\ Reachable(r[1])
  /\ handed' = handed \cup {r}
  /\ IF Holds(r)
     THEN /\ pendingResponses' =
               [s \in DOMAIN pendingResponses \cup {-SnOf(r)} |->
                  IF s = -SnOf(r) THEN r ELSE pendingResponses[s]]
          /\ UNCHANGED <<paid, balance>>
     ELSE /\ paid' = [paid EXCEPT ![r] = @ + 1]
          /\ balance' = balance - GetFee(r[1], FALSE)
          /\ UNCHANGED pendingResponses
  /\ UNCHANGED <<routeVars, feeVars, calls, delivered>>

\* The endpoint accepts a nonce once (lzReceive does not look at it).
EndpointBrings(d) == delivered[d] = 0

LzReceive(d) ==
  /\ networkIds[d.chain] # None
  /\ d.from = remoteEndpoint[networkIds[d.chain]]
  /\ delivered' = [delivered EXCEPT ![d] = @ + 1]
  /\ UNCHANGED <<routeVars, feeVars, responseVars, balance, calls>>

Release(sn) ==
  pendingResponses' =
    [s \in DOMAIN pendingResponses \ {sn} |-> pendingResponses[s]]

\* (mutant: sent to whom the hold of the first number is for)
OnHoldFirst(sn) ==
  pendingResponses[CHOOSE s \in DOMAIN pendingResponses : TRUE]
OnHold(sn) == pendingResponses[sn]

\* (mutant: refused unless the balance alone suffices)
TriggerResponseIfRich(sn, extra) ==
  /\ sn \in DOMAIN pendingResponses
  /\ balance >= GetFee(OnHold(sn)[1], FALSE)
  /\ Release(sn)
  /\ paid' = [paid EXCEPT ![OnHold(sn)] = @ + 1]
  /\ UNCHANGED <<routeVars, feeVars, balance, handed, calls, delivered>>
\* triggerResponse, with extra money above the price of the endpoint.
TriggerResponse(sn, extra) ==
  /\ sn \in DOMAIN pendingResponses
  /\ Reachable(OnHold(sn)[1])
  /\ Release(sn)
  /\ paid' = [paid EXCEPT ![OnHold(sn)] = @ + 1]
  /\ balance + extra <= MaxBalance
  /\ balance' = balance + extra
  /\ UNCHANGED <<routeVars, feeVars, handed, calls, delivered>>

\* fallback: money in advance, or from anybody.
Fallback(value) ==
  /\ balance + value <= MaxBalance
  /\ balance' = balance + value
  /\ UNCHANGED <<routeVars, feeVars, responseVars, calls, delivered>>

Numbers == {r[2] : r \in Response}

LayerZeroNext ==
  \/ \E n \in Net, c \in Chain, e \in Endpoint, gas, fee \in Money :
       ConfigureConnection(n, c, e, gas, fee)
  \/ \E n \in Net, gas \in Money : SetGasLimit(n, gas)
  \/ \E n \in Net, fee \in Money : SetResponseFee(n, fee)
  \/ \E n \in Net, response \in BOOLEAN : SendCall(n, response)
  \/ \E r \in Response : SendResponse(r)
  \/ \E d \in Delivery : EndpointBrings(d) /\ LzReceive(d)
  \/ \E sn \in Numbers, extra \in Money : TriggerResponse(sn, extra)
  \/ \E value \in Money : Fallback(value)

LayerZeroSpec == LayerZeroInit /\ [][LayerZeroNext]_vars

\* Whoever waits for a response on hold pays its price.
LayerZeroFairSpec ==
  /\ LayerZeroSpec
  /\ \A sn \in Numbers : WF_vars(TriggerResponse(sn, 0))

=============================================================================
