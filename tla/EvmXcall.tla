------------------------------ MODULE EvmXcall ------------------------------
(***************************************************************************)
(* The EVM call service (contracts/evm/contracts/xcall/CallService.sol),   *)
(* one contract on network Here, with every account around it free to act: *)
(* connections may deliver any message of Wire, dapps and users may call   *)
(* any entry point at any time.  A revert is a guard that is false.        *)
(*                                                                         *)
(* The EVM lets a dapp call the contract again while the contract executes *)
(* it.  frames is the stack of the two-way executions under way; whatever  *)
(* happens while it is not empty happens inside them.  A dapp that fails   *)
(* takes back all it did (try/catch), so a failing execution is one step;  *)
(* nothing is left to do after the dapp of a one-way or persistent message *)
(* or of a rollback returns, so these are one step too, and what such a    *)
(* dapp calls comes as the next steps.                                     *)
(*                                                                         *)
(* BTP entry points call the same handlers.  Message sizes, the owner and  *)
(* the admin are left out.                                                 *)
(***************************************************************************)
EXTENDS XcallProperties

CONSTANTS Here,        \* the network of the contract
          Wire,        \* messages that connections may deliver
          Outgoing,    \* <<type, sources, destinations>> that dapps use
          FeeValues,   \* fees that admins may set
          MsgValues,   \* values that senders may attach
          MaxDepth,    \* bound: executions inside one another
          MaxHeard     \* bound: deliveries

VARIABLES
  lastSn, lastReqId,
  rollbacks,           \* sn -> RollbackData
  proxyReqs,           \* request id -> request (proxyReqsV2)
  pendingReqs,         \* (request, connection) collected, by hash
  pendingResponses,    \* (sn, connection) collected, by sequence number
  successfulResponses,
  defaultConnections,
  replyState,          \* request whose reply may be captured
  callReply,           \* captured reply
  frames,              \* two-way requests being executed, innermost last
  protocolFee,
  connFee,             \* what getFee of each connection returns
  balance              \* value held by the contract

(* History: deliveries accepted, requests admitted and executed, calls     *)
(* sent, rollbacks run, and messages handed to connections.                *)
VARIABLES heard, admitted, executed, calls, rolledBack, sent

sendVars == <<lastSn, rollbacks, calls>>
reqVars == <<lastReqId, proxyReqs, admitted>>
replyVars == <<replyState, callReply, frames>>
feeVars == <<protocolFee, connFee, balance>>
pendVars == <<pendingReqs, pendingResponses, heard>>
doneVars == <<successfulResponses, executed, rolledBack>>
vars == <<sendVars, reqVars, replyVars, feeVars, pendVars, doneVars,
          defaultConnections, sent>>

Nets == Chain \ {Here}

\* RollbackData; data tells whether rollback bytes were given at all.
RollbackData ==
  [to : Nets, sources : Protocols, data : BOOLEAN, enabled : BOOLEAN]

\* Assumptions on the constants.
EvmAssumption ==
  /\ Here \in Chain /\ None \notin RollbackData
  /\ Wire \subseteq CSMessage
  /\ Outgoing \subseteq MsgType \X Protocols \X Protocols
  /\ FeeValues \subseteq Nat /\ MsgValues \subseteq Nat
  /\ MaxDepth \in Nat

EvmInit ==
  /\ lastSn = 0 /\ lastReqId = 0
  /\ rollbacks = [s \in Sns |-> None]
  /\ proxyReqs = [i \in ReqIds |-> None]
  /\ pendingReqs = {} /\ pendingResponses = {} /\ successfulResponses = {}
  /\ defaultConnections = [d \in Nets |-> None]
  /\ replyState = None /\ callReply = None /\ frames = <<>>
  /\ protocolFee = 0 /\ balance = 0
  /\ connFee = [k \in Conn |-> [response \in BOOLEAN |-> 0]]
  /\ heard = {} /\ admitted = {} /\ executed = {} /\ rolledBack = {}
  /\ calls = [s \in Sns |-> None] /\ sent = {}

-----------------------------------------------------------------------------
(***************************************************************************)
(* Sending                                                                 *)
(***************************************************************************)
Confirmed(net, sources) ==
  IF sources = <<>> THEN <<defaultConnections[net]>> ELSE sources

HasRoute(net, sources) == None \notin Range(Confirmed(net, sources))

\* sendMessage: one message to each connection of the list.
SendMessage(net, sources, m) ==
  /\ HasRoute(net, sources)
  /\ sent' = sent \cup {[conn |-> k, net |-> net, msg |-> m] :
                           k \in Range(Confirmed(net, sources))}

\* What the connections of the list ask for a message, with its response
\* or without; a response itself is free of charge.
ConnectionFees(conns, response) ==
  SumFunction([i \in DOMAIN conns |-> connFee[conns[i]][response]])

\* claimProtocolFee: the fee handler gets all that is left.
ClaimProtocolFee(funds) == funds >= protocolFee /\ balance' = 0

\* isReply, with areArraysEqual.
IsReply(net, sources) ==
  /\ replyState # None
  /\ replyState.from = net
  /\ replyState.protocols = sources

CallRequest(type, destinations) ==
  [from |-> Here, sn |-> lastSn + 1, type |-> type, protocols |-> destinations]

\* getNextSn and preProcessMessage: a two-way message leaves a rollback.
PreProcess(to, type, sources, data) ==
  /\ lastSn + 1 \in Sns
  /\ lastSn' = lastSn + 1
  /\ IF type = TwoWay
     THEN /\ rollbacks' = [rollbacks EXCEPT ![lastSn + 1] =
               [to |-> to, sources |-> sources, data |-> data,
                enabled |-> FALSE]]
          /\ calls' = [calls EXCEPT ![lastSn + 1] =
                         [to |-> to, protocols |-> sources]]
     ELSE UNCHANGED <<rollbacks, calls>>

\* sendCall in the reply state.
SendReply(to, type, sources, destinations, data, value) ==
  /\ IsReply(to, sources) /\ type # TwoWay
  /\ PreProcess(to, type, sources, data)
  /\ replyState' = None
  /\ callReply' = CallRequest(type, destinations)
  /\ balance' = balance + value
  /\ UNCHANGED <<reqVars, frames, protocolFee, connFee, pendVars, doneVars,
                 defaultConnections, sent>>

\* sendCall otherwise.
SendOut(to, type, sources, destinations, data, value) ==
  /\ ~IsReply(to, sources) \/ type = TwoWay
  /\ PreProcess(to, type, sources, data)
  /\ SendMessage(to, sources, CSRequest(CallRequest(type, destinations)))
  /\ LET fee == ConnectionFees(Confirmed(to, sources), type = TwoWay)
     IN  /\ balance + value >= fee
         /\ ClaimProtocolFee(balance + value - fee)
  /\ UNCHANGED <<reqVars, replyVars, protocolFee, connFee, pendVars, doneVars,
                 defaultConnections>>

-----------------------------------------------------------------------------
(***************************************************************************)
(* Receiving                                                               *)
(***************************************************************************)
\* A list of several protocols is collected; of one, or none, the sender
\* has to be the protocol or the default connection of the network.
Authorized(net, k, protocols) ==
  Len(protocols) > 1 \/ k \in Range(Confirmed(net, protocols))

Hear(k, m) ==
  /\ Cardinality(heard) < MaxHeard
  /\ heard' = heard \cup {<<m, k>>}

\* (mutant: the loop ends at the first protocol that delivered)
AllDeliveredSome(pending, x, k, protocols) ==
  \E p \in Range(protocols) : p = k \/ <<x, p>> \in pending
\* All the protocols of the list delivered x, k just now.
AllDelivered(pending, x, k, protocols) ==
  \A p \in Range(protocols) : p = k \/ <<x, p>> \in pending

\* pendingReqs (pendingResponses) after x is complete, or not.
Cleared(pending, x, protocols) == pending \ {<<x, p>> : p \in Range(protocols)}

NewProxyRequest(req) ==
  /\ lastReqId + 1 \in ReqIds
  /\ lastReqId' = lastReqId + 1
  /\ proxyReqs' = [proxyReqs EXCEPT ![lastReqId + 1] = req]
  /\ admitted' = admitted \cup {<<lastReqId + 1, req>>}

\* handleRequest, other protocols still to deliver.
HandleRequestPending(src, k, req) ==
  /\ req.from = src
  /\ Len(req.protocols) > 1
  /\ ~AllDelivered(pendingReqs, req, k, req.protocols)
  /\ pendingReqs' = pendingReqs \cup {<<req, k>>}
  /\ Hear(k, CSRequest(req))
  /\ UNCHANGED <<sendVars, reqVars, replyVars, feeVars, pendingResponses,
                 doneVars, defaultConnections, sent>>

\* handleRequest, complete.
HandleRequest(src, k, req) ==
  /\ req.from = src
  /\ Authorized(src, k, req.protocols)
  /\ Len(req.protocols) > 1 =>
       AllDelivered(pendingReqs, req, k, req.protocols)
  /\ pendingReqs' = IF Len(req.protocols) > 1
                    THEN Cleared(pendingReqs \cup {<<req, k>>}, req,
                                 req.protocols)
                    ELSE pendingReqs
  /\ NewProxyRequest(req)
  /\ Hear(k, CSRequest(req))
  /\ UNCHANGED <<sendVars, replyVars, feeVars, pendingResponses, doneVars,
                 defaultConnections, sent>>

\* handleResult before the last of several sources has answered.
HandleResultPending(k, res) ==
  /\ rollbacks[res.sn] # None
  /\ Len(rollbacks[res.sn].sources) > 1
  /\ ~AllDelivered(pendingResponses, res.sn, k, rollbacks[res.sn].sources)
  /\ pendingResponses' = pendingResponses \cup {<<res.sn, k>>}
  /\ Hear(k, CSResult(res))
  /\ UNCHANGED <<sendVars, reqVars, replyVars, feeVars, pendingReqs, doneVars,
                 defaultConnections, sent>>

\* handleResult up to the switch on the code.
ResultComplete(k, res) ==
  /\ rollbacks[res.sn] # None
  /\ LET rollback == rollbacks[res.sn]
     IN  /\ Authorized(rollback.to, k, rollback.sources)
         /\ Len(rollback.sources) > 1 =>
              AllDelivered(pendingResponses, res.sn, k, rollback.sources)
         /\ pendingResponses' =
              IF Len(rollback.sources) > 1
              THEN Cleared(pendingResponses \cup {<<res.sn, k>>}, res.sn,
                           rollback.sources)
              ELSE pendingResponses
  /\ Hear(k, CSResult(res))

\* (mutant: the rollback stays)
CleanupCallRequestNot(s) == UNCHANGED rollbacks
CleanupCallRequest(s) == rollbacks' = [rollbacks EXCEPT ![s] = None]

HandleReply(rollback, reply) ==
  /\ rollback.to = reply.from
  /\ NewProxyRequest([reply EXCEPT !.protocols = rollback.sources])

HandleResultSuccess(k, res) ==
  /\ ResultComplete(k, res)
  /\ res.code = Success
  /\ CleanupCallRequest(res.sn)
  /\ IF res.reply = None
     THEN UNCHANGED reqVars
     ELSE HandleReply(rollbacks[res.sn], res.reply)
  /\ successfulResponses' = successfulResponses \cup {res.sn}
  /\ UNCHANGED <<lastSn, calls, replyVars, feeVars, pendingReqs, executed,
                 rolledBack, defaultConnections, sent>>

HandleResultFailure(k, res) ==
  /\ ResultComplete(k, res)
  /\ res.code = Failure
  /\ rollbacks[res.sn].data
  /\ rollbacks' = [rollbacks EXCEPT ![res.sn].enabled = TRUE]
  /\ UNCHANGED <<lastSn, calls, reqVars, replyVars, feeVars, pendingReqs,
                 doneVars, defaultConnections, sent>>

\* handleMessage.
HandleMessage(src, k, m) ==
  \/ /\ m.type = "CSMessageRequest"
     /\ \/ HandleRequestPending(src, k, m.payload)
        \/ HandleRequest(src, k, m.payload)
  \/ /\ m.type = "CSMessageResult"
     /\ \/ HandleResultPending(k, m.payload)
        \/ HandleResultSuccess(k, m.payload)
        \/ HandleResultFailure(k, m.payload)

\* handleError: a failure that the connection reports by itself.
HandleError(k, s) ==
  LET res == [sn |-> s, code |-> Failure, reply |-> None]
  IN  HandleResultPending(k, res) \/ HandleResultFailure(k, res)

-----------------------------------------------------------------------------
(***************************************************************************)
(* Executing                                                               *)
(***************************************************************************)
\* executeCall deletes the request before it calls the dapp.
TakeProxyRequest(id) == proxyReqs' = [proxyReqs EXCEPT ![id] = None]

Executed(id, code) == executed' = executed \cup {<<id, proxyReqs[id], code>>}

\* executeCall of a one-way message (tryExecuteCall: it is gone even when
\* the dapp fails) or of a persistent one (a failing dapp reverts all).
ExecuteCall(id, code) ==
  /\ proxyReqs[id] # None
  /\ proxyReqs[id].type # TwoWay
  /\ proxyReqs[id].type = Persisted => code = Success
  /\ TakeProxyRequest(id)
  /\ Executed(id, code)
  /\ UNCHANGED <<sendVars, lastReqId, admitted, replyVars, feeVars, pendVars,
                 successfulResponses, rolledBack, defaultConnections, sent>>

\* executeCall of a two-way message up to the call of a dapp that returns.
BeginTwoWay(id) ==
  /\ proxyReqs[id] # None
  /\ proxyReqs[id].type = TwoWay
  /\ HasRoute(proxyReqs[id].from, proxyReqs[id].protocols)
  /\ Len(frames) < MaxDepth
  /\ TakeProxyRequest(id)
  /\ Executed(id, Success)
  /\ replyState' = proxyReqs[id]
  /\ frames' = Append(frames, proxyReqs[id])
  /\ UNCHANGED <<sendVars, lastReqId, admitted, callReply, feeVars, pendVars,
                 successfulResponses, rolledBack, defaultConnections, sent>>

\* (mutant: the reply is not deleted)
TakeReplyNot == UNCHANGED callReply
TakeReply == callReply' = None

\* (mutant: the outermost request is answered)
CurrentRequestFirst == frames[1]
\* req, a local variable of the innermost executeCall.
CurrentRequest == frames[Len(frames)]

\* The rest of executeCall, once the dapp has returned: the result takes
\* along whatever reply is held.
EndTwoWay ==
  /\ frames # <<>>
  /\ LET req == CurrentRequest
     IN  SendMessage(req.from, req.protocols,
                     CSResult([sn |-> req.sn, code |-> Success,
                               reply |-> callReply]))
  /\ frames' = SubSeq(frames, 1, Len(frames) - 1)
  /\ replyState' = None
  /\ TakeReply
  /\ UNCHANGED <<sendVars, reqVars, feeVars, pendVars, doneVars,
                 defaultConnections>>

\* executeCall of a two-way message whose dapp fails.
FailTwoWay(id) ==
  /\ proxyReqs[id] # None
  /\ proxyReqs[id].type = TwoWay
  /\ TakeProxyRequest(id)
  /\ Executed(id, Failure)
  /\ replyState' = None
  /\ LET req == proxyReqs[id]
     IN  SendMessage(req.from, req.protocols,
                     CSResult([sn |-> req.sn, code |-> Failure,
                               reply |-> None]))
  /\ UNCHANGED <<sendVars, lastReqId, admitted, callReply, frames, feeVars,
                 pendVars, successfulResponses, rolledBack,
                 defaultConnections>>

\* executeRollback: a dapp that fails reverts it, for another attempt.
ExecuteRollback(s) ==
  /\ rollbacks[s] # None
  /\ rollbacks[s].enabled
  /\ CleanupCallRequest(s)
  /\ rolledBack' = rolledBack \cup {s}
  /\ UNCHANGED <<lastSn, calls, reqVars, replyVars, feeVars, pendVars,
                 successfulResponses, executed, defaultConnections, sent>>

-----------------------------------------------------------------------------
(***************************************************************************)
(* Administration: of the contract and of the connections                  *)
(***************************************************************************)
SetDefaultConnection(net, k) ==
  /\ defaultConnections' = [defaultConnections EXCEPT ![net] = k]
  /\ UNCHANGED <<sendVars, reqVars, replyVars, feeVars, pendVars, doneVars,
                 sent>>

SetProtocolFee(value) ==
  /\ protocolFee' = value
  /\ UNCHANGED <<sendVars, reqVars, replyVars, connFee, balance, pendVars,
                 doneVars, defaultConnections, sent>>

\* The admin of a connection sets its fees, here one pair for all networks.
SetFee(k, messageFee, responseFee) ==
  /\ connFee' = [connFee EXCEPT ![k] = [response \in BOOLEAN |->
                    IF response THEN messageFee + responseFee ELSE messageFee]]
  /\ UNCHANGED <<sendVars, reqVars, replyVars, protocolFee, balance, pendVars,
                 doneVars, defaultConnections, sent>>

EvmNext ==
  \/ \E to \in Nets, o \in Outgoing, data \in BOOLEAN, value \in MsgValues :
       \/ SendReply(to, o[1], o[2], o[3], data, value)
       \/ SendOut(to, o[1], o[2], o[3], data, value)
  \/ \E src \in Nets, k \in Conn, m \in Wire : HandleMessage(src, k, m)
  \/ \E k \in Conn, s \in Sns : HandleError(k, s)
  \/ \E id \in ReqIds, code \in Code : ExecuteCall(id, code)
  \/ \E id \in ReqIds : BeginTwoWay(id) \/ FailTwoWay(id)
  \/ EndTwoWay
  \/ \E s \in Sns : ExecuteRollback(s)
  \/ \E net \in Nets, k \in Conn : SetDefaultConnection(net, k)
  \/ \E value \in FeeValues : SetProtocolFee(value)
  \/ \E k \in Conn, f, g \in FeeValues : SetFee(k, f, g)

EvmSpec == EvmInit /\ [][EvmNext]_vars

-----------------------------------------------------------------------------
\* Type invariant.
TypeOK ==
  /\ lastSn \in 0..MaxSn /\ lastReqId \in 0..MaxReqId
  /\ rollbacks \in [Sns -> RollbackData \cup {None}]
  /\ proxyReqs \in [ReqIds -> Request \cup {None}]
  /\ pendingReqs \subseteq Request \X Conn
  /\ pendingResponses \subseteq Sns \X Conn
  /\ successfulResponses \subseteq Sns
  /\ defaultConnections \in [Nets -> Conn \cup {None}]
  /\ {replyState, callReply} \subseteq Request \cup {None}
  /\ frames \in Seq(Request) /\ Len(frames) <= MaxDepth
  /\ protocolFee \in Nat /\ balance \in Nat
  /\ connFee \in [Conn -> [BOOLEAN -> Nat]]
  /\ heard \subseteq CSMessage \X Conn
  /\ admitted \subseteq ReqIds \X Request
  /\ executed \subseteq ReqIds \X Request \X Code
  /\ calls \in [Sns -> Call \cup {None}]
  /\ rolledBack \subseteq Sns
  /\ sent \subseteq [conn : Conn, net : Nets, msg : CSMessage]

\* A request is admitted only after every one of its protocols delivered
\* that very request, whatever accounts outside the list deliver: handleRequest
\* lets anybody write pendingReqs.  A reply is admitted only after all answered
\* the call, with whatever codes, and one of them with this reply: handleResult
\* lets anybody write pendingResponses, but none of them is the last to answer.
RequestsEndorsed == AdmissionVouched(heard, admitted)

\* A call settles only after all its connections answered it, with whatever
\* codes, and one of them with the code that it settles on: handleResult adds up
\* the answers to one sequence number and goes by the code of the last, which
\* accounts outside the list never give.
ResultsVouched ==
  SettledOnAllAnswers(heard, calls, successfulResponses, rolledBack)

\* A call is settled once, although answers after the first complete round
\* are collected afresh: what is stored is open, and no call both succeeds
\* and is rolled back.
SettledOnce ==
  /\ successfulResponses \cap rolledBack = {}
  /\ \A s \in successfulResponses \cup rolledBack : rollbacks[s] = None

\* However executions nest, a request runs once, and a two-way request that
\* ran is answered with the outcome it had, over its protocols, or is still
\* under way: executeCall answers from its own copy of the request.
ExecutedOnceAndAnswered ==
  /\ ExecutedAtMostOnce(executed)
  /\ \A x \in executed :
       /\ proxyReqs[x[1]] = None
       /\ x[2].type = TwoWay =>
         \/ x[2] \in Range(frames)
         \/ \A k \in Range(x[2].protocols) :
              \E e \in sent :
                /\ e.conn = k /\ e.net = x[2].from
                /\ e.msg.type = "CSMessageResult"
                /\ e.msg.payload.sn = x[2].sn /\ e.msg.payload.code = x[3]

\* The single slots replyState and callReply are empty whenever no two-way
\* execution is under way, and a reply travels with one result only, however
\* executions nest or fail inside one another.
RepliesStayInside ==
  /\ frames = <<>> => replyState = None /\ callReply = None
  /\ \A e, f \in sent :
       (/\ e.msg.type = "CSMessageResult" /\ e.msg.payload.reply # None
        /\ f.msg.type = "CSMessageResult"
        /\ f.msg.payload.reply = e.msg.payload.reply) =>
         (e.msg = f.msg /\ e.net = f.net)

\* getFee(net, rollback) and getFee(net, rollback, sources).
GetDefaultFee(net, response) ==
  protocolFee + connFee[defaultConnections[net]][response]
\* (mutant: the protocol fee is forgotten)
GetFeeOfConnections(net, response, sources) ==
  IF IsReply(net, sources) /\ ~response THEN 0
  ELSE ConnectionFees(sources, response)
GetFee(net, response, sources) ==
  IF IsReply(net, sources) /\ ~response THEN 0
  ELSE protocolFee + ConnectionFees(sources, response)

\* sendCall goes through with that value.
Sendable(net, type, sources, value) ==
  ENABLED (\/ SendReply(net, type, sources, sources, TRUE, value)
           \/ SendOut(net, type, sources, sources, TRUE, value))

\* The fee that getFee quotes is enough for sendCall to go through, at any
\* moment (inside an execution a reply is free): for the default connection
\* with two arguments, for a list of connections with three.
QuoteSuffices ==
  \A net \in Nets, type \in {OneWay, TwoWay}, sources \in Protocols :
    (HasRoute(net, sources) /\ lastSn < MaxSn) =>
      Sendable(net, type, sources,
               IF sources = <<>> THEN GetDefaultFee(net, type = TwoWay)
                                 ELSE GetFee(net, type = TwoWay, sources))

=============================================================================
