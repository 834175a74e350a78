----------------------------- MODULE JavaXcall -----------------------------
(***************************************************************************)
(* The ICON call service (contracts/javascore/xcall, CallServiceImpl.java):*)
(* one contract on network Here among connections that may deliver any     *)
(* message of Wire and dapps that may call any entry point at any time.  A *)
(* failed require is a guard that is false.                                *)
(*                                                                         *)
(* As on the EVM a dapp may call the contract again while it is executed;  *)
(* frames is the stack of two-way executions under way, and the static     *)
(* fields replyState and callReply are shared by all of them.  A dapp that *)
(* fails takes back all it did, so a failing execution is one step.        *)
(***************************************************************************)
EXTENDS XcallProperties

CONSTANTS Here,        \* the network of the contract
          Wire,        \* messages that connections may deliver
          Outgoing,    \* <<type, sources, destinations>> that dapps use
          FeeValues,   \* fees that admins may set
          MsgValues,   \* values that senders may attach
          MaxDepth,    \* bound: executions inside one another
          MaxHeard     \* bound: deliveries

VARIABLES
  sn, reqId,
  rollbacks,           \* sn -> RollbackData
  proxyReqs,           \* request id -> request
  pendingReqs,         \* (request, connection), by the hash of the request
  pendingResponses,    \* (result, connection), by the hash of the result
  successfulResponses,
  defaultConnection,
  replyState,          \* request whose reply may be captured
  callReply,           \* captured reply
  frames,              \* two-way requests being executed, innermost last
  protocolFee,
  connFee,             \* what getFee of each connection returns
  balance              \* value held by the contract

\* History.
VARIABLES heard, admitted, executed, calls, rolledBack, sent

sendVars == <<sn, rollbacks, calls>>
reqVars == <<reqId, proxyReqs, admitted>>
replyVars == <<replyState, callReply, frames>>
feeVars == <<protocolFee, connFee, balance>>
pendVars == <<pendingReqs, pendingResponses, heard>>
doneVars == <<successfulResponses, executed, rolledBack>>
vars == <<sendVars, reqVars, replyVars, feeVars, pendVars, doneVars,
          defaultConnection, sent>>

Nets == Chain \ {Here}
RollbackData == [to : Nets, protocols : Protocols, enabled : BOOLEAN]

\* Assumptions on the constants.
JavaAssumption ==
  /\ Here \in Chain
  /\ Wire \subseteq CSMessage
  /\ Outgoing \subseteq MsgType \X Protocols \X Protocols
  /\ FeeValues \subseteq Nat /\ MsgValues \subseteq Nat
  /\ MaxDepth \in Nat

JavaInit ==
  /\ sn = 0 /\ reqId = 0
  /\ rollbacks = [s \in Sns |-> None]
  /\ proxyReqs = [i \in ReqIds |-> None]
  /\ pendingReqs = {} /\ pendingResponses = {} /\ successfulResponses = {}
  /\ defaultConnection = [d \in Nets |-> None]
  /\ replyState = None /\ callReply = None /\ frames = <<>>
  /\ protocolFee = 0 /\ balance = 0
  /\ connFee = [k \in Conn |-> [response \in BOOLEAN |-> 0]]
  /\ heard = {} /\ admitted = {} /\ executed = {} /\ rolledBack = {}
  /\ calls = [s \in Sns |-> None] /\ sent = {}

-----------------------------------------------------------------------------
(***************************************************************************)
(* Sending                                                                 *)
(***************************************************************************)
\* prepareProtocols.
PrepareProtocols(net, protocols) ==
  IF protocols = <<>> THEN <<defaultConnection[net]>> ELSE protocols

HasRoute(net, protocols) == None \notin Range(PrepareProtocols(net, protocols))

\* sendMessage: one message to each connection of the list.
SendMessage(net, sources, m) ==
  /\ HasRoute(net, sources)
  /\ sent' = sent \cup {[conn |-> k, net |-> net, msg |-> m] :
                           k \in Range(PrepareProtocols(net, sources))}

\* _getFee of every connection of the list; a response is free of charge.
ConnectionFees(conns, response) ==
  SumFunction([i \in DOMAIN conns |-> connFee[conns[i]][response]])

ClaimProtocolFee(funds) == funds >= protocolFee /\ balance' = 0

\* protocolEquals(a, b) runs over b: it fails to return (an index out of
\* bounds ends the transaction) if b goes on where all of a agreed.
ProtocolEquals(a, b) == \A i \in DOMAIN b : i \in DOMAIN a /\ a[i] = b[i]
Comparable(net, sources) ==
  (replyState # None /\ replyState.from = net) =>
    ~ /\ Len(replyState.protocols) < Len(sources)
      /\ ProtocolEquals(sources, replyState.protocols)

IsReply(net, sources) ==
  /\ replyState # None
  /\ replyState.from = net
  /\ ProtocolEquals(replyState.protocols, sources)

CallRequest(type, destinations) ==
  [from |-> Here, sn |-> sn + 1, type |-> type, protocols |-> destinations]

\* getNextSn and preProcessMessage: a two-way message leaves a rollback.
PreProcessMessage(to, type, sources) ==
  /\ sn + 1 \in Sns
  /\ sn' = sn + 1
  /\ IF type = TwoWay
     THEN /\ rollbacks' = [rollbacks EXCEPT ![sn + 1] =
               [to |-> to, protocols |-> sources, enabled |-> FALSE]]
          /\ calls' = [calls EXCEPT ![sn + 1] =
                         [to |-> to, protocols |-> sources]]
     ELSE UNCHANGED <<rollbacks, calls>>

\* sendCall in the reply state.
SendReply(to, type, sources, destinations, value) ==
  /\ Comparable(to, sources) /\ IsReply(to, sources) /\ type # TwoWay
  /\ PreProcessMessage(to, type, sources)
  /\ replyState' = None
  /\ callReply' = CallRequest(type, destinations)
  /\ balance' = balance + value
  /\ UNCHANGED <<reqVars, frames, protocolFee, connFee, pendVars, doneVars,
                 defaultConnection, sent>>

\* sendCall otherwise.
SendOut(to, type, sources, destinations, value) ==
  /\ Comparable(to, sources)
  /\ ~IsReply(to, sources) \/ type = TwoWay
  /\ PreProcessMessage(to, type, sources)
  /\ SendMessage(to, sources, CSRequest(CallRequest(type, destinations)))
  /\ LET fee == ConnectionFees(PrepareProtocols(to, sources), type = TwoWay)
     IN  /\ balance + value >= fee
         /\ ClaimProtocolFee(balance + value - fee)
  /\ UNCHANGED <<reqVars, replyVars, protocolFee, connFee, pendVars, doneVars,
                 defaultConnection>>

-----------------------------------------------------------------------------
(***************************************************************************)
(* Receiving                                                               *)
(***************************************************************************)
Hear(k, m) ==
  /\ Cardinality(heard) < MaxHeard
  /\ heard' = heard \cup {<<m, k>>}

\* verifyProtocols(net, protocols) called by k about x.  A list of one, or
\* the default connection, has to be the caller itself; of a longer list
\* all have to have delivered x, k just now.
Authorized(net, k, protocols) ==
  Len(protocols) > 1 \/ k \in Range(PrepareProtocols(net, protocols))
\* (mutant: the loop looks at the last protocol only)
AllDeliveredLast(pending, x, k, protocols) ==
  LET p == protocols[Len(protocols)] IN p = k \/ <<x, p>> \in pending
AllDelivered(pending, x, k, protocols) ==
  \A p \in Range(protocols) : p = k \/ <<x, p>> \in pending

VerifyProtocols(net, k, protocols, pending, x) ==
  /\ Authorized(net, k, protocols)
  /\ Len(protocols) > 1 => AllDelivered(pending, x, k, protocols)
\* ... and what it leaves of the pending set, when complete and when not.
Verified(k, protocols, pending, x) ==
  IF Len(protocols) > 1
  THEN (pending \cup {<<x, k>>}) \ {<<x, p>> : p \in Range(protocols)}
  ELSE pending
Unverified(k, protocols, pending, x) ==
  /\ Len(protocols) > 1
  /\ ~AllDelivered(pending, x, k, protocols)

NewProxyRequest(req) ==
  /\ reqId + 1 \in ReqIds
  /\ reqId' = reqId + 1
  /\ proxyReqs' = [proxyReqs EXCEPT ![reqId + 1] = req]
  /\ admitted' = admitted \cup {<<reqId + 1, req>>}

\* handleRequest, other protocols still to deliver.
HandleRequestPending(src, k, req) ==
  /\ req.from = src
  /\ Unverified(k, req.protocols, pendingReqs, req)
  /\ pendingReqs' = pendingReqs \cup {<<req, k>>}
  /\ Hear(k, CSRequest(req))
  /\ UNCHANGED <<sendVars, reqVars, replyVars, feeVars, pendingResponses,
                 doneVars, defaultConnection, sent>>

\* handleRequest, complete.
HandleRequest(src, k, req) ==
  /\ req.from = src
  /\ VerifyProtocols(src, k, req.protocols, pendingReqs, req)
  /\ pendingReqs' = Verified(k, req.protocols, pendingReqs, req)
  /\ NewProxyRequest(req)
  /\ Hear(k, CSRequest(req))
  /\ UNCHANGED <<sendVars, replyVars, feeVars, pendingResponses, doneVars,
                 defaultConnection, sent>>

\* handleResult, other protocols still to deliver this very result.
HandleResultPending(k, res) ==
  /\ rollbacks[res.sn] # None
  /\ Unverified(k, rollbacks[res.sn].protocols, pendingResponses, res)
  /\ pendingResponses' = pendingResponses \cup {<<res, k>>}
  /\ Hear(k, CSResult(res))
  /\ UNCHANGED <<sendVars, reqVars, replyVars, feeVars, pendingReqs, doneVars,
                 defaultConnection, sent>>

\* handleResult up to the switch on the code.
ResultComplete(k, res) ==
  /\ rollbacks[res.sn] # None
  /\ LET rollback == rollbacks[res.sn]
     IN  /\ VerifyProtocols(rollback.to, k, rollback.protocols,
                            pendingResponses, res)
         /\ pendingResponses' =
              Verified(k, rollback.protocols, pendingResponses, res)
  /\ Hear(k, CSResult(res))

CleanupCallRequest(s) == rollbacks' = [rollbacks EXCEPT ![s] = None]

HandleReply(rollback, reply) ==
  /\ rollback.to = reply.from
  /\ NewProxyRequest([reply EXCEPT !.protocols = rollback.protocols])

\* (mutant: the rollback stays after a success)
HandleResultSuccessKept(k, res) ==
  /\ ResultComplete(k, res)
  /\ res.code = Success
  /\ UNCHANGED rollbacks
  /\ IF res.reply = None
     THEN UNCHANGED reqVars
     ELSE HandleReply(rollbacks[res.sn], res.reply)
  /\ successfulResponses' = successfulResponses \cup {res.sn}
  /\ UNCHANGED <<sn, calls, replyVars, feeVars, pendingReqs, executed,
                 rolledBack, defaultConnection, sent>>
HandleResultSuccess(k, res) ==
  /\ ResultComplete(k, res)
  /\ res.code = Success
  /\ CleanupCallRequest(res.sn)
  /\ IF res.reply = None
     THEN UNCHANGED reqVars
     ELSE HandleReply(rollbacks[res.sn], res.reply)
  /\ successfulResponses' = successfulResponses \cup {res.sn}
  /\ UNCHANGED <<sn, calls, replyVars, feeVars, pendingReqs, executed,
                 rolledBack, defaultConnection, sent>>

HandleResultFailure(k, res) ==
  /\ ResultComplete(k, res)
  /\ res.code = Failure
  /\ rollbacks' = [rollbacks EXCEPT ![res.sn].enabled = TRUE]
  /\ UNCHANGED <<sn, calls, reqVars, replyVars, feeVars, pendingReqs,
                 doneVars, defaultConnection, sent>>

\* handleMessage.
HandleMessage(src, k, m) ==
  \/ /\ m.type = "CSMessageRequest"
     /\ \/ HandleRequestPending(src, k, m.payload)
        \/ HandleRequest(src, k, m.payload)
  \/ /\ m.type = "CSMessageResult"
     /\ \/ HandleResultPending(k, m.payload)
        \/ HandleResultSuccess(k, m.payload)
        \/ HandleResultFailure(k, m.payload)

\* handleError: a failure that the connection reports by itself.
HandleError(k, s) ==
  LET res == [sn |-> s, code |-> Failure, reply |-> None]
  IN  HandleResultPending(k, res) \/ HandleResultFailure(k, res)

-----------------------------------------------------------------------------
(***************************************************************************)
(* Executing                                                               *)
(***************************************************************************)
\* (mutant: the entry is taken out of the map itself)
TakeProxyRequestZero(id) == proxyReqs' = [i \in ReqIds \ {id} |-> proxyReqs[i]]
\* executeCall removes the request before it calls the dapp.
TakeProxyRequest(id) == proxyReqs' = [proxyReqs EXCEPT ![id] = None]

Executed(id, code) == executed' = executed \cup {<<id, proxyReqs[id], code>>}

\* A one-way message (tryExecuteCall: it is gone even when the dapp fails)
\* or a persistent one (a failing dapp reverts all).
ExecuteCall(id, code) ==
  /\ proxyReqs[id] # None
  /\ proxyReqs[id].type # TwoWay
  /\ proxyReqs[id].type = Persisted => code = Success
  /\ TakeProxyRequest(id)
  /\ Executed(id, code)
  /\ UNCHANGED <<sendVars, reqId, admitted, replyVars, feeVars, pendVars,
                 successfulResponses, rolledBack, defaultConnection, sent>>

\* executeMessage of a two-way message up to the call of a dapp that returns.
BeginTwoWay(id) ==
  /\ proxyReqs[id] # None
  /\ proxyReqs[id].type = TwoWay
  /\ HasRoute(proxyReqs[id].from, proxyReqs[id].protocols)
  /\ Len(frames) < MaxDepth
  /\ TakeProxyRequest(id)
  /\ Executed(id, Success)
  /\ replyState' = proxyReqs[id]
  /\ frames' = Append(frames, proxyReqs[id])
  /\ UNCHANGED <<sendVars, reqId, admitted, callReply, feeVars,
                 pendVars, successfulResponses, rolledBack,
                 defaultConnection, sent>>

\* (mutant: the reply is sent again with the next result)
TakeReplyNot == UNCHANGED callReply
TakeReply == callReply' = None

\* (mutant: the reply state decides which call is answered)
AnsweredRequestOfState ==
  IF replyState # None THEN replyState ELSE frames[1]
\* req, a local variable of the innermost executeMessage.
AnsweredRequest == frames[Len(frames)]

\* The rest of executeMessage, once the dapp has returned.
EndTwoWay ==
  /\ frames # <<>>
  /\ LET req == AnsweredRequest
     IN  SendMessage(req.from, req.protocols,
                     CSResult([sn |-> req.sn, code |-> Success,
                               reply |-> callReply]))
  /\ frames' = SubSeq(frames, 1, Len(frames) - 1)
  /\ replyState' = None
  /\ TakeReply
  /\ UNCHANGED <<sendVars, reqVars, feeVars, pendVars, doneVars,
                 defaultConnection>>

\* executeMessage of a two-way message whose dapp fails.
FailTwoWay(id) ==
  /\ proxyReqs[id] # None
  /\ proxyReqs[id].type = TwoWay
  /\ TakeProxyRequest(id)
  /\ Executed(id, Failure)
  /\ replyState' = None
  /\ LET req == proxyReqs[id]
     IN  SendMessage(req.from, req.protocols,
                     CSResult([sn |-> req.sn, code |-> Failure,
                               reply |-> None]))
  /\ UNCHANGED <<sendVars, reqId, admitted, callReply, frames,
                 feeVars, pendVars, successfulResponses, rolledBack,
                 defaultConnection>>

\* executeRollback: a dapp that fails reverts it, for another attempt.
ExecuteRollback(s) ==
  /\ rollbacks[s] # None
  /\ rollbacks[s].enabled
  /\ CleanupCallRequest(s)
  /\ rolledBack' = rolledBack \cup {s}
  /\ UNCHANGED <<sn, calls, reqVars, replyVars, feeVars, pendVars,
                 successfulResponses, executed, defaultConnection, sent>>

-----------------------------------------------------------------------------
(***************************************************************************)
(* Administration: of the contract and of the connections                  *)
(***************************************************************************)
SetDefaultConnection(net, k) ==
  /\ defaultConnection' = [defaultConnection EXCEPT ![net] = k]
  /\ UNCHANGED <<sendVars, reqVars, replyVars, feeVars, pendVars, doneVars,
                 sent>>

SetProtocolFee(value) ==
  /\ protocolFee' = value
  /\ UNCHANGED <<sendVars, reqVars, replyVars, connFee, balance, pendVars,
                 doneVars, defaultConnection, sent>>

\* The admin of a connection sets its fees, here one pair for all networks.
SetFee(k, messageFee, responseFee) ==
  /\ connFee' = [connFee EXCEPT ![k] = [response \in BOOLEAN |->
                    IF response THEN messageFee + responseFee ELSE messageFee]]
  /\ UNCHANGED <<sendVars, reqVars, replyVars, protocolFee, balance, pendVars,
                 doneVars, defaultConnection, sent>>

JavaNext ==
  \/ \E to \in Nets, o \in Outgoing, value \in MsgValues :
       \/ SendReply(to, o[1], o[2], o[3], value)
       \/ SendOut(to, o[1], o[2], o[3], value)
  \/ \E src \in Nets, k \in Conn, m \in Wire : HandleMessage(src, k, m)
  \/ \E k \in Conn, s \in Sns : HandleError(k, s)
  \/ \E id \in ReqIds, code \in Code : ExecuteCall(id, code)
  \/ \E id \in ReqIds : BeginTwoWay(id) \/ FailTwoWay(id)
  \/ EndTwoWay
  \/ \E s \in Sns : ExecuteRollback(s)
  \/ \E net \in Nets, k \in Conn : SetDefaultConnection(net, k)
  \/ \E value \in FeeValues : SetProtocolFee(value)
  \/ \E k \in Conn, f, g \in FeeValues : SetFee(k, f, g)

JavaSpec == JavaInit /\ [][JavaNext]_vars

-----------------------------------------------------------------------------
\* Type invariant.
TypeOK ==
  /\ sn \in 0..MaxSn /\ reqId \in 0..MaxReqId
  /\ rollbacks \in [Sns -> RollbackData \cup {None}]
  /\ proxyReqs \in [ReqIds -> Request \cup {None}]
  /\ pendingReqs \subseteq Request \X Conn
  /\ pendingResponses \subseteq Result \X Conn
  /\ successfulResponses \subseteq Sns
  /\ defaultConnection \in [Nets -> Conn \cup {None}]
  /\ {replyState, callReply} \subseteq Request \cup {None}
  /\ frames \in Seq(Request) /\ Len(frames) <= MaxDepth
  /\ protocolFee \in Nat /\ balance \in Nat
  /\ connFee \in [Conn -> [BOOLEAN -> Nat]]
  /\ heard \subseteq CSMessage \X Conn
  /\ admitted \subseteq ReqIds \X Request
  /\ executed \subseteq ReqIds \X Request \X Code
  /\ calls \in [Sns -> Call \cup {None}]
  /\ rolledBack \subseteq Sns
  /\ sent \subseteq [conn : Conn, net : Nets, msg : CSMessage]

\* A request is admitted only after every one of its protocols delivered
\* that very request, a reply only after every connection of the call delivered
\* the very result that carries it (verifyProtocols by hash), whatever accounts
\* outside the list deliver.
RequestsEndorsed == AdmissionEndorsed(heard, admitted)

\* A call settles only on one result that all its connections delivered:
\* answers that disagree are collected apart (pendingResponses by hash).
SettlementEndorsed ==
  SettledOnOneResult(heard, calls, successfulResponses, rolledBack)

\* A call is settled once, although both a success and a failure may gather
\* all their deliveries: no call both succeeds and is rolled back.
SettledOnce ==
  /\ successfulResponses \cap rolledBack = {}
  /\ \A s \in successfulResponses \cup rolledBack : rollbacks[s] = None

\* However executions nest, a request runs once, and a two-way request that
\* ran is answered with the outcome it had, over its protocols, or is still
\* under way.
ExecutedOnceAndAnswered ==
  /\ ExecutedAtMostOnce(executed)
  /\ \A x \in executed :
       /\ proxyReqs[x[1]] = None
       /\ x[2].type = TwoWay =>
         \/ x[2] \in Range(frames)
         \/ \A k \in Range(x[2].protocols) :
              \E e \in sent :
                /\ e.conn = k /\ e.net = x[2].from
                /\ e.msg.type = "CSMessageResult"
                /\ e.msg.payload.sn = x[2].sn /\ e.msg.payload.code = x[3]

\* The static fields replyState and callReply are empty whenever no two-way
\* execution is under way, and a reply travels with one result only.
RepliesStayInside ==
  /\ frames = <<>> => replyState = None /\ callReply = None
  /\ \A e, f \in sent :
       (/\ e.msg.type = "CSMessageResult" /\ e.msg.payload.reply # None
        /\ f.msg.type = "CSMessageResult"
        /\ f.msg.payload.reply = e.msg.payload.reply) =>
         (e.msg = f.msg /\ e.net = f.net)

\* (mutant: an omitted list costs nothing)
GetFeeOfList(net, response, sources) ==
  IF IsReply(net, sources) /\ ~response THEN 0
  ELSE protocolFee + ConnectionFees(sources, response)
GetFee(net, response, sources) ==
  IF IsReply(net, sources) /\ ~response THEN 0
  ELSE protocolFee + ConnectionFees(PrepareProtocols(net, sources), response)

\* The fee that getFee quotes is enough for sendCall to go through at any
\* moment and whatever list of sources, the omitted one included.
QuoteSuffices ==
  \A net \in Nets, type \in {OneWay, TwoWay}, sources \in Protocols :
    (HasRoute(net, sources) /\ Comparable(net, sources) /\ sn < MaxSn) =>
      LET value == GetFee(net, type = TwoWay, sources)
      IN  ENABLED (\/ SendReply(net, type, sources, sources, value)
                   \/ SendOut(net, type, sources, sources, value))

=============================================================================
