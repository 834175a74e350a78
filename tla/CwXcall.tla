------------------------------ MODULE CwXcall ------------------------------
(***************************************************************************)
(* The CosmWasm call service (contracts/cosmwasm-vm/cw-xcall) deployed on  *)
(* every chain of Chain.  Each variable is a function of the chain whose   *)
(* contract owns it, each action is one transaction (or one call inside a  *)
(* transaction) on one chain c.  A call that returns an error reverts the  *)
(* transaction, so an error path is a guard that is false.                 *)
(*                                                                         *)
(* The specification is open: HandleMessage and HandleError accept any     *)
(* message from any connection contract, as the entry points do.  CwSystem *)
(* closes it with the connection contracts and the relayers.               *)
(*                                                                         *)
(* Fees only decide whether send_call reverts and are left out; so are     *)
(* message sizes and the roles of admin and fee handler.                   *)
(***************************************************************************)
EXTENDS XcallMessages

ASSUME CountingAssumption == Countable

VARIABLES
  sn,                  \* last sequence number handed out
  lastRequestId,       \* last request id handed out
  callRequests,        \* sn -> Rollback, while the call is not settled
  proxyRequest,        \* request id -> Request, until it is executed
  pendingRequests,     \* (request, connection) deliveries being collected
  pendingResponses,    \* (result, connection) deliveries being collected
  successfulResponses, \* sns whose call was answered with success
  executeRequestId,    \* request id being executed, 0 outside execute_call
  callReply,           \* reply captured during the current execution
  defaultConnections   \* network -> default connection

stateVars == <<sn, lastRequestId, callRequests, proxyRequest, pendingRequests,
               pendingResponses, successfulResponses, executeRequestId,
               callReply, defaultConnections>>

(***************************************************************************)
(* History variables: what happened, which the contract does not remember. *)
(***************************************************************************)
VARIABLES
  heard,      \* (message, connection) deliveries the contract accepted
  admitted,   \* (request id, request) pairs that became proxy requests
  executed,   \* (request id, request, code) of every finished execution
  calls,      \* sn -> [to, protocols] of every two-way call sent
  rolledBack  \* sns whose rollback was executed

history == <<heard, admitted, executed, calls, rolledBack>>
xcallVars == <<stateVars, history>>

XcallInit ==
  /\ sn = [c \in Chain |-> 0]
  /\ lastRequestId = [c \in Chain |-> 0]
  /\ callRequests = [c \in Chain |-> [s \in Sns |-> None]]
  /\ proxyRequest = [c \in Chain |-> [i \in ReqIds |-> None]]
  /\ pendingRequests = [c \in Chain |-> {}]
  /\ pendingResponses = [c \in Chain |-> {}]
  /\ successfulResponses = [c \in Chain |-> {}]
  /\ executeRequestId = [c \in Chain |-> 0]
  /\ callReply = [c \in Chain |-> None]
  /\ defaultConnections = [c \in Chain |-> [d \in Chain |-> None]]
  /\ heard = [c \in Chain |-> {}]
  /\ admitted = [c \in Chain |-> {}]
  /\ executed = [c \in Chain |-> {}]
  /\ calls = [c \in Chain |-> [s \in Sns |-> None]]
  /\ rolledBack = [c \in Chain |-> {}]

-----------------------------------------------------------------------------
(***************************************************************************)
(* Sending                                                                 *)
(***************************************************************************)

NextSn(c) == sn[c] + 1

\* The request that the next send_call on c with these arguments builds.
CallRequest(c, type, destinations) ==
  [from |-> c, sn |-> NextSn(c), type |-> type, protocols |-> destinations]

\* The connections used for a list that may be empty: the list itself, or
\* the default connection of the network.
Confirmed(c, nid, protocols) ==
  IF protocols = <<>> THEN <<defaultConnections[c][nid]>> ELSE protocols

HasRoute(c, nid, protocols) == None \notin Range(Confirmed(c, nid, protocols))

AreEqual(protocols, sources) ==
  /\ Len(protocols) = Len(sources)
  /\ Range(protocols) \subseteq Range(sources)

\* Is a message to network nid over sources the reply of the call being
\* executed?  The type of that call plays no part.
IsReply(c, nid, sources) ==
  /\ callReply[c] = None
  /\ executeRequestId[c] # 0
  /\ LET request == proxyRequest[c][executeRequestId[c]]
     IN  request.from = nid /\ AreEqual(request.protocols, sources)

\* The part of send_call that every message goes through.
StoreCall(c, to, type, sources) ==
  /\ NextSn(c) \in Sns
  /\ sn' = [sn EXCEPT ![c] = NextSn(c)]
  /\ IF type = TwoWay
     THEN /\ callRequests' =
               [callRequests EXCEPT ![c][NextSn(c)] =
                  [to |-> to, protocols |-> sources, enabled |-> FALSE]]
          /\ calls' = [calls EXCEPT ![c][NextSn(c)] =
                         [to |-> to, protocols |-> sources]]
     ELSE UNCHANGED <<callRequests, calls>>
  /\ UNCHANGED <<lastRequestId, proxyRequest, pendingRequests,
                 pendingResponses, successfulResponses, executeRequestId,
                 defaultConnections, heard, admitted, executed, rolledBack>>

\* send_call in the reply state: the message is kept and nothing is sent.
SendReply(c, to, type, sources, destinations) ==
  /\ type # TwoWay
  /\ IsReply(c, to, sources)
  /\ StoreCall(c, to, type, sources)
  /\ callReply' = [callReply EXCEPT ![c] = CallRequest(c, type, destinations)]

\* send_call otherwise: CallRequest goes to every connection of Confirmed.
SendCall(c, to, type, sources, destinations) ==
  /\ type = TwoWay \/ ~IsReply(c, to, sources)
  /\ HasRoute(c, to, sources)
  /\ StoreCall(c, to, type, sources)
  /\ UNCHANGED callReply

-----------------------------------------------------------------------------
(***************************************************************************)
(* Receiving.  A connection delivers in a transaction of its own, so none  *)
(* arrives while c executes a call.                                        *)
(***************************************************************************)

\* (mutant: an empty list accepts every connection)
IsValidSourceAny(c, nid, conn, protocols) ==
  protocols = <<>> \/ conn \in Range(protocols)
IsValidSource(c, nid, conn, protocols) ==
  conn \in Range(Confirmed(c, nid, protocols))

\* The connections that have delivered message m once conn delivers it too.
Registered(pending, m, conn) ==
  {k \in Conn : <<m, k>> \in pending} \cup {conn}

\* (mutant: one delivery too few)
CompleteEarly(pending, m, conn, protocols) ==
  Len(protocols) > 1 =>
    Cardinality(Registered(pending, m, conn)) >= Len(protocols) - 1
\* More than one protocol: all of them must deliver, compared by count.
Complete(pending, m, conn, protocols) ==
  Len(protocols) > 1 =>
    Cardinality(Registered(pending, m, conn)) = Len(protocols)

Hear(c, conn, m) == heard' = [heard EXCEPT ![c] = @ \cup {<<m, conn>>}]

\* (mutant: the id is not handed out)
StoreProxyRequestSameId(c, req) ==
  LET id == lastRequestId[c] + 1
  IN  /\ id \in ReqIds
      /\ proxyRequest' = [proxyRequest EXCEPT ![c][id] = req]
      /\ admitted' = [admitted EXCEPT ![c] = @ \cup {<<id, req>>}]
      /\ UNCHANGED lastRequestId
\* A new proxy request under the next request id.
StoreProxyRequest(c, req) ==
  LET id == lastRequestId[c] + 1
  IN  /\ id \in ReqIds
      /\ lastRequestId' = [lastRequestId EXCEPT ![c] = id]
      /\ proxyRequest' = [proxyRequest EXCEPT ![c][id] = req]
      /\ admitted' = [admitted EXCEPT ![c] = @ \cup {<<id, req>>}]

RequestAccepted(c, src, conn, req) ==
  /\ req.from = src
  /\ IsValidSource(c, src, conn, req.protocols)
  /\ Hear(c, conn, CSRequest(req))

\* handle_request, other protocols still to deliver.
HandleRequestPending(c, src, conn, req) ==
  /\ RequestAccepted(c, src, conn, req)
  /\ ~Complete(pendingRequests[c], req, conn, req.protocols)
  /\ pendingRequests' = [pendingRequests EXCEPT ![c] = @ \cup {<<req, conn>>}]
  /\ UNCHANGED <<sn, lastRequestId, callRequests, proxyRequest,
                 pendingResponses, successfulResponses, executeRequestId,
                 callReply, defaultConnections, admitted, executed, calls,
                 rolledBack>>

\* handle_request, last delivery.
HandleRequest(c, src, conn, req) ==
  /\ RequestAccepted(c, src, conn, req)
  /\ Complete(pendingRequests[c], req, conn, req.protocols)
  /\ pendingRequests' = [pendingRequests EXCEPT ![c] =
                           IF Len(req.protocols) > 1
                           THEN {p \in @ : p[1] # req} ELSE @]
  /\ StoreProxyRequest(c, req)
  /\ UNCHANGED <<sn, callRequests, pendingResponses, successfulResponses,
                 executeRequestId, callReply, defaultConnections, executed,
                 calls, rolledBack>>

ResultAccepted(c, conn, res) ==
  /\ callRequests[c][res.sn] # None
  /\ IsValidSource(c, callRequests[c][res.sn].to, conn,
                   callRequests[c][res.sn].protocols)
  /\ Hear(c, conn, CSResult(res))

\* (mutant: deliveries are collected by sequence number, not by hash)
ResultCompleteBySn(c, conn, res) ==
  LET delivered == {k \in Conn : \E p \in pendingResponses[c] :
                                   p[1].sn = res.sn /\ p[2] = k}
  IN  Cardinality(delivered \cup {conn}) =
        Len(callRequests[c][res.sn].protocols)
ResultComplete(c, conn, res) ==
  Complete(pendingResponses[c], res, conn, callRequests[c][res.sn].protocols)

\* (mutant: the delivery is not stored)
SavePendingResponseNot(c, conn, res) == UNCHANGED pendingResponses
\* save_pending_responses.  remove_pending_responses_by_hash ends in
\* remove_by_prefix, which removes the keys from pending_requests whatever
\* map it is given, so the entries stay once the result is complete.
SavePendingResponse(c, conn, res) ==
  pendingResponses' = [pendingResponses EXCEPT ![c] =
                         IF Len(callRequests[c][res.sn].protocols) > 1
                         THEN @ \cup {<<res, conn>>} ELSE @]

\* handle_result, other protocols still to deliver.
HandleResultPending(c, conn, res) ==
  /\ ResultAccepted(c, conn, res)
  /\ ~ResultComplete(c, conn, res)
  /\ SavePendingResponse(c, conn, res)
  /\ UNCHANGED <<sn, lastRequestId, callRequests, proxyRequest,
                 pendingRequests, successfulResponses, executeRequestId,
                 callReply, defaultConnections, admitted, executed, calls,
                 rolledBack>>

\* (mutant: the rollback stays)
CleanupRequestNot(c, s) == UNCHANGED callRequests
CleanupRequest(c, s) ==
  callRequests' = [callRequests EXCEPT ![c][s] = None]

\* (mutant: every result counts as a success)
IsSuccessAlways(res) == TRUE
IsSuccess(res) == res.code = Success

\* handle_reply: the reply of a call becomes a proxy request of its sender,
\* under the protocols of the call.
HandleReply(c, rollback, reply) ==
  /\ rollback.to = reply.from
  /\ StoreProxyRequest(c, [reply EXCEPT !.protocols = rollback.protocols])

\* handle_result, last delivery of a success.
HandleResultSuccess(c, conn, res) ==
  /\ ResultAccepted(c, conn, res)
  /\ ResultComplete(c, conn, res)
  /\ IsSuccess(res)
  /\ SavePendingResponse(c, conn, res)
  /\ CleanupRequest(c, res.sn)
  /\ successfulResponses' = [successfulResponses EXCEPT ![c] = @ \cup {res.sn}]
  /\ IF res.reply = None
     THEN UNCHANGED <<lastRequestId, proxyRequest, admitted>>
     ELSE HandleReply(c, callRequests[c][res.sn], res.reply)
  /\ UNCHANGED <<sn, pendingRequests, executeRequestId, callReply,
                 defaultConnections, executed, calls, rolledBack>>

\* handle_result, last delivery of a failure: the rollback is enabled.
HandleResultFailure(c, conn, res) ==
  /\ ResultAccepted(c, conn, res)
  /\ ResultComplete(c, conn, res)
  /\ ~IsSuccess(res)
  /\ SavePendingResponse(c, conn, res)
  /\ callRequests' = [callRequests EXCEPT ![c][res.sn].enabled = TRUE]
  /\ UNCHANGED <<sn, lastRequestId, proxyRequest, pendingRequests,
                 successfulResponses, executeRequestId, callReply,
                 defaultConnections, admitted, executed, calls, rolledBack>>

HandleResult(c, conn, res) ==
  \/ HandleResultPending(c, conn, res)
  \/ HandleResultSuccess(c, conn, res)
  \/ HandleResultFailure(c, conn, res)

\* handle_message: a connection delivers m, sent from network src.
HandleMessage(c, src, conn, m) ==
  /\ src # c
  /\ \/ /\ m.type = "CSMessageRequest"
        /\ \/ HandleRequestPending(c, src, conn, m.payload)
           \/ HandleRequest(c, src, conn, m.payload)
     \/ /\ m.type = "CSMessageResult"
        /\ HandleResult(c, conn, m.payload)

ErrorResult(s) == [sn |-> s, code |-> Failure, reply |-> None]

\* handle_error: a connection reports that message s could not be delivered.
\* It is handle_result of a failure, hence without the outcome of a success.
HandleError(c, conn, s) ==
  \/ HandleResultPending(c, conn, ErrorResult(s))
  \/ HandleResultFailure(c, conn, ErrorResult(s))

-----------------------------------------------------------------------------
(***************************************************************************)
(* Executing.  execute_call runs the dapp as a submessage and goes on in   *)
(* execute_call_reply, in one transaction.  When the dapp fails, all that  *)
(* it did is undone, so the failing execution is one step; a succeeding    *)
(* one is a step that starts it, the calls the dapp makes to send_call or  *)
(* execute_rollback, and a step that ends it.                              *)
(***************************************************************************)

NeedResponse(req) == req.type = TwoWay

\* The result can be sent: otherwise the whole transaction reverts.
CanRespond(c, req) ==
  NeedResponse(req) => HasRoute(c, req.from, req.protocols)

\* execute_call; CallAlreadyInProgress when an execution is under way.
ExecuteCall(c, id) ==
  /\ executeRequestId[c] = 0
  /\ proxyRequest[c][id] # None
  /\ CanRespond(c, proxyRequest[c][id])
  /\ executeRequestId' = [executeRequestId EXCEPT ![c] = id]
  /\ UNCHANGED <<sn, lastRequestId, callRequests, proxyRequest,
                 pendingRequests, pendingResponses, successfulResponses,
                 callReply, defaultConnections, history>>

\* (mutant: the request stays)
RemoveProxyRequestNot(c, id) == UNCHANGED proxyRequest
RemoveProxyRequest(c, id) ==
  proxyRequest' = [proxyRequest EXCEPT ![c][id] = None]

\* (mutant: the reply is read but not removed)
PopCallReplyNot(c) == UNCHANGED callReply
PopCallReply(c) == callReply' = [callReply EXCEPT ![c] = None]

\* execute_call_reply with the given code, for request id.
FinishCall(c, id, code) ==
  /\ executeRequestId' = [executeRequestId EXCEPT ![c] = 0]
  /\ RemoveProxyRequest(c, id)
  /\ PopCallReply(c)
  /\ executed' = [executed EXCEPT ![c] =
                                @ \cup {<<id, proxyRequest[c][id], code>>}]
  /\ UNCHANGED <<sn, lastRequestId, callRequests, pendingRequests,
                 pendingResponses, successfulResponses, defaultConnections,
                 heard, admitted, calls, rolledBack>>

\* The dapp returned.
ExecuteCallReplyOk(c) ==
  /\ executeRequestId[c] # 0
  /\ FinishCall(c, executeRequestId[c], Success)

\* The dapp failed: for a persisted message the transaction reverts.
ExecuteCallReplyErr(c, id) ==
  /\ executeRequestId[c] = 0
  /\ proxyRequest[c][id] # None
  /\ CanRespond(c, proxyRequest[c][id])
  /\ proxyRequest[c][id].type # Persisted
  /\ FinishCall(c, id, Failure)

\* The result that execute_call_reply sends for a two-way request.
OkResult(c) ==
  [sn |-> proxyRequest[c][executeRequestId[c]].sn, code |-> Success,
   reply |-> callReply[c]]
ErrResult(c, id) ==
  [sn |-> proxyRequest[c][id].sn, code |-> Failure, reply |-> None]

\* (mutant: any stored rollback may run)
RollbackEnabledAlways(c, s) == callRequests[c][s] # None
RollbackEnabled(c, s) ==
  callRequests[c][s] # None /\ callRequests[c][s].enabled

\* execute_rollback: a failing dapp reverts the transaction.
ExecuteRollback(c, s) ==
  /\ RollbackEnabled(c, s)
  /\ CleanupRequest(c, s)
  /\ rolledBack' = [rolledBack EXCEPT ![c] = @ \cup {s}]
  /\ UNCHANGED <<sn, lastRequestId, proxyRequest, pendingRequests,
                 pendingResponses, successfulResponses, executeRequestId,
                 callReply, defaultConnections, heard, admitted, executed,
                 calls>>

\* (mutant: the arguments are swapped)
SetDefaultConnectionSwapped(c, nid, conn) ==
  /\ defaultConnections' = [defaultConnections EXCEPT ![c][nid] = nid]
  /\ UNCHANGED <<sn, lastRequestId, callRequests, proxyRequest,
                 pendingRequests, pendingResponses, successfulResponses,
                 executeRequestId, callReply, history>>
SetDefaultConnection(c, nid, conn) ==
  /\ defaultConnections' = [defaultConnections EXCEPT ![c][nid] = conn]
  /\ UNCHANGED <<sn, lastRequestId, callRequests, proxyRequest,
                 pendingRequests, pendingResponses, successfulResponses,
                 executeRequestId, callReply, history>>

-----------------------------------------------------------------------------
XcallNext ==
  \E c \in Chain :
    \/ \E to \in Chain \ {c}, type \in MsgType, src, dst \in Protocols :
         \/ SendReply(c, to, type, src, dst)
         \/ SendCall(c, to, type, src, dst)
    \/ \E src \in Chain, k \in Conn, m \in CSMessage :
         HandleMessage(c, src, k, m)
    \/ \E k \in Conn, s \in Sns : HandleError(c, k, s)
    \/ \E id \in ReqIds : ExecuteCall(c, id)
    \/ ExecuteCallReplyOk(c)
    \/ \E id \in ReqIds : ExecuteCallReplyErr(c, id)
    \/ \E s \in Sns : ExecuteRollback(c, s)
    \/ \E nid \in Chain, k \in Conn : SetDefaultConnection(c, nid, k)

XcallSpec == XcallInit /\ [][XcallNext]_xcallVars

-----------------------------------------------------------------------------
\* Type invariant.
XcallTypeOK ==
  /\ sn \in [Chain -> 0..MaxSn]
  /\ lastRequestId \in [Chain -> 0..MaxReqId]
  /\ callRequests \in [Chain -> [Sns -> Rollback \cup {None}]]
  /\ proxyRequest \in [Chain -> [ReqIds -> Request \cup {None}]]
  /\ pendingRequests \in [Chain -> SUBSET (Request \X Conn)]
  /\ pendingResponses \in [Chain -> SUBSET (Result \X Conn)]
  /\ successfulResponses \in [Chain -> SUBSET Sns]
  /\ executeRequestId \in [Chain -> 0..MaxReqId]
  /\ callReply \in [Chain -> Request \cup {None}]
  /\ defaultConnections \in [Chain -> [Chain -> Conn \cup {None}]]
  /\ heard \in [Chain -> SUBSET (CSMessage \X Conn)]
  /\ admitted \in [Chain -> SUBSET (ReqIds \X Request)]
  /\ executed \in [Chain -> SUBSET (ReqIds \X Request \X Code)]
  /\ calls \in [Chain -> [Sns -> Call \cup {None}]]
  /\ rolledBack \in [Chain -> SUBSET Sns]

\* Every connection of the list delivered m (some connection did, if the
\* list is empty and the default connection stands for it).
Endorsed(c, m, protocols) ==
  IF protocols = <<>>
  THEN \E k \in Conn : <<m, k>> \in heard[c]
  ELSE \A k \in Range(protocols) : <<m, k>> \in heard[c]

SuccessResult(s, reply) == [sn |-> s, code |-> Success, reply |-> reply]
FailureResult(s, reply) == [sn |-> s, code |-> Failure, reply |-> reply]

\* A request becomes executable only after every one of its protocols
\* delivered that very request, or, for a reply, after every protocol of the
\* call delivered the success that carries it: handle_request and
\* handle_result count deliveries, whatever other messages connections
\* deliver in between, repeat or invent.
RequestsEndorsed ==
  \A c \in Chain : \A a \in admitted[c] :
    LET req == a[2]
    IN  \/ Endorsed(c, CSRequest(req), req.protocols)
        \/ \E s \in Sns, dst \in Protocols :
             LET reply == [req EXCEPT !.protocols = dst]
             IN  Endorsed(c, CSResult(SuccessResult(s, reply)), req.protocols)

\* A call is marked successful, or its rollback runs, only after every
\* connection it was sent over delivered one and the same result with that
\* code: deliveries of a success and of a failure (handle_error included)
\* are never added up.
SettlementEndorsed ==
  \A c \in Chain : \A s \in Sns :
    /\ s \in successfulResponses[c] =>
         \E reply \in Request \cup {None} :
           Endorsed(c, CSResult(SuccessResult(s, reply)), calls[c][s].protocols)
    /\ s \in rolledBack[c] =>
         \E reply \in Request \cup {None} :
           Endorsed(c, CSResult(FailureResult(s, reply)), calls[c][s].protocols)

\* A call is settled at most once: what is still stored was neither marked
\* successful nor rolled back, and no call is both, even when a late success
\* races execute_rollback or a connection reverts a message that arrives.
SettledOnce ==
  \A c \in Chain :
    /\ successfulResponses[c] \cap rolledBack[c] = {}
    /\ \A s \in successfulResponses[c] \cup rolledBack[c] :
         callRequests[c][s] = None

\* A request id is executed at most once and with one outcome, and a request
\* that is still stored was not executed (execute_call_reply removes it even
\* when the dapp failed).
ExecutedOnce ==
  \A c \in Chain : \A x \in executed[c] :
    /\ proxyRequest[c][x[1]] = None
    /\ \A y \in executed[c] : x[1] = y[1] => x = y

-----------------------------------------------------------------------------
(***************************************************************************)
(* The inductive invariant behind the four properties: what the contract's *)
(* state says about its history.                                           *)
(***************************************************************************)

\* A stored rollback is that of a call that was sent, unchanged but for its
\* flag, and the flag is set only after an endorsed failure.
RollbacksOfCalls ==
  \A c \in Chain : \A s \in Sns : callRequests[c][s] # None =>
    /\ calls[c][s] # None
    /\ callRequests[c][s].to = calls[c][s].to
    /\ callRequests[c][s].protocols = calls[c][s].protocols
    /\ callRequests[c][s].enabled =>
         \E reply \in Request \cup {None} :
           Endorsed(c, CSResult(FailureResult(s, reply)), calls[c][s].protocols)

\* Sequence numbers are used once; only calls that were sent are settled.
CallsBySn ==
  \A c \in Chain : \A s \in Sns :
    /\ calls[c][s] # None => s <= sn[c]
    /\ s \in successfulResponses[c] \cup rolledBack[c] => calls[c][s] # None

\* Collected deliveries took place, and come from connections of the list.
PendingHeard ==
  \A c \in Chain :
    /\ \A p \in pendingRequests[c] :
         p[2] \in Range(p[1].protocols) /\ <<CSRequest(p[1]), p[2]>> \in heard[c]
    /\ \A p \in pendingResponses[c] :
         /\ calls[c][p[1].sn] # None
         /\ p[2] \in Range(calls[c][p[1].sn].protocols)
         /\ <<CSResult(p[1]), p[2]>> \in heard[c]

\* Request ids are used once; the request being executed is stored.
RequestsById ==
  \A c \in Chain :
    /\ \A id \in ReqIds : proxyRequest[c][id] # None => id <= lastRequestId[c]
    /\ \A x \in executed[c] : x[1] <= lastRequestId[c]
    /\ executeRequestId[c] # 0 => proxyRequest[c][executeRequestId[c]] # None

XcallInv ==
  /\ XcallTypeOK
  /\ RollbacksOfCalls
  /\ CallsBySn
  /\ PendingHeard
  /\ RequestsById
  /\ RequestsEndorsed
  /\ SettlementEndorsed
  /\ SettledOnce
  /\ ExecutedOnce

=============================================================================
