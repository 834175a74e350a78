------------------------------ MODULE SuiXcall ------------------------------
(***************************************************************************)
(* The Sui call service (contracts/sui/xcall, main.move, xcall_state.move):*)
(* one shared Storage object on network Here, connections Conn whose caps  *)
(* may deliver any message of Wire, and dapps.  An abort is a guard that   *)
(* is false.                                                               *)
(*                                                                         *)
(* Sui has no call backs: a dapp takes a ticket for a request or for a     *)
(* rollback, works, and reports the outcome, all in one transaction that   *)
(* may make any other call in between.  A ticket for a request can only be *)
(* consumed by reporting; a ticket for a rollback may be dropped.  While   *)
(* tickets are out a transaction is under way: its steps count only if it  *)
(* comes to an end (a transaction that cannot is aborted as a whole), so   *)
(* that the properties speak of the states in which none is under way.     *)
(***************************************************************************)
EXTENDS XcallProperties

CONSTANTS Here,        \* the network of the contract
          Wire,        \* messages that connections may deliver
          Outgoing,    \* <<type, sources, destinations>> that dapps use
          FeeValues,   \* fees that admins may set
          CoinValues,  \* coins that senders may attach
          MaxTickets,  \* bound: tickets out at a time
          MaxHeard     \* bound: deliveries

VARIABLES
  sn, reqId,
  rollbacks,             \* sn -> RollbackData
  proxyReqs,             \* request id -> request
  pendingReqs,           \* (request, connection), by the hash of the request
  pendingResponses,      \* (result, connection), by the hash of the result
  successfulResponses,
  connections,           \* network -> default connection
  replyState, callReply,
  tickets,               \* ids of the requests whose tickets are out
  rollbackTickets,       \* sns of the rollbacks whose tickets are out
  protocolFee,
  connFee                \* what get_fee of each connection returns

(* History; handed counts the tickets handed out for each request.         *)
VARIABLES heard, admitted, executed, calls, rolledBack, sent, handed

sendVars == <<sn, rollbacks, calls>>
reqVars == <<reqId, proxyReqs, admitted>>
replyVars == <<replyState, callReply>>
ticketVars == <<tickets, rollbackTickets, handed>>
feeVars == <<protocolFee, connFee>>
pendVars == <<pendingReqs, pendingResponses, heard>>
doneVars == <<successfulResponses, executed, rolledBack>>
vars == <<sendVars, reqVars, replyVars, ticketVars, feeVars, pendVars,
          doneVars, connections, sent>>

Nets == Chain \ {Here}
RollbackData == [to : Nets, sources : Protocols, enabled : BOOLEAN]

\* What the proofs assume of the constants.
SuiAssumption ==
  /\ Here \in Chain
  /\ Wire \subseteq CSMessage
  /\ Outgoing \subseteq MsgType \X Protocols \X Protocols
  /\ FeeValues \subseteq Nat
  /\ MaxTickets \in Nat

SuiInit ==
  /\ sn = 0 /\ reqId = 0
  /\ rollbacks = [s \in Sns |-> None]
  /\ proxyReqs = [i \in ReqIds |-> None]
  /\ pendingReqs = {} /\ pendingResponses = {} /\ successfulResponses = {}
  /\ connections = [d \in Nets |-> None]
  /\ replyState = None /\ callReply = None
  /\ tickets = <<>> /\ rollbackTickets = {}
  /\ protocolFee = 0
  /\ connFee = [k \in Conn |-> [response \in BOOLEAN |-> 0]]
  /\ heard = {} /\ admitted = {} /\ executed = {} /\ rolledBack = {}
  /\ calls = [s \in Sns |-> None] /\ sent = {}
  /\ handed = [i \in ReqIds |-> 0]

InTransaction == tickets # <<>> \/ rollbackTickets # {}

\* Rollback tickets that are left are dropped at the end.
EndTransaction ==
  /\ tickets = <<>> /\ rollbackTickets # {}
  /\ rollbackTickets' = {}
  /\ UNCHANGED <<sendVars, reqVars, replyVars, tickets, handed, feeVars,
                 pendVars, doneVars, connections, sent>>

-----------------------------------------------------------------------------
(***************************************************************************)
(* Sending                                                                 *)
(***************************************************************************)
Route(net, sources) ==
  IF sources = <<>> THEN <<connections[net]>> ELSE sources
HasRoute(net, sources) == None \notin Range(Route(net, sources))

ConnectionFees(conns, response) ==
  SumFunction([i \in DOMAIN conns |-> connFee[conns[i]][response]])

\* connection_send_message, but for the fees.
ConnectionSendMessage(net, sources, m) ==
  /\ HasRoute(net, sources)
  /\ sent' = sent \cup {[conn |-> k, net |-> net, msg |-> m] :
                           k \in Range(Route(net, sources))}

IsReply(net, sources) ==
  /\ replyState # None
  /\ replyState.from = net
  /\ replyState.protocols = sources

\* (mutant: an omitted list costs nothing)
GetFeeOfList(net, rollback, sources) ==
  IF IsReply(net, Route(net, sources)) /\ ~rollback
  THEN 0
  ELSE protocolFee + ConnectionFees(sources, rollback)
\* get_fee looks for a reply after it has put in the default connection.
GetFee(net, rollback, sources) ==
  IF IsReply(net, Route(net, sources)) /\ ~rollback
  THEN 0
  ELSE protocolFee + ConnectionFees(Route(net, sources), rollback)

CallRequest(type, destinations) ==
  [from |-> Here, sn |-> sn + 1, type |-> type, protocols |-> destinations]

\* send_call_inner up to the encoding: a two-way message leaves a rollback.
AddRollback(to, type, sources) ==
  /\ sn + 1 \in Sns
  /\ sn' = sn + 1
  /\ IF type = TwoWay
     THEN /\ rollbacks' = [rollbacks EXCEPT ![sn + 1] =
               [to |-> to, sources |-> sources, enabled |-> FALSE]]
          /\ calls' = [calls EXCEPT ![sn + 1] =
                         [to |-> to, protocols |-> sources]]
     ELSE UNCHANGED <<rollbacks, calls>>

\* send_call in the reply state, whatever the type of the message; the
\* protocol fee is taken all the same.
SendReply(to, type, sources, destinations, coin) ==
  /\ IsReply(to, sources)
  /\ AddRollback(to, type, sources)
  /\ replyState' = None
  /\ callReply' = CallRequest(type, destinations)
  /\ coin >= protocolFee
  /\ UNCHANGED <<reqVars, ticketVars, feeVars, pendVars, doneVars,
                 connections, sent>>

\* send_call otherwise; what is left of the coin is returned.
SendOut(to, type, sources, destinations, coin) ==
  /\ ~IsReply(to, sources)
  /\ AddRollback(to, type, sources)
  /\ ConnectionSendMessage(to, sources,
                           CSRequest(CallRequest(type, destinations)))
  /\ coin >= ConnectionFees(Route(to, sources), type = TwoWay) + protocolFee
  /\ UNCHANGED <<reqVars, replyVars, ticketVars, feeVars, pendVars, doneVars,
                 connections>>

-----------------------------------------------------------------------------
(***************************************************************************)
(* Receiving                                                               *)
(***************************************************************************)
Hear(k, m) ==
  /\ Cardinality(heard) < MaxHeard
  /\ heard' = heard \cup {<<m, k>>}

\* is_valid_source.
IsValidSource(net, k, protocols) ==
  \/ k \in Range(protocols)
  \/ protocols = <<>> /\ connections[net] = k

\* save_pending_*: a map refuses a key that it holds already.
SavePending(pending, x, k) == <<x, k>> \notin pending

\* (mutant: the first protocol of the list is not looked at)
CheckPendingRest(pending, x, k, protocols) ==
  \A i \in 2..Len(protocols) :
    protocols[i] = k \/ <<x, protocols[i]>> \in pending
\* check_pending_*.
CheckPending(pending, x, k, protocols) ==
  \A i \in DOMAIN protocols :
    protocols[i] = k \/ <<x, protocols[i]>> \in pending

\* remove_pending_*: a list that repeats a protocol removes a key that is
\* gone, and aborts.
Removable(protocols) == IsInjective(protocols)
RemovePending(pending, x, protocols) ==
  pending \ {<<x, p>> : p \in Range(protocols)}

\* The delivery leaves x incomplete ...
Incomplete(pending, x, k, protocols) ==
  /\ Len(protocols) > 1
  /\ SavePending(pending, x, k)
  /\ ~CheckPending(pending, x, k, protocols)
\* ... or completes it.
Completed(pending, x, k, protocols) ==
  Len(protocols) > 1 =>
    /\ SavePending(pending, x, k)
    /\ CheckPending(pending, x, k, protocols)
    /\ Removable(protocols)

AddProxyRequest(req) ==
  /\ reqId + 1 \in ReqIds
  /\ reqId' = reqId + 1
  /\ proxyReqs' = [proxyReqs EXCEPT ![reqId + 1] = req]
  /\ admitted' = admitted \cup {<<reqId + 1, req>>}

\* handle_request, other protocols still to deliver.
HandleRequestPending(src, k, req) ==
  /\ req.from = src
  /\ IsValidSource(src, k, req.protocols)
  /\ Incomplete(pendingReqs, req, k, req.protocols)
  /\ pendingReqs' = pendingReqs \cup {<<req, k>>}
  /\ Hear(k, CSRequest(req))
  /\ UNCHANGED <<sendVars, reqVars, replyVars, ticketVars, feeVars,
                 pendingResponses, doneVars, connections, sent>>

\* handle_request, complete.
HandleRequest(src, k, req) ==
  /\ req.from = src
  /\ IsValidSource(src, k, req.protocols)
  /\ Completed(pendingReqs, req, k, req.protocols)
  /\ pendingReqs' = RemovePending(pendingReqs, req, req.protocols)
  /\ AddProxyRequest(req)
  /\ Hear(k, CSRequest(req))
  /\ UNCHANGED <<sendVars, replyVars, ticketVars, feeVars, pendingResponses,
                 doneVars, connections, sent>>

ResultValid(k, res) ==
  /\ rollbacks[res.sn] # None
  /\ IsValidSource(rollbacks[res.sn].to, k, rollbacks[res.sn].sources)

\* handle_result, other connections still to deliver this very result.
HandleResultPending(k, res) ==
  /\ ResultValid(k, res)
  /\ Incomplete(pendingResponses, res, k, rollbacks[res.sn].sources)
  /\ pendingResponses' = pendingResponses \cup {<<res, k>>}
  /\ Hear(k, CSResult(res))
  /\ UNCHANGED <<sendVars, reqVars, replyVars, ticketVars, feeVars,
                 pendingReqs, doneVars, connections, sent>>

\* handle_result up to the test of the code.
ResultComplete(k, res) ==
  /\ ResultValid(k, res)
  /\ Completed(pendingResponses, res, k, rollbacks[res.sn].sources)
  /\ pendingResponses' =
       RemovePending(pendingResponses, res, rollbacks[res.sn].sources)
  /\ Hear(k, CSResult(res))

HandleReply(rollback, reply) ==
  /\ rollback.to = reply.from
  /\ AddProxyRequest([reply EXCEPT !.protocols = rollback.sources])

\* (mutant: removing what is gone goes through)
RemoveRollbackAny(s) == rollbacks' = [rollbacks EXCEPT ![s] = None]
\* remove_rollback: a table aborts if the key is missing.
RemoveRollback(s) ==
  /\ rollbacks[s] # None
  /\ rollbacks' = [rollbacks EXCEPT ![s] = None]

HandleResultSuccess(k, res) ==
  /\ ResultComplete(k, res)
  /\ res.code = Success
  /\ RemoveRollback(res.sn)
  /\ IF res.reply = None
     THEN UNCHANGED reqVars
     ELSE HandleReply(rollbacks[res.sn], res.reply)
  /\ successfulResponses' = successfulResponses \cup {res.sn}
  /\ UNCHANGED <<sn, calls, replyVars, ticketVars, feeVars, pendingReqs,
                 executed, rolledBack, connections, sent>>

HandleResultFailure(k, res) ==
  /\ ResultComplete(k, res)
  /\ res.code = Failure
  /\ rollbacks' = [rollbacks EXCEPT ![res.sn].enabled = TRUE]
  /\ UNCHANGED <<sn, calls, reqVars, replyVars, ticketVars, feeVars,
                 pendingReqs, doneVars, connections, sent>>

HandleMessage(src, k, m) ==
  \/ /\ m.type = "CSMessageRequest"
     /\ \/ HandleRequestPending(src, k, m.payload)
        \/ HandleRequest(src, k, m.payload)
  \/ /\ m.type = "CSMessageResult"
     /\ \/ HandleResultPending(k, m.payload)
        \/ HandleResultSuccess(k, m.payload)
        \/ HandleResultFailure(k, m.payload)

-----------------------------------------------------------------------------
(***************************************************************************)
(* Executing                                                               *)
(***************************************************************************)
\* execute_call: the dapp takes a ticket; the request stays.
ExecuteCall(id) ==
  /\ proxyReqs[id] # None
  /\ Len(tickets) < MaxTickets
  /\ tickets' = Append(tickets, id)
  /\ handed' = [handed EXCEPT ![id] = @ + 1]
  /\ replyState' = IF proxyReqs[id].type = TwoWay
                   THEN proxyReqs[id] ELSE replyState
  /\ UNCHANGED <<sendVars, reqVars, callReply, rollbackTickets, feeVars,
                 pendVars, doneVars, connections, sent>>

\* (mutant: the request stays after its execution)
RemoveProxyRequestNot(id) == UNCHANGED proxyReqs
RemoveProxyRequest(id) == proxyReqs' = [proxyReqs EXCEPT ![id] = None]

\* (mutant: the reply state stays)
RemoveReplyStateNot == UNCHANGED replyState
RemoveReplyState == replyState' = None

\* The result of a two-way message: a reply goes along with a success, and
\* stays behind otherwise.
SendResult(req, code) ==
  LET reply == IF code = Success THEN callReply ELSE None
  IN  /\ ConnectionSendMessage(req.from, req.protocols,
           CSResult([sn |-> req.sn, code |-> code, reply |-> reply]))
      /\ callReply' = IF code = Success THEN None ELSE callReply

\* A sequence without its i-th element.
RemoveAt(s, i) == SubSeq(s, 1, i - 1) \o SubSeq(s, i + 1, Len(s))

\* execute_call_result with the i-th of the tickets.
ExecuteCallResult(i, code) ==
  /\ i \in DOMAIN tickets
  /\ LET id == tickets[i]
         req == proxyReqs[id]
     IN  /\ req # None
         /\ req.type = Persisted => code = Success
         /\ RemoveProxyRequest(id)
         /\ executed' = executed \cup {<<id, req, code>>}
         /\ IF req.type = TwoWay
            THEN SendResult(req, code)
            ELSE UNCHANGED <<callReply, sent>>
  /\ tickets' = RemoveAt(tickets, i)
  /\ RemoveReplyState
  /\ UNCHANGED <<sendVars, reqId, admitted, rollbackTickets, handed, feeVars,
                 pendVars, successfulResponses, rolledBack, connections>>

ExecuteRollback(s) ==
  /\ rollbacks[s] # None
  /\ rollbacks[s].enabled
  /\ rollbackTickets' = rollbackTickets \cup {s}
  /\ UNCHANGED <<sendVars, reqVars, replyVars, tickets, handed, feeVars,
                 pendVars, doneVars, connections, sent>>

\* execute_rollback_result: a rollback that failed may be tried again.
ExecuteRollbackResult(s, success) ==
  /\ s \in rollbackTickets
  /\ rollbackTickets' = rollbackTickets \ {s}
  /\ IF success
     THEN RemoveRollback(s) /\ rolledBack' = rolledBack \cup {s}
     ELSE UNCHANGED <<rollbacks, rolledBack>>
  /\ UNCHANGED <<sn, calls, reqVars, replyVars, tickets, handed, feeVars,
                 pendVars, successfulResponses, executed, connections, sent>>

-----------------------------------------------------------------------------
(***************************************************************************)
(* Administration: of the contract and of the connections                  *)
(***************************************************************************)
SetDefaultConnection(net, k) ==
  /\ connections' = [connections EXCEPT ![net] = k]
  /\ UNCHANGED <<sendVars, reqVars, replyVars, ticketVars, feeVars, pendVars,
                 doneVars, sent>>

SetProtocolFee(value) ==
  /\ protocolFee' = value
  /\ UNCHANGED <<sendVars, reqVars, replyVars, ticketVars, connFee, pendVars,
                 doneVars, connections, sent>>

SetFee(k, messageFee, responseFee) ==
  /\ connFee' = [connFee EXCEPT ![k] = [response \in BOOLEAN |->
                    IF response THEN messageFee + responseFee ELSE messageFee]]
  /\ UNCHANGED <<sendVars, reqVars, replyVars, ticketVars, protocolFee,
                 pendVars, doneVars, connections, sent>>

SuiNext ==
  \/ \E to \in Nets, o \in Outgoing, coin \in CoinValues :
       \/ SendReply(to, o[1], o[2], o[3], coin)
       \/ SendOut(to, o[1], o[2], o[3], coin)
  \/ \E src \in Nets, k \in Conn, m \in Wire : HandleMessage(src, k, m)
  \/ \E id \in ReqIds : ExecuteCall(id)
  \/ \E i \in 1..MaxTickets, code \in Code : ExecuteCallResult(i, code)
  \/ \E s \in Sns : ExecuteRollback(s)
  \/ \E s \in Sns, success \in BOOLEAN : ExecuteRollbackResult(s, success)
  \/ EndTransaction
  \/ \E net \in Nets, k \in Conn : SetDefaultConnection(net, k)
  \/ \E value \in FeeValues : SetProtocolFee(value)
  \/ \E k \in Conn, f, g \in FeeValues : SetFee(k, f, g)

SuiSpec == SuiInit /\ [][SuiNext]_vars

-----------------------------------------------------------------------------
\* Type invariant; numbers and ids in use were handed out.
TypeOK ==
  /\ sn \in 0..MaxSn /\ reqId \in 0..MaxReqId
  /\ rollbacks \in [Sns -> RollbackData \cup {None}]
  /\ \A s \in Sns : rollbacks[s] # None => s <= sn
  /\ proxyReqs \in [ReqIds -> Request \cup {None}]
  /\ \A id \in ReqIds : proxyReqs[id] # None => id <= reqId
  /\ pendingReqs \subseteq Request \X Conn
  /\ pendingResponses \subseteq Result \X Conn
  /\ successfulResponses \subseteq 1..sn /\ rollbackTickets \subseteq 1..sn
  /\ connections \in [Nets -> Conn \cup {None}]
  /\ {replyState, callReply} \subseteq Request \cup {None}
  /\ tickets \in Seq(1..reqId) /\ Len(tickets) <= MaxTickets
  /\ protocolFee \in Nat /\ connFee \in [Conn -> [BOOLEAN -> Nat]]
  /\ heard \subseteq CSMessage \X Conn
  /\ admitted \subseteq (1..reqId) \X Request
  /\ executed \subseteq (1..reqId) \X Request \X Code
  /\ calls \in [Sns -> Call \cup {None}]
  /\ rolledBack \subseteq 1..sn
  /\ handed \in [ReqIds -> Nat]

\* A request is admitted only after every one of its protocols delivered that
\* very request, a reply only after every connection of the call delivered the
\* result that carries it (handle_request, handle_result).
RequestsEndorsed == AdmissionEndorsed(heard, admitted)

\* A call settles only on one result that all its connections delivered.
SettlementEndorsed ==
  InTransaction \/ SettledOnOneResult(heard, calls, successfulResponses,
                                      rolledBack)

\* Although a rollback ticket may be out when the success arrives in the same
\* transaction, no transaction that ends leaves a call both succeeded and
\* rolled back, or a settled call with a rollback.
SettledOnce ==
  \/ InTransaction
  \/ /\ successfulResponses \cap rolledBack = {}
     /\ \A s \in successfulResponses \cup rolledBack : rollbacks[s] = None

\* Although execute_call leaves the request in place, so that two tickets for
\* it may be out, no transaction that ends has handed out more than one: the
\* dapp ran once, and a two-way request is answered with the outcome reported,
\* over its protocols.
ExecutedOnceAndAnswered ==
  \/ InTransaction
  \/ /\ ExecutedAtMostOnce(executed)
     /\ \A id \in ReqIds :
          handed[id] = IF \E x \in executed : x[1] = id THEN 1 ELSE 0
     /\ \A x \in executed :
          /\ proxyReqs[x[1]] = None
          /\ x[2].type = TwoWay =>
             \A k \in Range(x[2].protocols) :
               \E e \in sent :
                 /\ e.conn = k /\ e.net = x[2].from
                 /\ e.msg.type = "CSMessageResult"
                 /\ e.msg.payload.sn = x[2].sn /\ e.msg.payload.code = x[3]

\* No transaction ends in the reply state of a request that is no more.
ReplyStateCleared == InTransaction \/ replyState = None

\* The fee that get_fee quotes is enough for send_call to go through, whatever
\* the sources and the reply state.
QuoteSuffices ==
  \A net \in Nets, type \in {OneWay, TwoWay}, sources \in Protocols :
    (HasRoute(net, sources) /\ sn < MaxSn) =>
      LET coin == GetFee(net, type = TwoWay, sources)
      IN  ENABLED (\/ SendReply(net, type, sources, sources, coin)
                   \/ SendOut(net, type, sources, sources, coin))

\* At least outside of executions the quoted fee is always enough.
QuoteSufficesOutside == InTransaction \/ QuoteSuffices

=============================================================================
