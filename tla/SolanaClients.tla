--------------------------- MODULE SolanaClients ----------------------------
(***************************************************************************)
(* Clients of the Solana programs: the relays of the connections and those *)
(* who execute requests and rollbacks.  An instruction on Solana must name *)
(* every account that it works on, in the order in which the program takes *)
(* them.  A client learns them from the query instructions of the          *)
(* programs, page by page, and submits its transaction later; in between,  *)
(* others use the programs and the admin of xcall may change.              *)
(*                                                                         *)
(* An address is the kind of the account with its seeds.  Where a program  *)
(* takes an optional account, the address of xcall itself stands for none. *)
(* What the client signs is left out.                                      *)
(***************************************************************************)
EXTENDS SolanaXcall

CONSTANTS ClusterConn, \* connections that check signatures of validators
          Admins,      \* who may be the admin of xcall
          Limits       \* accounts that clients take on a page

VARIABLES admin,       \* Config of xcall
          plan         \* None, or a transaction that a client prepared

clientVars == <<admin, plan>>

LOCAL Seqs == INSTANCE SequencesExt

ASSUME ClientsAssumption ==
  ClusterConn \subseteq Conn /\ Limits \subseteq 1..255

-----------------------------------------------------------------------------
(***************************************************************************)
(* Addresses                                                               *)
(***************************************************************************)
System == <<"system">>
XcallProgram == <<"xcall">>
XcallConfig == <<"config">>
Admin(a) == <<"admin", a>>
ProxyRequestOf(src, n, k) == <<"proxy", ProxySeeds(src, n, k)>>
PendingRequestOf(req) == <<"pendingRequest", req>>
PendingResponseOf(seeds) == <<"pendingResponse", seeds>>
RollbackOf(s) == <<"rollback", s>>
SuccessfulResponseOf(s) == <<"success", s>>
Connection(k) == <<"connection", k>>
ConnConfig(k) == <<"connConfig", k>>
Authority(k) == <<"authority", k>>
ReceiptOf(k, src, n) == <<"receipt", k, src, n>>
NetworkFeeOf(k, net) == <<"fee", k, net>>
Dapp == <<"dapp">>
DappConfig == <<"dappConfig">>

\* AccountMetadata.
Writable(address) == [key |-> address, writable |-> TRUE]
ReadOnly(address) == [key |-> address, writable |-> FALSE]
OrNone(needed, address) ==
  Writable(IF needed THEN address ELSE XcallProgram)

Several(protocols) == Len(protocols) > 1
Succeeds(m) == m.payload.code = Success
Replies(m) == Succeeds(m) /\ m.payload.reply # None

-----------------------------------------------------------------------------
(***************************************************************************)
(* The lists that the programs answer                                      *)
(***************************************************************************)
\* (mutant: what handle_result needs is listed only if it is reached now)
QueryHandleMessageNow(src, n, k, m, s) ==
  <<Writable(Admin(admin)), ReadOnly(XcallConfig)>> \o
  IF m.type = "CSMessageRequest"
  THEN <<Writable(XcallProgram), Writable(XcallProgram), Writable(XcallConfig),
         Writable(ProxyRequestOf(src, n, k)),
         OrNone(Several(m.payload.protocols), PendingRequestOf(m.payload))>>
  ELSE <<Writable(RollbackOf(m.payload.sn)),
         OrNone(Several(rollbacks[s].protocols),
                PendingResponseOf(MessageSeeds(m))),
         Writable(XcallConfig), Writable(RollbackOf(m.payload.sn)),
         OrNone(Replies(m), ProxyRequestOf(src, n, k)),
         OrNone(/\ Succeeds(m)
                /\ AllDelivered(pendingResponses, MessageSeeds(m), k,
                                rollbacks[s].protocols),
                SuccessfulResponseOf(m.payload.sn))>>
\* query_handle_message_accounts of xcall: the accounts are those of the number
\* in the result; s, which goes along with it, selects the rollback that is read.
QueryHandleMessage(src, n, k, m, s) ==
  <<Writable(Admin(admin)), ReadOnly(XcallConfig)>> \o
  IF m.type = "CSMessageRequest"
  THEN <<Writable(XcallProgram), Writable(XcallProgram), Writable(XcallConfig),
         Writable(ProxyRequestOf(src, n, k)),
         OrNone(Several(m.payload.protocols), PendingRequestOf(m.payload))>>
  ELSE <<Writable(RollbackOf(m.payload.sn)),
         OrNone(Several(rollbacks[s].protocols),
                PendingResponseOf(MessageSeeds(m))),
         Writable(XcallConfig), Writable(RollbackOf(m.payload.sn)),
         OrNone(Replies(m), ProxyRequestOf(src, n, k)),
         OrNone(Succeeds(m), SuccessfulResponseOf(m.payload.sn))>>

\* query_recv_message_accounts of a connection.
QueryRecvMessage(src, n, k, m, s) ==
  <<Writable(System), Writable(ConnConfig(k)), Writable(ReceiptOf(k, src, n)),
    Writable(Authority(k))>> \o QueryHandleMessage(src, n, k, m, s)

\* query_handle_error_accounts of xcall.
QueryHandleError(s) ==
  <<Writable(XcallConfig), Writable(Admin(admin)), Writable(RollbackOf(s)),
    OrNone(Several(rollbacks[s].protocols), PendingResponseOf(ErrorSeeds(s)))>>

\* query_revert_message_accounts of a connection.
QueryRevertMessage(k, s) ==
  <<Writable(System), Writable(ConnConfig(k)), Writable(Authority(k))>>
    \o QueryHandleError(s) \o <<Writable(XcallProgram)>>

\* query_send_message_accounts of a connection, asked for an answer.
QuerySendMessage(k, net) ==
  <<Writable(ConnConfig(k)), Writable(NetworkFeeOf(k, net))>>

\* query_handle_call_message_accounts of the dapp.
QueryHandleCallMessage == <<ReadOnly(System), Writable(DappConfig)>>

\* What xcall lists for a connection that an answer goes through, and for the
\* dapp.
QueryConnection(k, net) ==
  <<Writable(Connection(k))>> \o QuerySendMessage(k, net)
QueryDapp == QueryHandleCallMessage \o <<ReadOnly(Dapp)>>

\* (mutant: the accounts of the first protocol for each)
QueryConnectionsFirst(req) ==
  Seqs!FlattenSeq([i \in DOMAIN req.protocols |->
                     QueryConnection(req.protocols[1], req.from)])
QueryConnections(req) ==
  Seqs!FlattenSeq([i \in DOMAIN req.protocols |->
                     QueryConnection(req.protocols[i], req.from)])

\* query_execute_call_accounts of xcall.
QueryExecuteCall(seeds) ==
  <<ReadOnly(System), Writable(XcallConfig), Writable(Admin(admin)),
    Writable(<<"proxy", seeds>>)>>
    \o QueryConnections(proxyRequests[seeds]) \o QueryDapp

\* query_execute_rollback_accounts of xcall.
QueryExecuteRollback(s) ==
  <<ReadOnly(System), ReadOnly(XcallConfig), Writable(Admin(admin)),
    Writable(RollbackOf(s))>> \o QueryDapp

\* QueryAccountsPaginateResponse: a page, and whether another one follows.
ToIndex(list, page, limit) ==
  IF (page - 1) * limit + limit > Len(list) THEN Len(list)
                                            ELSE (page - 1) * limit + limit
Page(list, page, limit) ==
  SubSeq(list, (page - 1) * limit + 1, ToIndex(list, page, limit))
HasNextPage(list, page, limit) == Len(list) > ToIndex(list, page, limit)

\* A client asks for pages until none follows.
Collected(list, limit) ==
  LET last == CHOOSE p \in 1..(Len(list) + 1) :
                /\ ~HasNextPage(list, p, limit)
                /\ \A q \in 1..(p - 1) : HasNextPage(list, q, limit)
  IN  Seqs!FlattenSeq([p \in 1..last |-> Page(list, p, limit)])

-----------------------------------------------------------------------------
(***************************************************************************)
(* The accounts that the programs take                                     *)
(***************************************************************************)
\* Anchor: the i-th account has the address of the context, and is writable
\* where the context says mut; an optional one may be none.
Takes(list, i, address) == i \in DOMAIN list /\ list[i].key = address
TakesMut(list, i, address) == Takes(list, i, address) /\ list[i].writable
Given(list, i) == i \in DOMAIN list /\ list[i].key # XcallProgram
MayTakeMut(list, i, address) ==
  i \in DOMAIN list /\ (Given(list, i) => TakesMut(list, i, address))
RemainingAfter(list, i) == SubSeq(list, i + 1, Len(list))

\* The runtime: a program may be invoked if it is among the accounts.
Invocable(list, program) == \E i \in DOMAIN list : list[i].key = program

\* HandleRequestCtx, and what handle_request demands.
HandleRequestFits(list, src, n, k, req) ==
  /\ TakesMut(list, 1, XcallConfig)
  /\ TakesMut(list, 2, ProxyRequestOf(src, n, k))
  /\ MayTakeMut(list, 3, PendingRequestOf(req))
  /\ Several(req.protocols) => Given(list, 3)

\* HandleResultCtx, and what handle_result demands.
HandleResultFits(list, src, n, k, m, s) ==
  /\ TakesMut(list, 1, XcallConfig)
  /\ TakesMut(list, 2, RollbackOf(s))
  /\ MayTakeMut(list, 3, ProxyRequestOf(src, n, k))
  /\ MayTakeMut(list, 4, SuccessfulResponseOf(s))
  /\ Given(list, 3) <=> Replies(m)
  /\ Given(list, 4) <=> Succeeds(m)

\* HandleMessageCtx, and what handle_message demands: it invokes xcall again
\* with the accounts that remain, for a result once all connections delivered.
HandleMessageFits(list, src, n, k, m, s) ==
  LET remaining == RemainingAfter(list, 4)
  IN  /\ TakesMut(list, 1, Admin(admin))
      /\ Takes(list, 2, XcallConfig)
      /\ Given(list, 3) =>
           Takes(list, 3, RollbackOf(s)) /\ s \in DOMAIN rollbacks
      /\ MayTakeMut(list, 4, PendingResponseOf(MessageSeeds(m)))
      /\ \/ /\ m.type = "CSMessageRequest"
            /\ ~Given(list, 4)
            /\ Invocable(list, XcallProgram)
            /\ HandleRequestFits(remaining, src, n, k, m.payload)
         \/ /\ m.type = "CSMessageResult"
            /\ Given(list, 3)
            /\ Several(rollbacks[s].protocols) => Given(list, 4)
            /\ AllDelivered(pendingResponses, MessageSeeds(m), k,
                            rollbacks[s].protocols) =>
                 /\ Invocable(list, XcallProgram)
                 /\ HandleResultFits(remaining, src, n, k, m, s)

\* get_nid of a cluster connection takes the second of the accounts for xcall
\* to be the configuration of xcall.
GetNidFits(list) == Takes(list, 2, XcallConfig)

\* recv_message of a connection.
RecvMessageFits(list, src, n, k, m, s) ==
  /\ Takes(list, 1, System)
  /\ TakesMut(list, 2, ConnConfig(k))
  /\ TakesMut(list, 3, ReceiptOf(k, src, n))
  /\ Takes(list, 4, Authority(k))
  /\ k \in ClusterConn => GetNidFits(RemainingAfter(list, 4))
  /\ Invocable(list, XcallProgram)
  /\ HandleMessageFits(RemainingAfter(list, 4), src, n, k, m, s)

\* HandleErrorCtx, and what handle_error demands.
HandleErrorFits(list, s) ==
  /\ Takes(list, 1, XcallConfig)
  /\ TakesMut(list, 2, Admin(admin))
  /\ TakesMut(list, 3, RollbackOf(s)) /\ s \in DOMAIN rollbacks
  /\ MayTakeMut(list, 4, PendingResponseOf(ErrorSeeds(s)))
  /\ Several(rollbacks[s].protocols) => Given(list, 4)

\* revert_message of a connection.
RevertMessageFits(list, k, s) ==
  /\ Takes(list, 1, System)
  /\ TakesMut(list, 2, ConnConfig(k))
  /\ Takes(list, 3, Authority(k))
  /\ Invocable(list, XcallProgram)
  /\ HandleErrorFits(RemainingAfter(list, 3), s)

\* HandleCallMessageCtx of the dapp, without those that xcall puts first.
HandleCallMessageFits(list) ==
  Takes(list, 1, System) /\ TakesMut(list, 2, DappConfig)

\* The dapp is invoked with the accounts that remain.
InvokeHandleCallMessageFits(list, remaining) ==
  Invocable(list, Dapp) /\ HandleCallMessageFits(remaining)

\* The connections that call_connection_send_message finds, each before its
\* configuration and its fee for the network of the request.
ConnectionsIn(list, count) ==
  [i \in 1..count |->
     CHOOSE k \in Conn : Takes(list, 3 * i - 2, Connection(k))]
ConnectionFits(list, i, net, protocols) ==
  \E k \in Range(protocols) :
    /\ Takes(list, 3 * i - 2, Connection(k))
    /\ TakesMut(list, 3 * i - 1, ConnConfig(k))
    /\ Takes(list, 3 * i, NetworkFeeOf(k, net))

\* execute_call: the accounts for the connections come first, whether or not
\* the request is to be answered.
ExecuteCallFits(list, seeds) ==
  /\ Takes(list, 1, System) /\ Takes(list, 2, XcallConfig)
  /\ TakesMut(list, 3, Admin(admin))
  /\ TakesMut(list, 4, <<"proxy", seeds>>) /\ seeds \in DOMAIN proxyRequests
  /\ LET req == proxyRequests[seeds]
         remaining == RemainingAfter(list, 4)
     IN  /\ InvokeHandleCallMessageFits(
               list, RemainingAfter(remaining, 3 * Len(req.protocols)))
         /\ req.type = TwoWay =>
              \A i \in DOMAIN req.protocols :
                ConnectionFits(remaining, i, req.from, req.protocols)

\* execute_rollback.
ExecuteRollbackFits(list, s) ==
  /\ Takes(list, 1, System) /\ Takes(list, 2, XcallConfig)
  /\ TakesMut(list, 3, Admin(admin))
  /\ TakesMut(list, 4, RollbackOf(s)) /\ s \in DOMAIN rollbacks
  /\ InvokeHandleCallMessageFits(list, RemainingAfter(list, 4))

-----------------------------------------------------------------------------
(***************************************************************************)
(* Clients prepare transactions and submit them                            *)
(***************************************************************************)
Prepare(op, list) ==
  /\ plan = None
  /\ \E limit \in Limits :
       plan' = [op |-> op, list |-> Collected(list, limit), admin |-> admin]
  /\ UNCHANGED <<vars, admin>>

RecvOp(src, n, k, m, s) ==
  [kind |-> "recv", src |-> src, n |-> n, k |-> k, m |-> m, s |-> s]
RevertOp(k, s) == [kind |-> "revert", k |-> k, s |-> s]
CallOp(seeds) == [kind |-> "call", seeds |-> seeds]
RollbackOp(s) == [kind |-> "rollback", s |-> s]

\* The account that the query reads is there.
Standing(op) ==
  CASE op.kind = "recv" -> op.m.type = "CSMessageResult" =>
                             op.s \in DOMAIN rollbacks
    [] op.kind \in {"revert", "rollback"} -> op.s \in DOMAIN rollbacks
    [] op.kind = "call" -> op.seeds \in DOMAIN proxyRequests

\* The transaction fits the accounts as they are now.
Fits(op, list) ==
  CASE op.kind = "recv" -> RecvMessageFits(list, op.src, op.n, op.k, op.m,
                                           op.s)
    [] op.kind = "revert" -> RevertMessageFits(list, op.k, op.s)
    [] op.kind = "call" -> ExecuteCallFits(list, op.seeds)
    [] op.kind = "rollback" -> ExecuteRollbackFits(list, op.s)

PrepareSome ==
  \/ \E src \in Nets, n \in ConnSns, k \in Conn, m \in Wire, s \in Sns :
       /\ Standing(RecvOp(src, n, k, m, s))
       /\ Prepare(RecvOp(src, n, k, m, s), QueryRecvMessage(src, n, k, m, s))
  \/ \E k \in Conn, s \in DOMAIN rollbacks :
       Prepare(RevertOp(k, s), QueryRevertMessage(k, s))
  \/ \E seeds \in DOMAIN proxyRequests :
       Prepare(CallOp(seeds), QueryExecuteCall(seeds))
  \/ \E s \in DOMAIN rollbacks :
       Prepare(RollbackOp(s), QueryExecuteRollback(s))

Submit(kind) ==
  /\ plan # None
  /\ plan.op.kind = kind
  /\ Fits(plan.op, plan.list)
  /\ plan' = None
  /\ UNCHANGED admin

SubmitRecv ==
  /\ Submit("recv")
  /\ RecvMessage(plan.op.src, plan.op.n, plan.op.k, plan.op.m, plan.op.s)

SubmitRevert == Submit("revert") /\ RevertMessage(plan.op.k, plan.op.s)

\* The answer goes out through the connections that the list names.
SubmitCall(success) ==
  /\ Submit("call")
  /\ \/ ExecuteOneWay(plan.op.seeds, success)
     \/ ExecuteTwoWay(plan.op.seeds, success,
          ConnectionsIn(RemainingAfter(plan.list, 4),
                        Len(proxyRequests[plan.op.seeds].protocols)))

SubmitRollback == Submit("rollback") /\ ExecuteRollback(plan.op.s)

\* The client gives up, maybe because the transaction failed.
Abandon ==
  /\ plan # None
  /\ plan' = None
  /\ UNCHANGED <<vars, admin>>

\* set_admin of xcall.
SetAdmin(a) ==
  /\ admin' = a
  /\ UNCHANGED <<vars, plan>>

ClientsInit == SolanaInit /\ admin \in Admins /\ plan = None

ClientsNext ==
  \/ SolanaNext /\ UNCHANGED clientVars
  \/ PrepareSome
  \/ SubmitRecv
  \/ SubmitRevert
  \/ \E success \in BOOLEAN : SubmitCall(success)
  \/ SubmitRollback
  \/ Abandon
  \/ \E a \in Admins : SetAdmin(a)

ClientsSpec == ClientsInit /\ [][ClientsNext]_<<vars, clientVars>>

-----------------------------------------------------------------------------
\* A result with a reply that comes over several connections: every optional
\* account is needed, so that xcall itself is not among the accounts listed.
ReplyOverSeveral(op) ==
  /\ op.kind = "recv"
  /\ op.m.type = "CSMessageResult"
  /\ Replies(op.m) /\ Several(rollbacks[op.s].protocols)

\* A result comes with the number of the call that it answers.
NamesItsCall(op) ==
  op.kind = "recv" /\ op.m.type = "CSMessageResult" => op.s = op.m.payload.sn

\* The answer of a request would go out over every one of its protocols.
AnswersOverAll(op, list) ==
  op.kind = "call" =>
    LET protocols == proxyRequests[op.seeds].protocols
    IN  Range(ConnectionsIn(RemainingAfter(list, 4), Len(protocols)))
          = Range(protocols)

\* A list of accounts that the programs answered fits its instruction whenever
\* it is submitted, whatever others delivered, reverted or executed since,
\* unless the admin of xcall changed or the account in question is gone: what
\* the query instructions list is what the contexts and handlers demand, also
\* if this delivery now is the one that completes the message (which it was
\* not when the client asked), and what call_connection_send_message finds
\* there are all the protocols.  It is about relays that bring a result under its
\* own number.  Excepted is a reply over several connections.
PlansStayGood ==
  (/\ plan # None
   /\ plan.admin = admin
   /\ Standing(plan.op)
   /\ NamesItsCall(plan.op)
   /\ ~ReplyOverSeveral(plan.op)) =>
     Fits(plan.op, plan.list) /\ AnswersOverAll(plan.op, plan.list)

-----------------------------------------------------------------------------
(***************************************************************************)
(* The instance for TLC: a centralized connection k1, a cluster k2.        *)
(***************************************************************************)
CONSTANTS b, k1, k2

Both == <<k1, k2>>
OneOrBoth == {<<k1>>, <<k2>>, Both}
SendsTwoWay == {<<TwoWay, p, Both>> : p \in OneOrBoth}

Req(type, protocols) ==
  [from |-> b, sn |-> 1, type |-> type, protocols |-> protocols]
Res(code, reply) == CSResult([sn |-> 1, code |-> code, reply |-> reply])

\* Requests with and without answer, results of all kinds.
ClientWire ==
  {CSRequest(Req(OneWay, <<k1>>)), CSRequest(Req(TwoWay, Both)),
   Res(Success, None), Res(Success, Req(OneWay, <<>>)), Res(Failure, None)}

=============================================================================
