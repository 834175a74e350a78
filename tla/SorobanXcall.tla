---------------------------- MODULE SorobanXcall ----------------------------
(***************************************************************************)
(* The Stellar call service (contracts/soroban/contracts/xcall): one       *)
(* contract on network Here among connections that may deliver any message *)
(* of Wire.  Stellar lets nobody call back into a contract that is being   *)
(* executed, so an execution is one step and there is no reply state.      *)
(*                                                                         *)
(* Rollbacks, requests and partial deliveries live in temporary storage:   *)
(* every entry has a time to live, storing it anew extends that time, and  *)
(* an entry whose time is over is gone.  A map of temporary entries is a   *)
(* function whose domain are the keys still present, a value has the       *)
(* remaining time in its field ttl.  Senders of two-way calls are          *)
(* contracts (is_contract); data and rollback sizes are left out.          *)
(***************************************************************************)
EXTENDS XcallProperties, FiniteSetsExt

CONSTANTS Here,             \* the network of the contract
          Wire,             \* messages that connections may deliver
          Outgoing,         \* <<type, sources, destinations>> that dapps use
          FeeValues,        \* fees that admins may set
          DAY_IN_LEDGERS,   \* ticks of the clock in a day
          MaxHeard          \* bound: deliveries

VARIABLES
  sn, reqId,
  rollbacks,             \* sn -> rollback, temporary
  proxyRequests,         \* request id -> request, temporary
  pendingRequests,       \* request -> set of connections, temporary
  pendingResponses,      \* result -> set of connections, temporary
  successfulResponses,   \* persistent
  defaultConnection,     \* instance
  protocolFee,           \* instance
  connFee                \* what get_fee of each connection returns

(* History; enabledFor and admittedFor count the time since a rollback was *)
(* enabled and since a request was admitted, up to the threshold; paid is  *)
(* what the origin of each call was charged, quoted what get_fee asked for.*)
VARIABLES heard, admitted, executed, calls, rolledBack, sent,
          enabledFor, admittedFor, paid, quoted

sendVars == <<sn, calls, paid, quoted>>
reqVars == <<reqId, proxyRequests, admitted, admittedFor>>
feeVars == <<protocolFee, connFee>>
pendVars == <<pendingRequests, pendingResponses, heard>>
doneVars == <<successfulResponses, executed, rolledBack>>
rollVars == <<rollbacks, enabledFor>>
vars == <<sendVars, reqVars, feeVars, pendVars, doneVars, rollVars,
          defaultConnection, sent>>

Nets == Chain \ {Here}
RollbackData == [to : Nets, protocols : Protocols, enabled : BOOLEAN]
Empty == [x \in {} |-> None]

\* What the proofs assume of the constants.
SorobanAssumption ==
  /\ Here \in Chain
  /\ Wire \subseteq CSMessage
  /\ Outgoing \subseteq MsgType \X Protocols \X Protocols
  /\ FeeValues \subseteq Nat
  /\ DAY_IN_LEDGERS \in Nat \ {0}
  /\ Countable

-----------------------------------------------------------------------------
(***************************************************************************)
(* Temporary storage                                                       *)
(***************************************************************************)
LEDGER_THRESHOLD_REQUEST == DAY_IN_LEDGERS * 3
\* (mutant: the bump alone, without the threshold)
LedgerBumpDay == DAY_IN_LEDGERS
LEDGER_BUMP_REQUEST == LEDGER_THRESHOLD_REQUEST + DAY_IN_LEDGERS

\* (mutant: the time of an entry is extended when it is created only)
ExtendOnCreate(map, key) ==
  IF key \in DOMAIN map THEN map[key].ttl ELSE LEDGER_BUMP_REQUEST
\* extend_temporary_request: nothing if more than the threshold remains; an
\* entry just created has less.
Extend(map, key) ==
  IF key \in DOMAIN map /\ map[key].ttl > LEDGER_THRESHOLD_REQUEST
  THEN map[key].ttl
  ELSE LEDGER_BUMP_REQUEST

Store(map, key, value) ==
  [x \in DOMAIN map \cup {key} |->
     IF x = key THEN [val |-> value, ttl |-> Extend(map, key)] ELSE map[x]]
Without(map, key) == [x \in DOMAIN map \ {key} |-> map[x]]

\* What is left of a map when a tick has passed.
Aged(map) ==
  [x \in {y \in DOMAIN map : map[y].ttl > 1} |->
     [map[x] EXCEPT !.ttl = @ - 1]]

GetRollback(s) == rollbacks[s].val

SorobanInit ==
  /\ sn = 0 /\ reqId = 0
  /\ rollbacks = Empty /\ proxyRequests = Empty
  /\ pendingRequests = Empty /\ pendingResponses = Empty
  /\ successfulResponses = {}
  /\ defaultConnection = [d \in Nets |-> None]
  /\ protocolFee = 0
  /\ connFee = [k \in Conn |-> [response \in BOOLEAN |-> 0]]
  /\ heard = {} /\ admitted = {} /\ executed = {} /\ rolledBack = {}
  /\ calls = [s \in Sns |-> None] /\ sent = {}
  /\ enabledFor = Empty /\ admittedFor = Empty
  /\ paid = Empty /\ quoted = Empty

-----------------------------------------------------------------------------
(***************************************************************************)
(* Sending                                                                 *)
(***************************************************************************)
Route(net, protocols) ==
  IF protocols = <<>> THEN <<defaultConnection[net]>> ELSE protocols
HasRoute(net, protocols) == None \notin Range(Route(net, protocols))

\* get_total_fee.
GetTotalFee(net, sources, rollback) ==
  LET conns == Route(net, sources)
  IN  protocolFee
        + SumFunction([i \in DOMAIN conns |-> connFee[conns[i]][rollback]])

\* What a connection takes from the sender of a message: nothing for a response,
\* the fee of the response too if sn is positive.
ConnectionCharge(k, s) == IF s >= 0 THEN connFee[k][s > 0] ELSE 0

\* (mutant: the sequence number goes along with every message)
ConnectionSnAlways(rollback) == sn + 1
\* call_connection passes no sequence number if no response is needed.
ConnectionSn(rollback) == IF rollback THEN sn + 1 ELSE 0

\* send_message of every connection of the list.
CallConnection(net, sources, m) ==
  /\ HasRoute(net, sources)
  /\ sent' = sent \cup {[conn |-> k, net |-> net, msg |-> m] :
                           k \in Range(Route(net, sources))}

\* call_connection and claim_protocol_fee take their fees from tx_origin.
ChargeOrigin(net, sources, rollback) ==
  LET conns == Route(net, sources)
  IN  paid' = [s \in DOMAIN paid \cup {sn + 1} |->
        IF s # sn + 1 THEN paid[s]
        ELSE protocolFee
               + SumFunction([i \in DOMAIN conns |->
                    ConnectionCharge(conns[i], ConnectionSn(rollback))])]

\* process_message.
ProcessMessage(to, type, sources) ==
  IF type = TwoWay
  THEN /\ rollbacks' = Store(rollbacks, sn + 1,
            [to |-> to, protocols |-> sources, enabled |-> FALSE])
       /\ calls' = [calls EXCEPT ![sn + 1] =
                      [to |-> to, protocols |-> sources]]
  ELSE UNCHANGED <<rollbacks, calls>>

CallRequest(type, destinations) ==
  [from |-> Here, sn |-> sn + 1, type |-> type, protocols |-> destinations]

SendCall(to, type, sources, destinations) ==
  /\ sn + 1 \in Sns
  /\ sn' = sn + 1
  /\ ProcessMessage(to, type, sources)
  /\ CallConnection(to, sources, CSRequest(CallRequest(type, destinations)))
  /\ ChargeOrigin(to, sources, type = TwoWay)
  /\ quoted' = [s \in DOMAIN quoted \cup {sn + 1} |->
       IF s = sn + 1 THEN GetTotalFee(to, sources, type = TwoWay)
       ELSE quoted[s]]
  /\ UNCHANGED <<reqVars, feeVars, pendVars, doneVars, enabledFor,
                 defaultConnection>>

-----------------------------------------------------------------------------
(***************************************************************************)
(* Receiving                                                               *)
(***************************************************************************)
Hear(k, m) ==
  /\ Cardinality(heard) < MaxHeard
  /\ heard' = heard \cup {<<m, k>>}

\* is_valid_source.
IsValidSource(k, net, protocols) ==
  \/ k \in Range(protocols)
  \/ protocols = <<>> /\ defaultConnection[net] = k

\* The connections that have delivered x, k included.
Sources(pending, x, k) ==
  (IF x \in DOMAIN pending THEN pending[x].val ELSE {}) \cup {k}

\* (mutant: as soon as all but one delivered)
CompleteEarly(pending, x, k, protocols) ==
  Cardinality(Sources(pending, x, k)) + 1 >= Len(protocols)
\* The number of connections is compared with the length of the list, which
\* a list that repeats a connection never meets.
Complete(pending, x, k, protocols) ==
  Len(protocols) > 1 => Cardinality(Sources(pending, x, k)) = Len(protocols)

\* What is stored of a delivery that leaves x incomplete: nothing, not even
\* more time, if k delivered it before.
StorePending(pending, x, k) ==
  IF x \in DOMAIN pending /\ k \in pending[x].val
  THEN pending
  ELSE Store(pending, x, Sources(pending, x, k))

NewProxyRequest(req) ==
  /\ reqId + 1 \in ReqIds
  /\ reqId' = reqId + 1
  /\ proxyRequests' = Store(proxyRequests, reqId + 1, req)
  /\ admitted' = admitted \cup {<<reqId + 1, req>>}
  /\ admittedFor' = [i \in 1..(reqId + 1) |->
                       IF i = reqId + 1 THEN 0 ELSE admittedFor[i]]

RequestValid(src, k, req) ==
  req.from = src /\ IsValidSource(k, src, req.protocols)

\* handle_request, other protocols still to deliver.
HandleRequestPending(src, k, req) ==
  /\ RequestValid(src, k, req)
  /\ ~Complete(pendingRequests, req, k, req.protocols)
  /\ pendingRequests' = StorePending(pendingRequests, req, k)
  /\ Hear(k, CSRequest(req))
  /\ UNCHANGED <<sendVars, reqVars, feeVars, pendingResponses, doneVars,
                 rollVars, defaultConnection, sent>>

\* handle_request, complete.
HandleRequest(src, k, req) ==
  /\ RequestValid(src, k, req)
  /\ Complete(pendingRequests, req, k, req.protocols)
  /\ pendingRequests' = Without(pendingRequests, req)
  /\ NewProxyRequest(req)
  /\ Hear(k, CSRequest(req))
  /\ UNCHANGED <<sendVars, feeVars, pendingResponses, doneVars, rollVars,
                 defaultConnection, sent>>

ResultValid(k, res) ==
  /\ res.sn \in DOMAIN rollbacks
  /\ IsValidSource(k, GetRollback(res.sn).to, GetRollback(res.sn).protocols)

\* handle_result, other connections still to deliver this very result.
HandleResultPending(k, res) ==
  /\ ResultValid(k, res)
  /\ ~Complete(pendingResponses, res, k, GetRollback(res.sn).protocols)
  /\ pendingResponses' = StorePending(pendingResponses, res, k)
  /\ Hear(k, CSResult(res))
  /\ UNCHANGED <<sendVars, reqVars, feeVars, pendingRequests, doneVars,
                 rollVars, defaultConnection, sent>>

\* handle_result up to the match on the code.
ResultComplete(k, res) ==
  /\ ResultValid(k, res)
  /\ Complete(pendingResponses, res, k, GetRollback(res.sn).protocols)
  /\ pendingResponses' = Without(pendingResponses, res)
  /\ Hear(k, CSResult(res))

HandleReply(rollback, reply) ==
  /\ rollback.to = reply.from
  /\ NewProxyRequest([reply EXCEPT !.protocols = rollback.protocols])

\* (mutant: the rollback stays after a success)
RemoveRollbackNot(s) == UNCHANGED rollbacks
RemoveRollback(s) == rollbacks' = Without(rollbacks, s)

HandleResultSuccess(k, res) ==
  /\ ResultComplete(k, res)
  /\ res.code = Success
  /\ RemoveRollback(res.sn)
  /\ IF res.reply = None
     THEN UNCHANGED reqVars
     ELSE HandleReply(GetRollback(res.sn), res.reply)
  /\ successfulResponses' = successfulResponses \cup {res.sn}
  /\ UNCHANGED <<sendVars, feeVars, pendingRequests, executed, rolledBack,
                 enabledFor, defaultConnection, sent>>

HandleResultFailure(k, res) ==
  /\ ResultComplete(k, res)
  /\ res.code = Failure
  /\ rollbacks' = Store(rollbacks, res.sn,
                        [GetRollback(res.sn) EXCEPT !.enabled = TRUE])
  /\ enabledFor' = [s \in DOMAIN enabledFor \cup {res.sn} |->
                      IF s = res.sn THEN 0 ELSE enabledFor[s]]
  /\ UNCHANGED <<sendVars, reqVars, feeVars, pendingRequests, doneVars,
                 defaultConnection, sent>>

HandleMessage(src, k, m) ==
  \/ /\ m.type = "CSMessageRequest"
     /\ \/ HandleRequestPending(src, k, m.payload)
        \/ HandleRequest(src, k, m.payload)
  \/ /\ m.type = "CSMessageResult"
     /\ \/ HandleResultPending(k, m.payload)
        \/ HandleResultSuccess(k, m.payload)
        \/ HandleResultFailure(k, m.payload)

HandleError(k, s) ==
  LET res == [sn |-> s, code |-> Failure, reply |-> None]
  IN  HandleResultPending(k, res) \/ HandleResultFailure(k, res)

-----------------------------------------------------------------------------
(***************************************************************************)
(* Executing                                                               *)
(***************************************************************************)
\* execute_message removes the request and calls the dapp; a persistent
\* message is gone only if its dapp succeeds.
TakeProxyRequest(id, code) ==
  /\ id \in DOMAIN proxyRequests
  /\ proxyRequests' = Without(proxyRequests, id)
  /\ executed' = executed \cup {<<id, proxyRequests[id].val, code>>}

ExecuteOneWay(id, code) ==
  /\ TakeProxyRequest(id, code)
  /\ proxyRequests[id].val.type # TwoWay
  /\ proxyRequests[id].val.type = Persisted => code = Success
  /\ UNCHANGED <<sendVars, reqId, admitted, admittedFor, feeVars, pendVars,
                 successfulResponses, rolledBack, rollVars,
                 defaultConnection, sent>>

\* A two-way message is answered right away, free of charge.
ExecuteTwoWay(id, code) ==
  /\ TakeProxyRequest(id, code)
  /\ proxyRequests[id].val.type = TwoWay
  /\ LET req == proxyRequests[id].val
     IN  CallConnection(req.from, req.protocols,
           CSResult([sn |-> req.sn, code |-> code, reply |-> None]))
  /\ UNCHANGED <<sendVars, reqId, admitted, admittedFor, feeVars, pendVars,
                 successfulResponses, rolledBack, rollVars,
                 defaultConnection>>

\* execute_rollback_message: a dapp that fails reverts it.
ExecuteRollback(s) ==
  /\ s \in DOMAIN rollbacks
  /\ GetRollback(s).enabled
  /\ RemoveRollback(s)
  /\ rolledBack' = rolledBack \cup {s}
  /\ UNCHANGED <<sendVars, reqVars, feeVars, pendVars, successfulResponses,
                 executed, enabledFor, defaultConnection, sent>>

-----------------------------------------------------------------------------
(***************************************************************************)
(* Time and administration                                                 *)
(***************************************************************************)
Older(counts) ==
  [x \in DOMAIN counts |->
     IF counts[x] < LEDGER_THRESHOLD_REQUEST THEN counts[x] + 1
     ELSE counts[x]]

\* Temporary entries grow old and vanish.
Tick ==
  /\ rollbacks' = Aged(rollbacks)
  /\ proxyRequests' = Aged(proxyRequests)
  /\ pendingRequests' = Aged(pendingRequests)
  /\ pendingResponses' = Aged(pendingResponses)
  /\ enabledFor' = Older(enabledFor)
  /\ admittedFor' = Older(admittedFor)
  /\ UNCHANGED <<sendVars, reqId, admitted, feeVars, heard, doneVars,
                 defaultConnection, sent>>

SetDefaultConnection(net, k) ==
  /\ defaultConnection' = [defaultConnection EXCEPT ![net] = k]
  /\ UNCHANGED <<sendVars, reqVars, feeVars, pendVars, doneVars, rollVars,
                 sent>>

SetProtocolFee(value) ==
  /\ protocolFee' = value
  /\ UNCHANGED <<sendVars, reqVars, connFee, pendVars, doneVars, rollVars,
                 defaultConnection, sent>>

\* The admin of a connection sets its fees, here one pair for all networks.
SetFee(k, messageFee, responseFee) ==
  /\ connFee' = [connFee EXCEPT ![k] = [response \in BOOLEAN |->
                    IF response THEN messageFee + responseFee ELSE messageFee]]
  /\ UNCHANGED <<sendVars, reqVars, protocolFee, pendVars, doneVars, rollVars,
                 defaultConnection, sent>>

SorobanNext ==
  \/ \E to \in Nets, o \in Outgoing : SendCall(to, o[1], o[2], o[3])
  \/ \E src \in Nets, k \in Conn, m \in Wire : HandleMessage(src, k, m)
  \/ \E k \in Conn, s \in Sns : HandleError(k, s)
  \/ \E id \in ReqIds, code \in Code :
       ExecuteOneWay(id, code) \/ ExecuteTwoWay(id, code)
  \/ \E s \in Sns : ExecuteRollback(s)
  \/ Tick
  \/ \E net \in Nets, k \in Conn : SetDefaultConnection(net, k)
  \/ \E value \in FeeValues : SetProtocolFee(value)
  \/ \E k \in Conn, f, g \in FeeValues : SetFee(k, f, g)

SorobanSpec == SorobanInit /\ [][SorobanNext]_vars

-----------------------------------------------------------------------------
\* A map of temporary entries, none of them overdue.
Entries(map, Keys, Values) ==
  /\ DOMAIN map \subseteq Keys
  /\ \A x \in DOMAIN map :
       map[x] \in [val : Values, ttl : 1..LEDGER_BUMP_REQUEST]

\* Type invariant; only connections of its list wait on an entry.
TypeOK ==
  /\ sn \in 0..MaxSn /\ reqId \in 0..MaxReqId
  /\ Entries(rollbacks, 1..sn, RollbackData)
  /\ Entries(proxyRequests, 1..reqId, Request)
  /\ Entries(pendingRequests, Request, SUBSET Conn)
  /\ Entries(pendingResponses, Result, SUBSET Conn)
  /\ \A r \in DOMAIN pendingRequests :
       pendingRequests[r].val \subseteq Range(r.protocols)
  /\ successfulResponses \subseteq 1..sn /\ rolledBack \subseteq 1..sn
  /\ defaultConnection \in [Nets -> Conn \cup {None}]
  /\ protocolFee \in Nat /\ connFee \in [Conn -> [BOOLEAN -> Nat]]
  /\ calls \in [Sns -> Call \cup {None}]
  /\ heard \subseteq CSMessage \X Conn
  /\ admitted \subseteq (1..reqId) \X Request
  /\ executed \subseteq (1..reqId) \X Request \X Code
  /\ DOMAIN enabledFor \subseteq 1..sn
  /\ DOMAIN admittedFor = 1..reqId
  /\ \A s \in DOMAIN enabledFor : enabledFor[s] \in Nat
  /\ \A i \in DOMAIN admittedFor : admittedFor[i] \in Nat

\* A request is admitted only after every one of its protocols delivered that
\* very request, a reply only after every connection of the call delivered the
\* result that carries it (handle_request, handle_result), although partial
\* deliveries expire and start over.
RequestsEndorsed == AdmissionEndorsed(heard, admitted)

\* A call settles only on one result that all its connections delivered
\* (handle_result), although partial deliveries expire and start over.
SettlementEndorsed ==
  SettledOnOneResult(heard, calls, successfulResponses, rolledBack)

\* No call both succeeds and is rolled back, and a settled call leaves no
\* rollback behind (remove_rollback).
SettledOnce ==
  /\ successfulResponses \cap rolledBack = {}
  /\ \A s \in successfulResponses \cup rolledBack : s \notin DOMAIN rollbacks

\* Users have three days to act however late the answer came: a rollback
\* stays executable that long after a failure enabled it and an admitted
\* request that long after it was admitted, unless it is used up.
TimeToAct ==
  /\ \A s \in DOMAIN enabledFor :
       enabledFor[s] < LEDGER_THRESHOLD_REQUEST =>
         \/ s \in successfulResponses \cup rolledBack
         \/ s \in DOMAIN rollbacks /\ GetRollback(s).enabled
  /\ \A i \in DOMAIN admittedFor :
       admittedFor[i] < LEDGER_THRESHOLD_REQUEST =>
         (i \in DOMAIN proxyRequests) # (\E x \in executed : x[1] = i)

\* What connections and xcall take from the origin of a call is what get_fee
\* quoted at that moment, whatever fees admins set.
ChargedAsQuoted == paid = quoted

=============================================================================
