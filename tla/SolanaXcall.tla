---------------------------- MODULE SolanaXcall -----------------------------
(***************************************************************************)
(* The Solana programs xcall and centralized-connection                    *)
(* (contracts/solana/programs): the call service on network Here with its  *)
(* connections, whose relays may bring any message of Wire under any       *)
(* connection sequence number, late, twice or in any order, and name any   *)
(* call as the one that a result belongs to.                               *)
(*                                                                         *)
(* Solana lets no program call back into one that is being executed, so an *)
(* instruction is one step and there is no reply state.  State lives in    *)
(* accounts whose addresses derive from their seeds: a collection of       *)
(* accounts is a function whose domain are the seeds of the accounts that  *)
(* exist.  An instruction names the accounts it works on; the optional     *)
(* ones are given exactly when the code demands them.  Senders of two-way  *)
(* calls are programs (is_program); sizes, rent and hashes of data are     *)
(* left out.                                                               *)
(***************************************************************************)
EXTENDS XcallProperties, Integers

CONSTANTS Here,        \* the network of the programs
          Wire,        \* messages that relays may bring
          Outgoing,    \* <<type, sources, destinations>> that dapps use
          FeeValues,   \* fees that admins may set
          MaxConnSn    \* bound: sequence numbers of a connection, both ways

\* Accounts of the xcall program.
VARIABLES
  sn, reqId, protocolFee,   \* Config
  rollbacks,                \* sn -> RollbackAccount
  proxyRequests,            \* <<network, conn sn, connection>> -> ProxyRequest
  pendingRequests,          \* hash of a request -> set of connections
  pendingResponses,         \* hash -> set of connections
  successfulResponses

\* Accounts of the connection programs.
VARIABLES
  connSn,       \* per connection: messages sent
  receipts,     \* per connection: <<network, conn sn>> received
  networkFee,   \* <<connection, network>> -> [message, response]
  balance       \* per connection: fees in the config account

(* History.  heard has the number of the call named with each result or    *)
(* error, finished an entry for every execution and forced rollback, books *)
(* what is paid for each message and what was quoted for it, income what   *)
(* the fee handler and the admins of connections received.                 *)
VARIABLES heard, admitted, finished, calls, rolledBack, sent, books, income

sendVars == <<sn, calls, books>>
reqVars == <<reqId, proxyRequests, admitted>>
pendVars == <<pendingRequests, pendingResponses, heard>>
doneVars == <<successfulResponses, finished, rolledBack>>
outVars == <<connSn, balance, sent, income>>
feeVars == <<protocolFee, networkFee>>
vars == <<sendVars, reqVars, pendVars, doneVars, outVars, feeVars, rollbacks,
          receipts>>

Nets == Chain \ {Here}
ConnSns == 1..MaxConnSn
RollbackAccount == [to : Nets, protocols : Protocols, enabled : BOOLEAN]
Empty == [x \in {} |-> None]

\* What the proofs assume of the constants.
SolanaAssumption ==
  /\ Here \in Chain
  /\ Wire \subseteq CSMessage
  /\ Outgoing \subseteq MsgType \X Protocols \X Protocols
  /\ FeeValues \subseteq Nat
  /\ MaxConnSn \in Nat
  /\ Countable

\* init, init_if_needed and set; close.
Store(accounts, seeds, value) ==
  [x \in DOMAIN accounts \cup {seeds} |->
     IF x = seeds THEN value ELSE accounts[x]]
Close(accounts, seeds) == [x \in DOMAIN accounts \ {seeds} |-> accounts[x]]

\* initialize of xcall and of the connections.
SolanaInit ==
  /\ sn = 0 /\ reqId = 0 /\ protocolFee = 0
  /\ rollbacks = Empty /\ proxyRequests = Empty
  /\ pendingRequests = Empty /\ pendingResponses = Empty
  /\ successfulResponses = {}
  /\ connSn = [k \in Conn |-> 0] /\ receipts = [k \in Conn |-> {}]
  /\ networkFee = Empty /\ balance = [k \in Conn |-> 0]
  /\ heard = {} /\ admitted = {} /\ finished = {} /\ rolledBack = {}
  /\ calls = [s \in Sns |-> None] /\ sent = {}
  /\ books = Empty /\ income = 0

-----------------------------------------------------------------------------
(***************************************************************************)
(* A connection sends                                                      *)
(***************************************************************************)
\* NetworkFee::get.
NetworkFeeGet(fee, response) ==
  fee.message + (IF response THEN fee.response ELSE 0)

\* The fee that send_message takes: none for an answer, which has a negative
\* sequence number.
ConnectionFee(k, net, s) ==
  IF s >= 0 THEN NetworkFeeGet(networkFee[<<k, net>>], s > 0) ELSE 0

\* How often connection k is among the accounts given.
Times(k, accounts) == Cardinality({i \in DOMAIN accounts : accounts[i] = k})

\* (mutant: the counter does not advance)
NextConnSnStuck(k, i) == connSn[k] + 1
\* get_next_conn_sn, for the i-th message of this instruction.
NextConnSn(k, i) == connSn[k] + i

\* send_message of the connections among the accounts, in their order.
SendMessages(accounts, net, s, m) ==
  /\ \A i \in DOMAIN accounts : <<accounts[i], net>> \in DOMAIN networkFee
  /\ \A k \in Conn : connSn[k] + Times(k, accounts) <= MaxConnSn
  /\ connSn' = [k \in Conn |-> connSn[k] + Times(k, accounts)]
  /\ balance' = [k \in Conn |->
       balance[k] + Times(k, accounts) * (IF Times(k, accounts) = 0 THEN 0
                                          ELSE ConnectionFee(k, net, s))]
  /\ sent' = sent \cup
       {[conn |-> x[1], connSn |-> NextConnSn(x[1], x[2]), net |-> net,
         msg |-> m] :
          x \in {y \in Conn \X ConnSns : y[2] <= Times(y[1], accounts)}}

\* What send_message of all of them takes from the signer.
ConnectionFees(accounts, net, s) ==
  SumFunction([i \in DOMAIN accounts |-> ConnectionFee(accounts[i], net, s)])

\* call_connection_send_message checks of the account given for each source
\* only that it is one of the protocols.
AccountsFor(protocols) == [DOMAIN protocols -> Range(protocols)]

-----------------------------------------------------------------------------
(***************************************************************************)
(* xcall sends                                                             *)
(***************************************************************************)
\* query_connection_fee.
QueryConnectionFee(k, net, rollback) ==
  NetworkFeeGet(networkFee[<<k, net>>], rollback)

\* get_fee, if every source has a fee for the network.
GetFee(net, rollback, sources) ==
  protocolFee
    + SumFunction([i \in DOMAIN sources |->
         QueryConnectionFee(sources[i], net, rollback)])

\* validate_payload.
ValidPayload(sources, destinations) == sources # <<>> /\ destinations # <<>>

\* (mutant: the sequence number goes along with every message)
MessageSnAlways(type) == sn + 1
\* The sequence number for the connections tells them if a response is needed.
MessageSn(type) == IF type = TwoWay THEN sn + 1 ELSE 0

CallRequest(type, destinations) ==
  [from |-> Here, sn |-> sn + 1, type |-> type, protocols |-> destinations]

CreateRollback(to, sources) ==
  /\ rollbacks' = Store(rollbacks, sn + 1,
       [to |-> to, protocols |-> sources, enabled |-> FALSE])
  /\ calls' = [calls EXCEPT ![sn + 1] = [to |-> to, protocols |-> sources]]

\* claim_protocol_fee.
ClaimProtocolFee == income' = income + protocolFee

SendCall(to, type, sources, destinations, accounts) ==
  /\ sn + 1 \in Sns
  /\ sn' = sn + 1
  /\ ValidPayload(sources, destinations)
  /\ IF type = TwoWay
     THEN CreateRollback(to, sources)
     ELSE UNCHANGED <<rollbacks, calls>>
  /\ SendMessages(accounts, to, MessageSn(type),
                  CSRequest(CallRequest(type, destinations)))
  /\ ClaimProtocolFee
  /\ books' = Store(books, sn + 1,
       [paid |-> protocolFee + ConnectionFees(accounts, to, MessageSn(type)),
        quoted |-> IF \A k \in Range(sources) : <<k, to>> \in DOMAIN networkFee
                   THEN GetFee(to, type = TwoWay, sources) ELSE None,
        inOrder |-> accounts = sources])
  /\ UNCHANGED <<reqVars, pendVars, doneVars, feeVars, receipts>>

-----------------------------------------------------------------------------
(***************************************************************************)
(* xcall receives                                                          *)
(***************************************************************************)
HearRequest(k, m) == heard' = heard \cup {<<m, k>>}
HearAnswer(k, s, x) == heard' = heard \cup {<<x, k, s>>}

\* is_valid_source.
IsValidSource(k, protocols) == k \in Range(protocols)

\* The connections that have delivered x, k included.
Sources(pending, x, k) ==
  (IF x \in DOMAIN pending THEN pending[x] ELSE {}) \cup {k}

\* (mutant: as soon as all but one delivered)
AllDeliveredEarly(pending, x, k, protocols) ==
  Cardinality(Sources(pending, x, k)) + 1 >= Len(protocols)
\* The number of connections is compared with the length of the list, which
\* a list that repeats a connection never meets.
AllDelivered(pending, x, k, protocols) ==
  Len(protocols) > 1 => Cardinality(Sources(pending, x, k)) = Len(protocols)

\* The seeds of the request that connection k delivers under number n.
ProxySeeds(src, n, k) == <<src, n, k>>

\* get_next_req_id and ProxyRequest::set.
SetProxyRequest(src, n, k, req) ==
  /\ reqId + 1 \in ReqIds
  /\ reqId' = reqId + 1
  /\ proxyRequests' = Store(proxyRequests, ProxySeeds(src, n, k), req)
  /\ admitted' = admitted \cup {<<<<src, n, k>>, req>>}

RequestValid(src, k, req) == req.from = src /\ IsValidSource(k, req.protocols)

\* handle_request, other protocols still to deliver: the account for the
\* request is closed again.
HandleRequestPending(src, n, k, req) ==
  /\ RequestValid(src, k, req)
  /\ ~AllDelivered(pendingRequests, req, k, req.protocols)
  /\ pendingRequests' =
       Store(pendingRequests, req, Sources(pendingRequests, req, k))
  /\ proxyRequests' = Close(proxyRequests, ProxySeeds(src, n, k))
  /\ HearRequest(k, CSRequest(req))
  /\ UNCHANGED <<sendVars, reqId, admitted, pendingResponses, doneVars,
                 outVars, feeVars, rollbacks>>

\* handle_request, complete.
HandleRequest(src, n, k, req) ==
  /\ RequestValid(src, k, req)
  /\ AllDelivered(pendingRequests, req, k, req.protocols)
  /\ pendingRequests' = Close(pendingRequests, req)
  /\ SetProxyRequest(src, n, k, req)
  /\ HearRequest(k, CSRequest(req))
  /\ UNCHANGED <<sendVars, pendingResponses, doneVars, outVars, feeVars,
                 rollbacks>>

\* Deliveries of a result are counted in an account that derives from the hash
\* of the whole message.
MessageSeeds(m) == m
\* Errors of call s are counted in one that derives from the hash of the
\* result of failure that they stand for, which is no message.
ErrorSeeds(s) == [sn |-> s, code |-> Failure, reply |-> None]

\* check_sources_and_pending_response up to the count.
ResponseValid(k, s) ==
  s \in DOMAIN rollbacks /\ IsValidSource(k, rollbacks[s].protocols)

\* check_sources_and_pending_response, other connections still to deliver.
ResponsePending(k, s, seeds) ==
  /\ ResponseValid(k, s)
  /\ ~AllDelivered(pendingResponses, seeds, k, rollbacks[s].protocols)
  /\ pendingResponses' =
       Store(pendingResponses, seeds, Sources(pendingResponses, seeds, k))
  /\ HearAnswer(k, s, seeds)
  /\ UNCHANGED <<sendVars, reqVars, pendingRequests, doneVars, outVars,
                 feeVars, rollbacks>>

\* The same, complete.
ResponseComplete(k, s, seeds) ==
  /\ ResponseValid(k, s)
  /\ AllDelivered(pendingResponses, seeds, k, rollbacks[s].protocols)
  /\ pendingResponses' = Close(pendingResponses, seeds)
  /\ HearAnswer(k, s, seeds)

HandleReply(src, n, k, rollback, reply) ==
  /\ rollback.to = reply.from
  /\ SetProxyRequest(src, n, k,
                     [reply EXCEPT !.protocols = rollback.protocols])

\* (mutant: the rollback account stays open after a success)
CloseRollbackNot(s) == UNCHANGED rollbacks
CloseRollback(s) == rollbacks' = Close(rollbacks, s)

\* handle_result, success.  s is the sequence number that the connection passes
\* along with the message: it selects the accounts of the call and is not
\* compared with the number in the result.
HandleResultSuccess(src, n, k, m, s) ==
  /\ ResponseComplete(k, s, MessageSeeds(m))
  /\ m.payload.code = Success
  /\ CloseRollback(s)
  /\ successfulResponses' = successfulResponses \cup {s}
  /\ IF m.payload.reply = None
     THEN UNCHANGED reqVars
     ELSE HandleReply(src, n, k, rollbacks[s], m.payload.reply)
  /\ UNCHANGED <<sendVars, pendingRequests, finished, rolledBack, outVars,
                 feeVars>>

EnableRollback(s) ==
  rollbacks' = [rollbacks EXCEPT ![s].enabled = TRUE]

\* handle_result, failure.
HandleResultFailure(k, m, s) ==
  /\ ResponseComplete(k, s, MessageSeeds(m))
  /\ m.payload.code = Failure
  /\ EnableRollback(s)
  /\ UNCHANGED <<sendVars, reqVars, pendingRequests, doneVars, outVars,
                 feeVars>>

\* handle_error.
HandleErrorComplete(k, s) ==
  /\ ResponseComplete(k, s, ErrorSeeds(s))
  /\ EnableRollback(s)
  /\ UNCHANGED <<sendVars, reqVars, pendingRequests, doneVars, outVars,
                 feeVars>>

\* xcall calls itself with the accounts of the kind of message at hand.
InvokeHandleRequest(src, n, k, req) ==
  HandleRequestPending(src, n, k, req) \/ HandleRequest(src, n, k, req)
InvokeHandleResult(src, n, k, m, s) ==
  HandleResultSuccess(src, n, k, m, s) \/ HandleResultFailure(k, m, s)

\* handle_message.
HandleMessage(src, n, k, m, s) ==
  \/ /\ m.type = "CSMessageRequest"
     /\ InvokeHandleRequest(src, n, k, m.payload)
  \/ /\ m.type = "CSMessageResult"
     /\ \/ ResponsePending(k, s, MessageSeeds(m))
        \/ InvokeHandleResult(src, n, k, m, s)

\* The receipt that recv_message creates must not exist yet.
TakeReceipt(src, n, k) ==
  /\ <<src, n>> \notin receipts[k]
  /\ receipts' = [receipts EXCEPT ![k] = @ \cup {<<src, n>>}]

\* recv_message of connection k: the receipt stays only if xcall accepts.
RecvMessage(src, n, k, m, s) ==
  TakeReceipt(src, n, k) /\ HandleMessage(src, n, k, m, s)

\* revert_message of connection k.
RevertMessage(k, s) ==
  /\ ResponsePending(k, s, ErrorSeeds(s)) \/ HandleErrorComplete(k, s)
  /\ UNCHANGED receipts

-----------------------------------------------------------------------------
(***************************************************************************)
(* Executing                                                               *)
(***************************************************************************)
\* (mutant: the account of the request is not closed)
CloseProxyRequestNot(seeds) == UNCHANGED proxyRequests
CloseProxyRequest(seeds) == proxyRequests' = Close(proxyRequests, seeds)

\* The constraints of ExecuteCallCtx and HandleForcedRollbackCtx.
TakeProxyRequest(seeds, code) ==
  /\ seeds \in DOMAIN proxyRequests
  /\ CloseProxyRequest(seeds)
  /\ finished' = finished \cup {<<seeds, proxyRequests[seeds], code>>}

\* The code that handle_response makes of the response of the dapp.
HandleResponse(success) == IF success THEN Success ELSE Failure

\* The answer to a two-way request goes out through the accounts given.
Answer(req, code, accounts) ==
  /\ SendMessages(accounts, req.from, 0 - req.sn,
       CSResult([sn |-> req.sn, code |-> code, reply |-> None]))
  /\ UNCHANGED income

\* execute_call of a message that asks for no answer; a persistent one is
\* gone only if its dapp succeeds.
ExecuteOneWay(seeds, success) ==
  /\ TakeProxyRequest(seeds, HandleResponse(success))
  /\ proxyRequests[seeds].type # TwoWay
  /\ proxyRequests[seeds].type = Persisted => success
  /\ UNCHANGED <<sendVars, reqId, admitted, pendVars, successfulResponses,
                 rolledBack, outVars, feeVars, rollbacks, receipts>>

\* execute_call of a two-way message, answered through the accounts given.
ExecuteTwoWay(seeds, success, accounts) ==
  /\ TakeProxyRequest(seeds, HandleResponse(success))
  /\ proxyRequests[seeds].type = TwoWay
  /\ Answer(proxyRequests[seeds], HandleResponse(success), accounts)
  /\ UNCHANGED <<sendVars, reqId, admitted, pendVars, successfulResponses,
                 rolledBack, feeVars, rollbacks, receipts>>

\* handle_forced_rollback, by the dapp the request is for.
HandleForcedRollback(seeds) ==
  /\ TakeProxyRequest(seeds, "forced")
  /\ proxyRequests[seeds].type = TwoWay
  /\ \E accounts \in AccountsFor(proxyRequests[seeds].protocols) :
       Answer(proxyRequests[seeds], Failure, accounts)
  /\ UNCHANGED <<sendVars, reqId, admitted, pendVars, successfulResponses,
                 rolledBack, feeVars, rollbacks, receipts>>

\* execute_rollback: a dapp that fails reverts it.
ExecuteRollback(s) ==
  /\ s \in DOMAIN rollbacks
  /\ rollbacks[s].enabled
  /\ CloseRollback(s)
  /\ rolledBack' = rolledBack \cup {s}
  /\ UNCHANGED <<sendVars, reqVars, pendVars, successfulResponses, finished,
                 outVars, feeVars, receipts>>

-----------------------------------------------------------------------------
(***************************************************************************)
(* Administration                                                          *)
(***************************************************************************)
SetProtocolFee(value) ==
  /\ protocolFee' = value
  /\ UNCHANGED <<sendVars, reqVars, pendVars, doneVars, outVars, networkFee,
                 rollbacks, receipts>>

\* set_fee of a connection.
SetFee(k, net, message, response) ==
  /\ networkFee' = Store(networkFee, <<k, net>>,
                         [message |-> message, response |-> response])
  /\ UNCHANGED <<sendVars, reqVars, pendVars, doneVars, outVars, protocolFee,
                 rollbacks, receipts>>

\* claim_fees of a connection: all above the rent.
ClaimFees(k) ==
  /\ income' = income + balance[k]
  /\ balance' = [balance EXCEPT ![k] = 0]
  /\ UNCHANGED <<sendVars, reqVars, pendVars, doneVars, connSn, sent, feeVars,
                 rollbacks, receipts>>

SolanaNext ==
  \/ \E to \in Nets, o \in Outgoing : \E accounts \in AccountsFor(o[2]) :
       SendCall(to, o[1], o[2], o[3], accounts)
  \/ \E src \in Nets, n \in ConnSns, k \in Conn, m \in Wire, s \in Sns :
       RecvMessage(src, n, k, m, s)
  \/ \E k \in Conn, s \in Sns : RevertMessage(k, s)
  \/ \E seeds \in DOMAIN proxyRequests, success \in BOOLEAN :
       \/ ExecuteOneWay(seeds, success)
       \/ \E accounts \in AccountsFor(proxyRequests[seeds].protocols) :
            ExecuteTwoWay(seeds, success, accounts)
  \/ \E seeds \in DOMAIN proxyRequests : HandleForcedRollback(seeds)
  \/ \E s \in Sns : ExecuteRollback(s)
  \/ \E value \in FeeValues : SetProtocolFee(value)
  \/ \E k \in Conn, net \in Nets, f, g \in FeeValues : SetFee(k, net, f, g)
  \/ \E k \in Conn : ClaimFees(k)

SolanaSpec == SolanaInit /\ [][SolanaNext]_vars

-----------------------------------------------------------------------------
\* Accounts of one kind: their seeds and what they hold.
Accounts(accounts, Seeds, Values) ==
  /\ DOMAIN accounts \subseteq Seeds
  /\ \A x \in DOMAIN accounts : accounts[x] \in Values

\* Type invariant; numbers in use were handed out, and only connections of its
\* list wait on an account.
TypeOK ==
  /\ sn \in 0..MaxSn /\ reqId \in 0..MaxReqId /\ protocolFee \in Nat
  /\ Accounts(rollbacks, 1..sn, RollbackAccount)
  /\ Accounts(proxyRequests, Nets \X ConnSns \X Conn, Request)
  /\ \A r \in DOMAIN pendingRequests :
       r \in Request /\ pendingRequests[r] \subseteq Range(r.protocols)
  /\ \A x \in DOMAIN pendingResponses : pendingResponses[x] \subseteq Conn
  /\ successfulResponses \subseteq 1..sn /\ rolledBack \subseteq 1..sn
  /\ connSn \in [Conn -> 0..MaxConnSn]
  /\ receipts \in [Conn -> SUBSET (Nets \X ConnSns)]
  /\ Accounts(networkFee, Conn \X Nets, [message : Nat, response : Nat])
  /\ admitted \subseteq (Nets \X ConnSns \X Conn) \X Request
  /\ calls \in [Sns -> Call \cup {None}]

\* Results of any call with a code of the set, and what is an answer to call s.
Results(codes) == UNION {ResultsOf(s, codes) : s \in Sns}
About(s) == ResultsOf(s, Code) \cup {ErrorSeeds(s)}

\* A connection named another call with x than the one that x answers.
Misnumbered(H, x) == \E h \in H : h[1] = x /\ x \notin About(h[3])

\* What a call s over the connections of list p settles on: an answer to it that
\* all of them delivered.  If a connection named another call with x, it is
\* still what one connection of the list delivered for s, and as many
\* connections as the list is long delivered.
SettledOn(H, x, s, p) ==
  /\ \E k \in Range(p) : <<x, k, s>> \in H
  /\ Len(p) > 1 =>
       \E S \in SUBSET Conn :
         /\ Cardinality(S) = Len(p)
         /\ \A k \in S : \E h \in H : h[1] = x /\ h[2] = k
  /\ Misnumbered(H, x) \/ (x \in About(s) /\ EndorsedBy(H, {x}, p))

\* A request is admitted only after every one of its protocols delivered that
\* very request, a reply only when the result that carries it settles a call to
\* its network over its protocols: on the word of all of them, unless one named
\* another call with it (handle_request, handle_result, handle_reply).
RequestsEndorsed ==
  \A a \in admitted :
    LET req == a[2]
    IN  \/ EndorsedBy(heard, {CSRequest(req)}, req.protocols)
        \/ \E s \in successfulResponses : \E m \in Results({Success}) :
             /\ m.payload.reply # None
             /\ [m.payload.reply EXCEPT !.protocols = req.protocols] = req
             /\ calls[s].to = req.from /\ calls[s].protocols = req.protocols
             /\ SettledOn(heard, m, s, req.protocols)

\* A call succeeds only on one result of success and is rolled back only on one
\* result of failure or on errors, which all its connections delivered
\* as answers to this call, unless one of them named another call with it
\* (check_sources_and_pending_response, handle_result, handle_error).
SettlementEndorsed ==
  \A s \in Sns :
    /\ s \in successfulResponses =>
         \E m \in Results({Success}) : SettledOn(heard, m, s, calls[s].protocols)
    /\ s \in rolledBack =>
         \E x \in Results({Failure}) \cup {ErrorSeeds(s)} :
           SettledOn(heard, x, s, calls[s].protocols)

\* No call both succeeds and is rolled back, and a settled call leaves no
\* rollback account behind (handle_result, ExecuteRollbackCtx).
SettledOnce ==
  /\ successfulResponses \cap rolledBack = {}
  /\ (successfulResponses \cup rolledBack) \cap DOMAIN rollbacks = {}

\* An admitted request stays as it was admitted until it is executed or its
\* dapp forces its rollback, and only one of the two happens, once: no later
\* delivery of any connection takes its account (seeds of ProxyRequest, the
\* receipts of recv_message, close of ExecuteCallCtx and
\* HandleForcedRollbackCtx).
AdmittedFinishedOnce ==
  /\ \A x, y \in admitted : x[1] = y[1] => x = y
  /\ \A x, y \in finished : x[1] = y[1] => x = y
  /\ \A a \in admitted :
       IF \E x \in finished : x[1] = a[1]
       THEN a[1] \notin DOMAIN proxyRequests
       ELSE a[1] \in DOMAIN proxyRequests /\ proxyRequests[a[1]] = a[2]

\* A connection gives every message it sends a number of its own, without
\* gaps, calls and answers together: the other side takes each number once.
ConnSnUnique ==
  /\ \A x, y \in sent : x.conn = y.conn /\ x.connSn = y.connSn => x = y
  /\ \A k \in Conn :
       {x.connSn : x \in {y \in sent : y.conn = k}} = 1..connSn[k]

\* A caller who lists the accounts of the sources in their order pays what
\* get_fee quotes, and all that callers pay is with the fee handler, with the
\* admins of the connections or still on a connection's account: answers are
\* free (send_message of the connection).
ChargedAsQuoted ==
  /\ \A s \in DOMAIN books : books[s].inOrder => books[s].paid = books[s].quoted
  /\ SumFunction([s \in DOMAIN books |-> books[s].paid])
       = income + SumFunction(balance)

=============================================================================
