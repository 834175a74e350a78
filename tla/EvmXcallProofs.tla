--------------------------- MODULE EvmXcallProofs ---------------------------
(***************************************************************************)
(* What the EVM call service keeps, whatever connections deliver and       *)
(* however dapps call it back, for all networks, connections and lists.    *)
(***************************************************************************)
EXTENDS EvmXcall, TLAPS

\* Connection k answered call s.
AnsweredBy(s, k) ==
  \E h \in heard : h[1] \in ResultsOf(s, Code) /\ h[2] = k

\* What is collected was delivered.
PendingHeard ==
  /\ \A p \in pendingReqs : <<CSRequest(p[1]), p[2]>> \in heard
  /\ \A p \in pendingResponses : AnsweredBy(p[1], p[2])

\* A stored rollback is that of an open call; it is enabled after all the
\* connections of the call answered, one of them with a failure.
RollbacksOpen ==
  \A s \in Sns : rollbacks[s] # None =>
    /\ s <= lastSn
    /\ s \notin successfulResponses \cup rolledBack
    /\ calls[s] # None /\ calls[s].protocols = rollbacks[s].sources
    /\ rollbacks[s].enabled =>
         /\ EndorsedBy(heard, ResultsOf(s, Code), rollbacks[s].sources)
         /\ SaidBy(heard, ResultsOf(s, {Failure}), rollbacks[s].sources)

\* Answers are collected for calls that were made, and never all those that an
\* open call waits for: the last one that is missing is not collected.
AwaitInv ==
  /\ \A p \in pendingResponses : p[1] <= lastSn
  /\ \A s \in Sns :
       rollbacks[s] # None /\ Len(rollbacks[s].sources) > 1 =>
         \E k \in Range(rollbacks[s].sources) : <<s, k>> \notin pendingResponses

\* Numbers of settled calls were handed out.
SettledHandedOut ==
  \A s \in successfulResponses \cup rolledBack : s <= lastSn

SettleInv ==
  /\ PendingHeard /\ RollbacksOpen /\ SettledHandedOut
  /\ RequestsEndorsed /\ ResultsVouched /\ SettledOnce

-----------------------------------------------------------------------------
\* A result that answers x was sent over every connection of its list.
ResultSent(x) ==
  \A k \in Range(x[2].protocols) :
    \E e \in sent :
      /\ e.conn = k /\ e.net = x[2].from
      /\ e.msg.type = "CSMessageResult"
      /\ e.msg.payload.sn = x[2].sn /\ e.msg.payload.code = x[3]

\* Ids of stored requests were handed out.  An executed request is gone, its
\* id was handed out, and it was answered with its outcome unless it succeeded
\* and is still under way.
ExecutedInv ==
  /\ \A id \in ReqIds : proxyReqs[id] # None => id <= lastReqId
  /\ ExecutedAtMostOnce(executed)
  /\ \A x \in executed :
       /\ x[1] <= lastReqId /\ proxyReqs[x[1]] = None
       /\ x[2].type = TwoWay =>
            (x[3] = Success /\ x[2] \in Range(frames)) \/ ResultSent(x)

\* Replies on their way have numbers that were handed out, and that of the
\* reply held back is not on its way.
ReplyInv ==
  /\ RepliesStayInside
  /\ callReply # None => callReply.sn <= lastSn
  /\ \A e \in sent :
       (e.msg.type = "CSMessageResult" /\ e.msg.payload.reply # None) =>
         /\ e.msg.payload.reply.sn <= lastSn
         /\ e.msg.payload.reply # callReply

\* Requests that are stored or executed come from other networks, so that they
\* can be answered.
Foreign ==
  /\ \A id \in ReqIds : proxyReqs[id] # None => proxyReqs[id].from \in Nets
  /\ \A i \in DOMAIN frames : frames[i].from \in Nets

EvmInv ==
  TypeOK /\ Foreign /\ AwaitInv /\ SettleInv /\ ExecutedInv /\ ReplyInv

-----------------------------------------------------------------------------
(***************************************************************************)
(* Lists, results and deliveries                                           *)
(***************************************************************************)
\* A list and what it is confirmed to name connections only.
LEMMA ListOfConns ==
  ASSUME NEW p \in Protocols
  PROVE  /\ p \in Seq(Conn) /\ Range(p) \subseteq Conn
         /\ \A k \in Range(p) : Len(p) = 1 => Range(p) = {k}
         /\ p # <<>> /\ ~(Len(p) > 1) => Len(p) = 1
<1>1. p \in Seq(Conn)
  BY XcallAssumption, Zenon
<1>2. Range(p) \subseteq Conn
  BY <1>1 DEF Range
<1>3. \A k \in Range(p) : Len(p) = 1 => Range(p) = {k}
  BY <1>1 DEF Range
<1>4. p # <<>> /\ ~(Len(p) > 1) => Len(p) = 1
  <2>1. Len(p) \in Nat
    BY <1>1
  <2>2. Len(p) = 0 => p = <<>>
    BY <1>1
  <2> QED
    BY <2>1, <2>2
<1> QED
  BY <1>1, <1>2, <1>3, <1>4, Zenon

LEMMA ConfirmedConns ==
  ASSUME TypeOK, NEW net \in Nets, NEW p \in Protocols, HasRoute(net, p)
  PROVE  /\ Range(Confirmed(net, p)) \subseteq Conn
         /\ Range(p) \subseteq Range(Confirmed(net, p))
<1>1. CASE p = <<>>
  BY <1>1 DEF HasRoute, Confirmed, Range, TypeOK
<1>2. CASE p # <<>>
  BY <1>2, ListOfConns, Zenon DEF Confirmed
<1> QED
  BY <1>1, <1>2, Zenon

LEMMA ResultIn ==
  ASSUME NEW res \in Result, NEW codes, res.code \in codes
  PROVE  CSResult(res) \in ResultsOf(res.sn, codes)
BY Zenon DEF Result, ResultsOf

LEMMA MoreCodes ==
  ASSUME NEW s, NEW code \in Code
  PROVE  ResultsOf(s, {code}) \subseteq ResultsOf(s, Code)
BY Zenon DEF ResultsOf

LEMMA MessageParts ==
  ASSUME NEW m \in CSMessage
  PROVE  /\ m.type = "CSMessageRequest" =>
              m.payload \in Request /\ m = CSRequest(m.payload)
         /\ m.type = "CSMessageResult" =>
              m.payload \in Result /\ m = CSResult(m.payload)
BY Zenon DEF CSMessage, CSRequest, CSResult

\* More deliveries endorse no less.
LEMMA EndorsedGrows ==
  ASSUME NEW H, NEW G, H \subseteq G, NEW M, NEW p, EndorsedBy(H, M, p)
  PROVE  EndorsedBy(G, M, p)
BY Zenon DEF EndorsedBy

\* So does what one of the list said.
LEMMA SaidGrows ==
  ASSUME NEW H, NEW G, H \subseteq G, NEW M, NEW p, SaidBy(H, M, p)
  PROVE  SaidBy(G, M, p)
BY Zenon DEF SaidBy

\* A complete list of deliveries endorses, of one protocol or several.
LEMMA Endorses ==
  ASSUME TypeOK, NEW net \in Nets, NEW p \in Protocols, NEW k \in Conn,
         NEW H, NEW M, NEW m \in M, <<m, k>> \in H,
         Authorized(net, k, p),
         Len(p) > 1 => \A q \in Range(p) :
                         q = k \/ \E h \in H : h[1] \in M /\ h[2] = q
  PROVE  EndorsedBy(H, M, p)
<1>1. <<m, k>>[1] \in M /\ <<m, k>>[2] = k
  BY Zenon
<1>2. CASE p = <<>>
  BY <1>1, <1>2, Zenon DEF EndorsedBy
<1>3. CASE p # <<>> /\ Len(p) > 1
  BY <1>1, <1>3, Zenon DEF EndorsedBy
<1>4. CASE p # <<>> /\ ~(Len(p) > 1)
  <2>1. Len(p) = 1
    BY <1>4, ListOfConns, Zenon
  <2>2. k \in Range(p)
    BY <1>4, Zenon DEF Authorized, Confirmed
  <2>3. Range(p) = {k}
    BY <2>1, <2>2, ListOfConns, Zenon
  <2> QED
    BY <1>1, <1>4, <2>3, Zenon DEF EndorsedBy
<1> QED
  BY <1>2, <1>3, <1>4, Zenon

-----------------------------------------------------------------------------
(***************************************************************************)
(* Typing                                                                  *)
(***************************************************************************)
\* Sending keeps the types of what it changes.
LEMMA PreProcessTypes ==
  ASSUME EvmAssumption, TypeOK, NEW to \in Nets, NEW type \in MsgType,
         NEW src \in Protocols, NEW dst \in Protocols, NEW data \in BOOLEAN,
         PreProcess(to, type, src, data)
  PROVE  /\ lastSn' \in 0..MaxSn
         /\ rollbacks' \in [Sns -> RollbackData \cup {None}]
         /\ calls' \in [Sns -> Call \cup {None}]
         /\ CallRequest(type, dst) \in Request
<1>1. lastSn' \in 0..MaxSn /\ lastSn + 1 \in Sns
  BY XcallAssumption DEF PreProcess, Sns, TypeOK
<1>2. CallRequest(type, dst) \in Request
  BY <1>1, Zenon DEF CallRequest, Request, EvmAssumption
<1>3. CASE type = TwoWay
  <2>1. [to |-> to, sources |-> src, data |-> data, enabled |-> FALSE]
          \in RollbackData
    BY Zenon DEF RollbackData
  <2>2. [to |-> to, protocols |-> src] \in Call
    BY Zenon DEF Call, Nets
  <2> QED
    BY <1>1, <1>2, <1>3, <2>1, <2>2, ZenonT(20) DEF PreProcess, TypeOK
<1>4. CASE type # TwoWay
  BY <1>1, <1>2, <1>4, Zenon DEF PreProcess, TypeOK
<1> QED
  BY <1>3, <1>4, Zenon

LEMMA SendMessageTypes ==
  ASSUME TypeOK, NEW net \in Nets, NEW p \in Protocols, NEW m \in CSMessage,
         SendMessage(net, p, m)
  PROVE  /\ sent' \subseteq [conn : Conn, net : Nets, msg : CSMessage]
         /\ sent \subseteq sent'
         /\ \A k \in Range(p) : [conn |-> k, net |-> net, msg |-> m] \in sent'
         /\ \A e \in sent' : e \in sent \/ (e.net = net /\ e.msg = m)
<1>1. /\ Range(Confirmed(net, p)) \subseteq Conn
      /\ Range(p) \subseteq Range(Confirmed(net, p))
  BY ConfirmedConns, Zenon DEF SendMessage
<1>2. sent' = sent \cup {[conn |-> k, net |-> net, msg |-> m] :
                            k \in Range(Confirmed(net, p))}
  BY Zenon DEF SendMessage
<1> QED
  BY <1>1, <1>2 DEF TypeOK

LEMMA NewProxyRequestTypes ==
  ASSUME TypeOK, NEW req \in Request, NewProxyRequest(req)
  PROVE  /\ lastReqId' \in 0..MaxReqId
         /\ proxyReqs' \in [ReqIds -> Request \cup {None}]
         /\ admitted' \subseteq ReqIds \X Request
BY XcallAssumption DEF NewProxyRequest, TypeOK, ReqIds

\* Requests and results on the wire are messages.
LEMMA MessagesType ==
  /\ \A req \in Request : CSRequest(req) \in CSMessage
  /\ \A res \in Result : CSResult(res) \in CSMessage
BY Zenon DEF CSMessage, CSRequest, CSResult

LEMMA SendTypes ==
  ASSUME EvmAssumption, TypeOK, NEW to \in Nets, NEW type \in MsgType,
         NEW src \in Protocols, NEW dst \in Protocols, NEW data \in BOOLEAN,
         NEW value \in Nat,
         \/ SendReply(to, type, src, dst, data, value)
         \/ SendOut(to, type, src, dst, data, value)
  PROVE  TypeOK'
<1>1. PreProcess(to, type, src, data)
  BY Zenon DEF SendReply, SendOut
<1>2. /\ lastSn' \in 0..MaxSn
      /\ rollbacks' \in [Sns -> RollbackData \cup {None}]
      /\ calls' \in [Sns -> Call \cup {None}]
      /\ CallRequest(type, dst) \in Request
  BY <1>1, PreProcessTypes, Zenon
<1>3. CASE SendReply(to, type, src, dst, data, value)
  BY <1>2, <1>3 DEF SendReply, TypeOK, reqVars, pendVars, doneVars
<1>4. CASE SendOut(to, type, src, dst, data, value)
  <2>1. sent' \subseteq [conn : Conn, net : Nets, msg : CSMessage]
    BY <1>2, <1>4, MessagesType, SendMessageTypes, Zenon DEF SendOut
  <2>2. balance' \in Nat
    BY <1>4, Zenon DEF SendOut, ClaimProtocolFee
  <2>3. UNCHANGED <<reqVars, replyVars, protocolFee, connFee, pendVars,
                    doneVars, defaultConnections>>
    BY <1>4, Zenon DEF SendOut
  <2> QED
    BY <1>2, <2>1, <2>2, <2>3, Zenon
       DEF TypeOK, reqVars, replyVars, pendVars, doneVars
<1> QED
  BY <1>3, <1>4, Zenon

\* A delivery keeps the types.
LEMMA DeliveryTypes ==
  ASSUME EvmAssumption, TypeOK, NEW src \in Nets, NEW k \in Conn,
         NEW m \in CSMessage, HandleMessage(src, k, m)
  PROVE  TypeOK'
<1>1. ASSUME NEW x \in CSMessage, Hear(k, x)
      PROVE  heard' \subseteq CSMessage \X Conn
  BY <1>1 DEF Hear, TypeOK
<1>2. ASSUME NEW req \in Request, HandleRequestPending(src, k, req)
      PROVE  TypeOK'
  BY <1>1, <1>2, MessagesType
     DEF HandleRequestPending, TypeOK, sendVars, reqVars, replyVars, feeVars,
         doneVars
<1>3. ASSUME NEW req \in Request, HandleRequest(src, k, req)
      PROVE  TypeOK'
  <2>1. /\ lastReqId' \in 0..MaxReqId
        /\ proxyReqs' \in [ReqIds -> Request \cup {None}]
        /\ admitted' \subseteq ReqIds \X Request
    BY <1>3, NewProxyRequestTypes, Zenon DEF HandleRequest
  <2>2. pendingReqs' \subseteq Request \X Conn
    BY <1>3 DEF HandleRequest, Cleared, TypeOK
  <2>3. heard' \subseteq CSMessage \X Conn
    BY <1>1, <1>3, MessagesType, Zenon DEF HandleRequest
  <2>4. UNCHANGED <<sendVars, replyVars, feeVars, pendingResponses, doneVars,
                    defaultConnections, sent>>
    BY <1>3, Zenon DEF HandleRequest
  <2> QED
    BY <2>1, <2>2, <2>3, <2>4, Zenon
       DEF TypeOK, sendVars, replyVars, feeVars, doneVars
<1>4. ASSUME NEW res \in Result, HandleResultPending(k, res)
      PROVE  TypeOK'
  <2>1. pendingResponses' \subseteq Sns \X Conn
    BY <1>4 DEF HandleResultPending, TypeOK, Result
  <2>2. heard' \subseteq CSMessage \X Conn
    BY <1>1, <1>4, MessagesType, Zenon DEF HandleResultPending
  <2> QED
    BY <1>4, <2>1, <2>2, Zenon
       DEF HandleResultPending, TypeOK, sendVars, reqVars, replyVars, feeVars,
           doneVars
<1>5. ASSUME NEW res \in Result, ResultComplete(k, res)
      PROVE  /\ pendingResponses' \subseteq Sns \X Conn
             /\ heard' \subseteq CSMessage \X Conn
             /\ res.sn \in Sns /\ rollbacks[res.sn] \in RollbackData
  <2>1. res.sn \in Sns /\ rollbacks[res.sn] \in RollbackData
    BY <1>5, Zenon DEF Result, ResultComplete, TypeOK
  <2>2. heard' \subseteq CSMessage \X Conn
    BY <1>1, <1>5, MessagesType, Zenon DEF ResultComplete
  <2>3. pendingResponses' \subseteq Sns \X Conn
    BY <1>5, <2>1 DEF ResultComplete, Cleared, TypeOK
  <2> QED
    BY <2>1, <2>2, <2>3, Zenon
<1>6. ASSUME NEW res \in Result, HandleResultSuccess(k, res)
      PROVE  TypeOK'
  <2>1. /\ pendingResponses' \subseteq Sns \X Conn
        /\ heard' \subseteq CSMessage \X Conn
        /\ res.sn \in Sns /\ rollbacks[res.sn] \in RollbackData
    BY <1>5, <1>6, Zenon DEF HandleResultSuccess
  <2>2. /\ rollbacks' \in [Sns -> RollbackData \cup {None}]
        /\ successfulResponses' \subseteq Sns
    BY <1>6, <2>1, Zenon DEF HandleResultSuccess, CleanupCallRequest, TypeOK
  <2>3. /\ lastReqId' \in 0..MaxReqId
        /\ proxyReqs' \in [ReqIds -> Request \cup {None}]
        /\ admitted' \subseteq ReqIds \X Request
    <3>1. CASE res.reply = None
      BY <1>6, <3>1, Zenon DEF HandleResultSuccess, reqVars, TypeOK
    <3>2. CASE res.reply # None
      <4> DEFINE req == [res.reply EXCEPT !.protocols =
                           rollbacks[res.sn].sources]
      <4>1. res.reply \in Request /\ rollbacks[res.sn].sources \in Protocols
        BY <2>1, <3>2, Zenon DEF Result, RollbackData
      <4>2. req \in Request
        BY <4>1, Zenon DEF Request
      <4>3. NewProxyRequest(req)
        BY <1>6, <3>2, Zenon DEF HandleResultSuccess, HandleReply
      <4> QED
        BY <4>2, <4>3, NewProxyRequestTypes, Zenon
    <3> QED
      BY <3>1, <3>2, Zenon
  <2>4. UNCHANGED <<lastSn, calls, replyVars, feeVars, pendingReqs, executed,
                    rolledBack, defaultConnections, sent>>
    BY <1>6, Zenon DEF HandleResultSuccess
  <2> QED
    BY <2>1, <2>2, <2>3, <2>4, Zenon DEF TypeOK, replyVars, feeVars
<1>7. ASSUME NEW res \in Result, HandleResultFailure(k, res)
      PROVE  TypeOK'
  <2>1. /\ pendingResponses' \subseteq Sns \X Conn
        /\ heard' \subseteq CSMessage \X Conn
        /\ res.sn \in Sns /\ rollbacks[res.sn] \in RollbackData
    BY <1>5, <1>7, Zenon DEF HandleResultFailure
  <2>2. [rollbacks[res.sn] EXCEPT !.enabled = TRUE] \in RollbackData
    BY <2>1, Zenon DEF RollbackData
  <2>3. rollbacks' \in [Sns -> RollbackData \cup {None}]
    BY <1>7, <2>1, <2>2, Zenon DEF HandleResultFailure, TypeOK
  <2>4. UNCHANGED <<lastSn, calls, reqVars, replyVars, feeVars, pendingReqs,
                    doneVars, defaultConnections, sent>>
    BY <1>7, Zenon DEF HandleResultFailure
  <2> QED
    BY <2>1, <2>3, <2>4, Zenon
       DEF TypeOK, reqVars, replyVars, feeVars, doneVars
<1> QED
  BY <1>2, <1>3, <1>4, <1>6, <1>7, MessageParts, Zenon DEF HandleMessage

LEMMA ErrorResult ==
  ASSUME NEW k \in Conn, NEW s \in Sns, HandleError(k, s)
  PROVE  \E res \in Result : HandleResultPending(k, res)
                              \/ HandleResultFailure(k, res)
BY Zenon DEF HandleError, Result, Code, Failure

\* An execution keeps the types.
LEMMA ExecutionTypes ==
  ASSUME TypeOK, NEW id \in ReqIds, NEW code \in Code,
         proxyReqs[id] # None, TakeProxyRequest(id), Executed(id, code)
  PROVE  /\ proxyReqs' \in [ReqIds -> Request \cup {None}]
         /\ executed' \subseteq ReqIds \X Request \X Code
         /\ proxyReqs[id] \in Request
BY DEF TypeOK, TakeProxyRequest, Executed

LEMMA ForeignKept ==
  ASSUME TypeOK, Foreign, UNCHANGED frames,
         \A id \in ReqIds : \/ proxyReqs'[id] \in {None, proxyReqs[id]}
                            \/ proxyReqs'[id].from \in Nets
  PROVE  Foreign'
BY Zenon DEF Foreign

LEMMA NewProxyRequestForeign ==
  ASSUME TypeOK, Foreign, UNCHANGED frames, NEW req \in Request,
         req.from \in Nets, NewProxyRequest(req)
  PROVE  Foreign'
<1>1. \A id \in ReqIds : proxyReqs'[id] \in {proxyReqs[id], req}
  BY Zenon DEF NewProxyRequest, TypeOK
<1> QED
  BY <1>1, ForeignKept, Zenon

LEMMA DeliveryForeign ==
  ASSUME TypeOK, Foreign, NEW src \in Nets, NEW k \in Conn,
         NEW m \in CSMessage, HandleMessage(src, k, m)
  PROVE  Foreign'
<1>1. ASSUME NEW req \in Request, HandleRequestPending(src, k, req)
      PROVE  Foreign'
  BY <1>1, Zenon DEF HandleRequestPending, Foreign, reqVars, replyVars
<1>2. ASSUME NEW req \in Request, HandleRequest(src, k, req)
      PROVE  Foreign'
  BY <1>2, NewProxyRequestForeign, Zenon DEF HandleRequest, replyVars
<1>3. ASSUME NEW res \in Result,
             HandleResultPending(k, res) \/ HandleResultFailure(k, res)
      PROVE  Foreign'
  BY <1>3, Zenon
     DEF HandleResultPending, HandleResultFailure, Foreign, reqVars,
              replyVars
<1>4. ASSUME NEW res \in Result, HandleResultSuccess(k, res)
      PROVE  Foreign'
  <2>1. UNCHANGED frames
    BY <1>4, Zenon DEF HandleResultSuccess, replyVars
  <2>2. CASE res.reply = None
    BY <1>4, <2>1, <2>2, Zenon DEF HandleResultSuccess, reqVars, Foreign
  <2>3. CASE res.reply # None
    <3> DEFINE rollback == rollbacks[res.sn]
               req == [res.reply EXCEPT !.protocols = rollback.sources]
    <3>1. rollback \in RollbackData
      BY <1>4, Zenon DEF HandleResultSuccess, ResultComplete, Result, TypeOK
    <3>2. /\ rollback.to \in Nets /\ rollback.sources \in Protocols
          /\ res.reply \in Request
      BY <2>3, <3>1, Zenon DEF RollbackData, Result
    <3>3. rollback.to = res.reply.from /\ NewProxyRequest(req)
      BY <1>4, <2>3, Zenon DEF HandleResultSuccess, HandleReply
    <3>4. req \in Request /\ req.from = res.reply.from
      BY <3>2, Zenon DEF Request
    <3> QED
      BY <2>1, <3>2, <3>3, <3>4, NewProxyRequestForeign, Zenon
  <2> QED
    BY <2>2, <2>3, Zenon
<1> QED
  BY <1>1, <1>2, <1>3, <1>4, MessageParts, Zenon DEF HandleMessage

\* Executions keep the types, and what they answer comes from elsewhere.
LEMMA ExecutionsType ==
  ASSUME EvmAssumption, TypeOK, Foreign, NEW id \in ReqIds,
         \/ \E code \in Code : ExecuteCall(id, code)
         \/ BeginTwoWay(id) \/ FailTwoWay(id)
  PROVE  TypeOK' /\ Foreign'
<1>1. ASSUME NEW code \in Code, ExecuteCall(id, code)
      PROVE  TypeOK' /\ Foreign'
  <2>1. /\ proxyReqs' \in [ReqIds -> Request \cup {None}]
        /\ executed' \subseteq ReqIds \X Request \X Code
    BY <1>1, ExecutionTypes, Zenon DEF ExecuteCall
  <2>2. UNCHANGED <<sendVars, lastReqId, admitted, replyVars, feeVars, pendVars,
                    successfulResponses, rolledBack, defaultConnections, sent>>
    BY <1>1, Zenon DEF ExecuteCall
  <2>3. TypeOK'
    BY <2>1, <2>2, Zenon DEF TypeOK, sendVars, replyVars, feeVars, pendVars
  <2>4. Foreign'
    BY <1>1, <2>2, ForeignKept, Zenon
       DEF ExecuteCall, TakeProxyRequest, TypeOK, replyVars
  <2> QED
    BY <2>3, <2>4, Zenon
<1>2. CASE BeginTwoWay(id)
  <2>1. /\ proxyReqs' \in [ReqIds -> Request \cup {None}]
        /\ executed' \subseteq ReqIds \X Request \X Code
        /\ proxyReqs[id] \in Request
    BY <1>2, ExecutionTypes, Zenon DEF BeginTwoWay, Code, Success
  <2>2. /\ UNCHANGED <<sendVars, lastReqId, admitted, callReply, feeVars,
                       pendVars, successfulResponses, rolledBack,
                       defaultConnections, sent>>
        /\ replyState' = proxyReqs[id]
        /\ frames' = Append(frames, proxyReqs[id]) /\ Len(frames) < MaxDepth
    BY <1>2, Zenon DEF BeginTwoWay
  <2>3. frames' \in Seq(Request) /\ Len(frames') <= MaxDepth
    BY <2>1, <2>2 DEF TypeOK, EvmAssumption
  <2>4. TypeOK'
    BY <2>1, <2>2, <2>3, Zenon DEF TypeOK, sendVars, feeVars, pendVars
  <2>5. \A i \in ReqIds : proxyReqs'[i] # None => proxyReqs'[i].from \in Nets
    BY <1>2, Zenon DEF BeginTwoWay, TakeProxyRequest, TypeOK, Foreign
  <2>6. proxyReqs[id].from \in Nets
    BY <1>2, Zenon DEF BeginTwoWay, Foreign
  <2>7. \A i \in DOMAIN frames' : frames'[i].from \in Nets
    BY <2>1, <2>2, <2>6 DEF TypeOK, Foreign
  <2> QED
    BY <2>4, <2>5, <2>7, Zenon DEF Foreign
<1>3. CASE FailTwoWay(id)
  <2>1. /\ proxyReqs' \in [ReqIds -> Request \cup {None}]
        /\ executed' \subseteq ReqIds \X Request \X Code
        /\ proxyReqs[id] \in Request
    BY <1>3, ExecutionTypes, Zenon DEF FailTwoWay, Code, Failure
  <2>2. PICK req \in Request : req = proxyReqs[id]
    BY <2>1, Zenon
  <2>3. req.from \in Nets /\ req.protocols \in Protocols
    BY <1>3, <2>2, Zenon DEF FailTwoWay, Foreign, Request
  <2>4. PICK res \in Result :
          res = [sn |-> req.sn, code |-> Failure, reply |-> None]
    BY <2>2, Zenon DEF Request, Result, Code, Failure
  <2>5. SendMessage(req.from, req.protocols, CSResult(res))
    BY <1>3, <2>2, <2>4, Zenon DEF FailTwoWay
  <2>6. sent' \subseteq [conn : Conn, net : Nets, msg : CSMessage]
    BY <2>3, <2>5, MessagesType, SendMessageTypes, Zenon
  <2>7. /\ UNCHANGED <<sendVars, lastReqId, admitted, callReply, frames, feeVars,
                       pendVars, successfulResponses, rolledBack,
                       defaultConnections>>
        /\ replyState' = None
    BY <1>3, Zenon DEF FailTwoWay
  <2>8. TypeOK'
    BY <2>1, <2>6, <2>7, Zenon DEF TypeOK, sendVars, feeVars, pendVars
  <2>9. Foreign'
    BY <1>3, <2>7, ForeignKept, Zenon DEF FailTwoWay, TakeProxyRequest, TypeOK
  <2> QED
    BY <2>8, <2>9, Zenon
<1> QED
  BY <1>1, <1>2, <1>3, Zenon

\* The end of an execution: its frame is the last, and is taken off.
LEMMA EndFrames ==
  ASSUME TypeOK, Foreign, EndTwoWay
  PROVE  /\ CurrentRequest \in Request /\ CurrentRequest.from \in Nets
         /\ frames' \in Seq(Request) /\ Len(frames') <= Len(frames)
         /\ Range(frames) = Range(frames') \cup {CurrentRequest}
         /\ \A i \in DOMAIN frames' : frames'[i].from \in Nets
<1> DEFINE n == Len(frames)
<1>1. /\ frames \in Seq(Request) /\ frames # <<>>
      /\ frames' = SubSeq(frames, 1, n - 1)
  BY Zenon DEF EndTwoWay, TypeOK
<1>2. n \in Nat /\ n > 0 /\ DOMAIN frames = 1..n
  BY <1>1
<1>3. frames[n] \in Request /\ frames[n].from \in Nets
  BY <1>1, <1>2 DEF Foreign
<1>4. /\ frames' \in Seq(Request) /\ Len(frames') = n - 1
      /\ DOMAIN frames' = 1..(n - 1)
      /\ \A i \in 1..(n - 1) : frames'[i] = frames[i]
  BY <1>1, <1>2
<1>5. Range(frames) = Range(frames') \cup {frames[n]}
  <2>1. 1..n = 1..(n - 1) \cup {n}
    BY <1>2
  <2> QED
    BY <1>2, <1>4, <2>1 DEF Range
<1> QED
  BY <1>2, <1>3, <1>4, <1>5 DEF CurrentRequest, Foreign

\* The result that ends an execution is a message.
LEMMA EndSends ==
  ASSUME TypeOK, Foreign, EndTwoWay
  PROVE  \E req \in Request, res \in Result :
           /\ req = CurrentRequest /\ req.from \in Nets
           /\ req.protocols \in Protocols
           /\ res.sn = req.sn /\ res.code = Success /\ res.reply = callReply
           /\ SendMessage(req.from, req.protocols, CSResult(res))
<1>1. PICK req \in Request : req = CurrentRequest
  BY EndFrames, Zenon
<1>2. req.from \in Nets /\ req.protocols \in Protocols /\ req.sn \in Sns
  BY <1>1, EndFrames, Zenon DEF Request
<1>3. PICK res \in Result :
        res = [sn |-> req.sn, code |-> Success, reply |-> callReply]
  BY <1>2, Zenon DEF Result, Code, Success, TypeOK
<1>4. SendMessage(req.from, req.protocols, CSResult(res))
  BY <1>1, <1>3, Zenon DEF EndTwoWay
<1> QED
  BY <1>1, <1>2, <1>3, <1>4, Zenon

LEMMA EndTypes ==
  ASSUME EvmAssumption, TypeOK, Foreign, EndTwoWay
  PROVE  TypeOK' /\ Foreign'
<1>1. sent' \subseteq [conn : Conn, net : Nets, msg : CSMessage]
  BY EndSends, MessagesType, SendMessageTypes, Zenon
<1>2. /\ UNCHANGED <<sendVars, reqVars, feeVars, pendVars, doneVars,
                     defaultConnections>>
      /\ replyState' = None /\ callReply' = None
  BY Zenon DEF EndTwoWay, TakeReply
<1>3. /\ frames' \in Seq(Request) /\ Len(frames') <= Len(frames)
      /\ \A i \in DOMAIN frames' : frames'[i].from \in Nets
  BY EndFrames, Zenon
<1>4. Len(frames') <= MaxDepth
  BY <1>3 DEF TypeOK, EvmAssumption
<1> QED
  BY <1>1, <1>2, <1>3, <1>4, Zenon
     DEF TypeOK, Foreign, sendVars, reqVars, feeVars, pendVars, doneVars

\* The rest: rollbacks and administration.
LEMMA OtherTypes ==
  ASSUME EvmAssumption, TypeOK, Foreign,
         \/ \E s \in Sns : ExecuteRollback(s)
         \/ \E net \in Nets, k \in Conn : SetDefaultConnection(net, k)
         \/ \E value \in FeeValues : SetProtocolFee(value)
         \/ \E k \in Conn, f, g \in FeeValues : SetFee(k, f, g)
  PROVE  TypeOK' /\ Foreign'
<1>1. ASSUME NEW s \in Sns, ExecuteRollback(s)
      PROVE  TypeOK' /\ Foreign'
  BY <1>1, Zenon
     DEF ExecuteRollback, CleanupCallRequest, TypeOK, Foreign, reqVars,
              replyVars, feeVars, pendVars
<1>2. ASSUME NEW net \in Nets, NEW k \in Conn, SetDefaultConnection(net, k)
      PROVE  TypeOK' /\ Foreign'
  BY <1>2, Zenon DEF SetDefaultConnection, TypeOK, Foreign, sendVars, reqVars,
              replyVars, feeVars, pendVars, doneVars
<1>3. ASSUME NEW value \in FeeValues, SetProtocolFee(value)
      PROVE  TypeOK' /\ Foreign'
  BY <1>3, Zenon DEF SetProtocolFee, EvmAssumption, TypeOK, Foreign, sendVars,
              reqVars, replyVars, pendVars, doneVars
<1>4. ASSUME NEW k \in Conn, NEW f \in FeeValues, NEW g \in FeeValues,
             SetFee(k, f, g)
      PROVE  TypeOK' /\ Foreign'
  <2>1. f \in Nat /\ g \in Nat
    BY Zenon DEF EvmAssumption
  <2>2. connFee' \in [Conn -> [BOOLEAN -> Nat]]
    BY <1>4, <2>1 DEF SetFee, TypeOK
  <2> QED
    BY <1>4, <2>2, Zenon
       DEF SetFee, TypeOK, Foreign, sendVars, reqVars, replyVars,
                      pendVars, doneVars
<1> QED
  BY <1>1, <1>2, <1>3, <1>4, Zenon

LEMMA StepTypes ==
  ASSUME EvmAssumption, TypeOK, Foreign, [EvmNext]_vars
  PROVE  TypeOK' /\ Foreign'
<1>1. ASSUME NEW to \in Nets, NEW o \in Outgoing, NEW data \in BOOLEAN,
             NEW value \in MsgValues,
             \/ SendReply(to, o[1], o[2], o[3], data, value)
             \/ SendOut(to, o[1], o[2], o[3], data, value)
      PROVE  TypeOK' /\ Foreign'
  <2>1. /\ o[1] \in MsgType /\ o[2] \in Protocols /\ o[3] \in Protocols
        /\ value \in Nat
    BY Zenon DEF EvmAssumption
  <2>2. TypeOK'
    BY <1>1, <2>1, SendTypes, Zenon
  <2>3. UNCHANGED <<proxyReqs, frames>>
    BY <1>1, Zenon DEF SendReply, SendOut, reqVars, replyVars
  <2> QED
    BY <2>2, <2>3, Zenon DEF Foreign
<1>2. ASSUME NEW src \in Nets, NEW k \in Conn, NEW m \in Wire,
             HandleMessage(src, k, m)
      PROVE  TypeOK' /\ Foreign'
  BY <1>2, DeliveryTypes, DeliveryForeign, Zenon DEF EvmAssumption
<1>3. ASSUME NEW k \in Conn, NEW s \in Sns, HandleError(k, s)
      PROVE  TypeOK' /\ Foreign'
  <2>1. PICK res \in Result :
          HandleResultPending(k, res) \/ HandleResultFailure(k, res)
    BY <1>3, ErrorResult, Zenon
  <2>2. rollbacks[res.sn] # None /\ res.sn \in Sns
    BY <2>1, Zenon
       DEF HandleResultPending, HandleResultFailure, ResultComplete,
                Result
  <2>3. PICK src \in Nets : src = rollbacks[res.sn].to
    BY <2>2, Zenon DEF TypeOK, RollbackData
  <2>4. HandleMessage(src, k, CSResult(res)) /\ CSResult(res) \in CSMessage
    BY <2>1, MessagesType, Zenon DEF HandleMessage, CSResult
  <2> QED
    BY <2>4, DeliveryTypes, DeliveryForeign, Zenon
<1>4. CASE UNCHANGED vars
  BY <1>4, Zenon
     DEF vars, TypeOK, Foreign, sendVars, reqVars, replyVars, feeVars,
              pendVars, doneVars
<1> QED
  BY <1>1, <1>2, <1>3, <1>4, ExecutionsType, EndTypes, OtherTypes, Zenon
     DEF EvmNext

-----------------------------------------------------------------------------
(***************************************************************************)
(* Admitting and settling                                                  *)
(***************************************************************************)
\* What SettleInv is about.
settleVars ==
  <<lastSn, rollbacks, calls, pendVars, successfulResponses, rolledBack,
    admitted>>

\* Requests stay vouched for when more is delivered.
LEMMA VouchedGrows ==
  ASSUME NEW H, NEW G, H \subseteq G, NEW A, AdmissionVouched(H, A)
  PROVE  AdmissionVouched(G, A)
<1> SUFFICES ASSUME NEW a \in A
             PROVE  AdmissionVouched(G, {a})
  BY Zenon DEF AdmissionVouched
<1>1. CASE EndorsedBy(H, {CSRequest(a[2])}, a[2].protocols)
  BY <1>1, EndorsedGrows, Zenon DEF AdmissionVouched
<1>2. CASE ~EndorsedBy(H, {CSRequest(a[2])}, a[2].protocols)
  <2>1. PICK s \in Sns :
          /\ EndorsedBy(H, ResultsOf(s, Code), a[2].protocols)
          /\ SaidBy(H, Carrying(s, a[2]), a[2].protocols)
    BY <1>2, Zenon DEF AdmissionVouched
  <2>2. /\ EndorsedBy(G, ResultsOf(s, Code), a[2].protocols)
        /\ SaidBy(G, Carrying(s, a[2]), a[2].protocols)
    BY <2>1, EndorsedGrows, SaidGrows, Zenon
  <2> QED
    BY <2>1, <2>2, Zenon DEF AdmissionVouched
<1> QED
  BY <1>1, <1>2, Zenon

\* So do settled calls.
LEMMA AnswersGrow ==
  ASSUME NEW H, NEW G, H \subseteq G, NEW C, NEW D, NEW S, NEW R,
         SettledOnAllAnswers(H, C, S, R),
         \A s \in S \cup R : D[s] = C[s]
  PROVE  SettledOnAllAnswers(G, D, S, R)
<1>1. \A s : EndorsedBy(H, ResultsOf(s, Code), C[s].protocols) =>
              EndorsedBy(G, ResultsOf(s, Code), C[s].protocols)
  BY EndorsedGrows, Zenon
<1>2. \A s, c : SaidBy(H, ResultsOf(s, {c}), C[s].protocols) =>
                 SaidBy(G, ResultsOf(s, {c}), C[s].protocols)
  BY SaidGrows, Zenon
<1> QED
  BY <1>1, <1>2, Zenon DEF SettledOnAllAnswers

\* A new call starts open.
LEMMA PreProcessSettle ==
  ASSUME TypeOK, SettleInv, NEW to, NEW type, NEW src \in Protocols, NEW data,
         to \in Nets, PreProcess(to, type, src, data),
         UNCHANGED <<pendVars, successfulResponses, rolledBack, admitted>>
  PROVE  SettleInv'
<1> DEFINE n == lastSn + 1
           settled == successfulResponses \cup rolledBack
<1>1. /\ lastSn \in Nat /\ n \in Sns /\ lastSn' = n
      /\ \A s \in Sns : s \in Nat
      /\ settled \subseteq Sns
  BY XcallAssumption DEF PreProcess, TypeOK, Sns
<1>2. \A s \in settled : s <= lastSn /\ s # n
  BY <1>1 DEF SettleInv, SettledHandedOut
<1>3. \A s \in Sns : s # n =>
        rollbacks'[s] = rollbacks[s] /\ calls'[s] = calls[s]
  BY Zenon DEF PreProcess, TypeOK
<1>4. rollbacks'[n] # None => rollbacks[n] # None \/
        /\ calls'[n] # None /\ calls'[n].protocols = rollbacks'[n].sources
        /\ ~rollbacks'[n].enabled
  <2>1. [to |-> to, protocols |-> src] \in Call
    BY Zenon DEF Call, Nets
  <2>2. [to |-> to, protocols |-> src] # None
    BY <2>1, XcallAssumption, Zenon
  <2>3. CASE type = TwoWay
    BY <1>1, <2>2, <2>3 DEF PreProcess, TypeOK
  <2>4. CASE type # TwoWay
    BY <2>4, Zenon DEF PreProcess
  <2> QED
    BY <2>3, <2>4, Zenon
<1>5. rollbacks[n] = None
  BY <1>1 DEF SettleInv, RollbacksOpen
<1>6. UNCHANGED <<heard, pendingReqs, pendingResponses>>
  BY Zenon DEF pendVars
<1>7. RollbacksOpen'
  <2> SUFFICES ASSUME NEW s \in Sns, rollbacks'[s] # None
               PROVE  /\ s <= n
                      /\ s \notin settled
                      /\ calls'[s] # None
                      /\ calls'[s].protocols = rollbacks'[s].sources
                      /\ rollbacks'[s].enabled =>
                           /\ EndorsedBy(heard, ResultsOf(s, Code),
                                         rollbacks'[s].sources)
                           /\ SaidBy(heard, ResultsOf(s, {Failure}),
                                     rollbacks'[s].sources)
    BY <1>1, <1>6, Zenon DEF RollbacksOpen
  <2>1. CASE s = n
    BY <1>1, <1>2, <1>4, <1>5, <2>1
  <2>2. CASE s # n
    <3>1. rollbacks'[s] = rollbacks[s] /\ calls'[s] = calls[s]
      BY <1>3, <2>2, Zenon
    <3>2. s <= lastSn => s <= n
      BY <1>1
    <3> QED
      BY <3>1, <3>2, Zenon DEF SettleInv, RollbacksOpen
  <2> QED
    BY <2>1, <2>2, Zenon
<1>8. PendingHeard' /\ RequestsEndorsed'
  BY <1>6, Zenon DEF SettleInv, PendingHeard, RequestsEndorsed, AnsweredBy
<1>9. SettledHandedOut'
  BY <1>1, <1>2 DEF SettledHandedOut
<1>10. ResultsVouched'
  <2>1. \A s \in settled : calls'[s] = calls[s]
    BY <1>1, <1>2, <1>3, Zenon
  <2>2. SettledOnAllAnswers(heard, calls, successfulResponses, rolledBack)
    BY Zenon DEF SettleInv, ResultsVouched
  <2>3. SettledOnAllAnswers(heard, calls', successfulResponses, rolledBack)
    BY <2>1, <2>2, Zenon DEF SettledOnAllAnswers
  <2> QED
    BY <1>6, <2>3, Zenon DEF ResultsVouched
<1>11. SettledOnce'
  BY <1>1, <1>2, <1>3, Zenon DEF SettleInv, SettledOnce
<1> QED
  BY <1>7, <1>8, <1>9, <1>10, <1>11, Zenon DEF SettleInv

\* What a delivery may do besides: collect or clear deliveries, admit a
\* request that is vouched for, settle a call or enable its rollback.
LEMMA HearSettle ==
  ASSUME TypeOK, SettleInv, heard \subseteq heard', PendingHeard',
         UNCHANGED <<lastSn, calls, rolledBack>>,
         AdmissionVouched(heard', admitted' \ admitted),
         NEW s \in Sns,
         \A t \in Sns : t # s => rollbacks'[t] = rollbacks[t],
         \/ UNCHANGED <<rollbacks, successfulResponses>>
         \/ /\ rollbacks[s] # None /\ rollbacks'[s] = None
            /\ successfulResponses' = successfulResponses \cup {s}
            /\ EndorsedBy(heard', ResultsOf(s, Code), rollbacks[s].sources)
            /\ SaidBy(heard', ResultsOf(s, {Success}), rollbacks[s].sources)
         \/ /\ rollbacks[s] # None /\ UNCHANGED successfulResponses
            /\ rollbacks'[s] = [rollbacks[s] EXCEPT !.enabled = TRUE]
            /\ EndorsedBy(heard', ResultsOf(s, Code), rollbacks[s].sources)
            /\ SaidBy(heard', ResultsOf(s, {Failure}), rollbacks[s].sources)
  PROVE  SettleInv'
<1> DEFINE settled == successfulResponses \cup rolledBack
<1>1. settled \subseteq Sns /\ settled' \subseteq Sns
  BY Zenon DEF TypeOK
<1>2. RequestsEndorsed'
  <2>1. AdmissionVouched(heard', admitted)
    BY VouchedGrows, Zenon DEF SettleInv, RequestsEndorsed
  <2> QED
    BY <2>1, Zenon DEF RequestsEndorsed, AdmissionVouched
<1>3. SettledOnAllAnswers(heard', calls, successfulResponses, rolledBack)
  BY AnswersGrow, Zenon DEF SettleInv, ResultsVouched
<1>4. rollbacks[s] # None =>
        /\ s <= lastSn /\ s \notin settled /\ calls[s] # None
        /\ calls[s].protocols = rollbacks[s].sources
        /\ rollbacks[s] \in RollbackData
  BY Zenon DEF SettleInv, RollbacksOpen, TypeOK
<1>5. \A t \in settled : rollbacks[t] = None /\ t <= lastSn
  BY Zenon DEF SettleInv, SettledOnce, SettledHandedOut
<1>6. \A t \in Sns : rollbacks[t] # None /\ rollbacks[t].enabled =>
        /\ EndorsedBy(heard', ResultsOf(t, Code), rollbacks[t].sources)
        /\ SaidBy(heard', ResultsOf(t, {Failure}), rollbacks[t].sources)
  <2> SUFFICES ASSUME NEW t \in Sns, rollbacks[t] # None, rollbacks[t].enabled
               PROVE  /\ EndorsedBy(heard', ResultsOf(t, Code),
                                    rollbacks[t].sources)
                      /\ SaidBy(heard', ResultsOf(t, {Failure}), rollbacks[t].sources)
    BY Zenon
  <2>1. /\ EndorsedBy(heard, ResultsOf(t, Code), rollbacks[t].sources)
        /\ SaidBy(heard, ResultsOf(t, {Failure}), rollbacks[t].sources)
    BY Zenon DEF SettleInv, RollbacksOpen
  <2> QED
    BY <2>1, EndorsedGrows, SaidGrows, Zenon
<1>7. \A t \in Sns : rollbacks[t] # None =>
        /\ t <= lastSn /\ t \notin settled /\ calls[t] # None
        /\ calls[t].protocols = rollbacks[t].sources
  BY Zenon DEF SettleInv, RollbacksOpen
<1>8. CASE UNCHANGED <<rollbacks, successfulResponses>>
  <2>1. RollbacksOpen'
    BY <1>6, <1>7, <1>8, Zenon DEF RollbacksOpen
  <2>2. SettledHandedOut' /\ SettledOnce'
    BY <1>8, Zenon DEF SettleInv, SettledHandedOut, SettledOnce
  <2>3. ResultsVouched'
    BY <1>3, <1>8, Zenon DEF ResultsVouched
  <2> QED
    BY <1>2, <2>1, <2>2, <2>3, Zenon DEF SettleInv
<1>9. CASE /\ rollbacks[s] # None /\ rollbacks'[s] = None
           /\ successfulResponses' = successfulResponses \cup {s}
           /\ EndorsedBy(heard', ResultsOf(s, Code), rollbacks[s].sources)
           /\ SaidBy(heard', ResultsOf(s, {Success}), rollbacks[s].sources)
  <2>1. RollbacksOpen'
    BY <1>6, <1>7, <1>9, Zenon DEF RollbacksOpen
  <2>2. SettledHandedOut'
    BY <1>4, <1>5, <1>9, Zenon DEF SettledHandedOut
  <2>3. SettledOnce'
    <3>1. \A t \in settled' : rollbacks'[t] = None
      BY <1>1, <1>5, <1>9, Zenon
    <3>2. successfulResponses' \cap rolledBack' = {}
      BY <1>4, <1>9, Zenon DEF SettleInv, SettledOnce
    <3> QED
      BY <3>1, <3>2, Zenon DEF SettledOnce
  <2>4. ResultsVouched'
    BY <1>3, <1>4, <1>9, Zenon DEF ResultsVouched, SettledOnAllAnswers
  <2> QED
    BY <1>2, <2>1, <2>2, <2>3, <2>4, Zenon DEF SettleInv
<1>10. CASE /\ rollbacks[s] # None /\ UNCHANGED successfulResponses
            /\ rollbacks'[s] = [rollbacks[s] EXCEPT !.enabled = TRUE]
            /\ EndorsedBy(heard', ResultsOf(s, Code), rollbacks[s].sources)
            /\ SaidBy(heard', ResultsOf(s, {Failure}), rollbacks[s].sources)
  <2>1. rollbacks'[s].sources = rollbacks[s].sources
    BY <1>4, <1>10, Zenon DEF RollbackData
  <2>2. RollbacksOpen'
    BY <1>4, <1>6, <1>7, <1>10, <2>1, Zenon DEF RollbacksOpen
  <2>3. SettledHandedOut'
    BY <1>10, Zenon DEF SettleInv, SettledHandedOut
  <2>4. SettledOnce'
    BY <1>1, <1>4, <1>5, <1>10, Zenon DEF SettleInv, SettledOnce
  <2>5. ResultsVouched'
    BY <1>3, <1>10, Zenon DEF ResultsVouched
  <2> QED
    BY <1>2, <2>2, <2>3, <2>4, <2>5, Zenon DEF SettleInv
<1> QED
  BY <1>8, <1>9, <1>10, Zenon

\* handleRequest keeps the invariant.
LEMMA RequestSettle ==
  ASSUME TypeOK, SettleInv, NEW src \in Nets, NEW k \in Conn,
         NEW req \in Request,
         HandleRequestPending(src, k, req) \/ HandleRequest(src, k, req)
  PROVE  SettleInv'
<1>1. /\ heard' = heard \cup {<<CSRequest(req), k>>}
      /\ UNCHANGED <<lastSn, rollbacks, calls, rolledBack, successfulResponses,
                     pendingResponses>>
  BY Zenon DEF HandleRequestPending, HandleRequest, Hear, sendVars, doneVars
<1>2. pendingReqs' \subseteq pendingReqs \cup {<<req, k>>}
  BY Zenon DEF HandleRequestPending, HandleRequest, Cleared
<1>3. PendingHeard'
  <2>1. \A p \in pendingReqs' : <<CSRequest(p[1]), p[2]>> \in heard'
    BY <1>1, <1>2 DEF SettleInv, PendingHeard
  <2>2. \A p \in pendingResponses' : AnsweredBy(p[1], p[2])'
    BY <1>1, Zenon DEF SettleInv, PendingHeard, AnsweredBy
  <2> QED
    BY <2>1, <2>2, Zenon DEF PendingHeard
<1>4. AdmissionVouched(heard', admitted' \ admitted)
  <2>1. CASE HandleRequestPending(src, k, req)
    BY <2>1, Zenon DEF HandleRequestPending, reqVars, AdmissionVouched
  <2>2. CASE HandleRequest(src, k, req)
    <3>1. req.protocols \in Protocols
      BY Zenon DEF Request
    <3>2. \A q \in Range(req.protocols) : <<req, q>> \in pendingReqs =>
            <<CSRequest(req), q>> \in heard'
      BY <1>1, Zenon DEF SettleInv, PendingHeard
    <3>3. Len(req.protocols) > 1 => \A q \in Range(req.protocols) :
            q = k \/ \E h \in heard' : h[1] \in {CSRequest(req)} /\ h[2] = q
      BY <2>2, <3>2, Zenon DEF HandleRequest, AllDelivered
    <3>4. EndorsedBy(heard', {CSRequest(req)}, req.protocols)
      BY <1>1, <2>2, <3>1, <3>3, Endorses, ZenonT(30) DEF HandleRequest
    <3>5. \A a \in admitted' \ admitted : a[2] = req
      BY <2>2 DEF HandleRequest, NewProxyRequest
    <3> QED
      BY <3>4, <3>5, Zenon DEF AdmissionVouched
  <2> QED
    BY <2>1, <2>2, Zenon
<1>5. CASE \E s : s \in Sns
  BY <1>1, <1>3, <1>4, <1>5, HearSettle, Zenon
<1>6. req.sn \in Sns
  BY Zenon DEF Request
<1> QED
  BY <1>5, <1>6, Zenon

\* Connection k may speak for the list.
Listed(k, p) == p = <<>> \/ k \in Range(p)

\* Results: what completes a call, and who.
LEMMA CompleteEndorsed ==
  ASSUME TypeOK, AwaitInv, SettleInv, NEW k \in Conn, NEW res \in Result,
         ResultComplete(k, res)
  PROVE  /\ res.sn \in Sns /\ rollbacks[res.sn] # None
         /\ Listed(k, rollbacks[res.sn].sources)
         /\ heard' = heard \cup {<<CSResult(res), k>>}
         /\ EndorsedBy(heard', ResultsOf(res.sn, Code),
                       rollbacks[res.sn].sources)
         /\ pendingResponses' \subseteq pendingResponses \cup {<<res.sn, k>>}
<1> DEFINE s == res.sn
           p == rollbacks[s].sources
           to == rollbacks[s].to
<1>1. s \in Sns /\ rollbacks[s] # None /\ res.code \in Code
  BY Zenon DEF Result, ResultComplete
<1>2. p \in Protocols /\ to \in Nets
  BY <1>1, Zenon DEF TypeOK, RollbackData
<1>3. heard' = heard \cup {<<CSResult(res), k>>}
  BY Zenon DEF ResultComplete, Hear
<1>4. CSResult(res) \in ResultsOf(s, Code)
  BY <1>1, ResultIn, Zenon
<1>5. /\ Authorized(to, k, p)
      /\ Len(p) > 1 => AllDelivered(pendingResponses, s, k, p)
      /\ pendingResponses' \subseteq pendingResponses \cup {<<s, k>>}
  BY Zenon DEF ResultComplete, Cleared
<1>6. \A q : <<s, q>> \in pendingResponses => AnsweredBy(s, q)
  BY Zenon DEF SettleInv, PendingHeard
<1>7. Len(p) > 1 => \A q \in Range(p) :
        q = k \/ \E h \in heard' : h[1] \in ResultsOf(s, Code) /\ h[2] = q
  BY <1>3, <1>5, <1>6, Zenon DEF AllDelivered, AnsweredBy
<1>8. EndorsedBy(heard', ResultsOf(s, Code), p)
  BY <1>2, <1>3, <1>4, <1>5, <1>7, Endorses, Zenon
<1>9. Listed(k, p)
  <2>1. CASE Len(p) > 1
    <3>1. PICK q \in Range(p) : <<s, q>> \notin pendingResponses
      BY <1>1, <2>1, Zenon DEF AwaitInv
    <3> QED
      BY <1>5, <2>1, <3>1, Zenon DEF AllDelivered, Listed
  <2>2. CASE ~(Len(p) > 1)
    BY <1>5, <2>2, Zenon DEF Authorized, Confirmed, Listed
  <2> QED
    BY <2>1, <2>2, Zenon
<1> QED
  BY <1>1, <1>3, <1>5, <1>8, <1>9, Zenon

\* What it says.
LEMMA ListedSays ==
  ASSUME NEW k, NEW p, Listed(k, p), NEW H, NEW m, <<m, k>> \in H, NEW M, m \in M
  PROVE  SaidBy(H, M, p)
<1>1. PICK h \in H : h = <<m, k>>
  BY Zenon
<1>2. h[1] = m /\ h[2] = k
  BY <1>1, Zenon
<1> QED
  BY <1>2, Zenon DEF SaidBy, Listed

\* Answers that are collected were given.
LEMMA AnswerHeard ==
  ASSUME SettleInv, NEW k \in Conn, NEW res \in Result,
         heard' = heard \cup {<<CSResult(res), k>>}, UNCHANGED pendingReqs,
         pendingResponses' \subseteq pendingResponses \cup {<<res.sn, k>>}
  PROVE  PendingHeard'
<1>1. CSResult(res) \in ResultsOf(res.sn, Code)
  BY ResultIn, Zenon DEF Result
<1>2. <<CSResult(res), k>>[1] = CSResult(res) /\ <<CSResult(res), k>>[2] = k
  BY Zenon
<1>3. AnsweredBy(res.sn, k)'
  BY <1>1, <1>2, Zenon DEF AnsweredBy
<1>4. \A p \in pendingResponses : AnsweredBy(p[1], p[2])'
  BY Zenon DEF SettleInv, PendingHeard, AnsweredBy
<1>5. \A p \in pendingResponses' : AnsweredBy(p[1], p[2])'
  BY <1>3, <1>4
<1> QED
  BY <1>5, Zenon DEF SettleInv, PendingHeard

LEMMA ResultPendingSettle ==
  ASSUME TypeOK, SettleInv, NEW k \in Conn, NEW res \in Result,
         HandleResultPending(k, res)
  PROVE  SettleInv'
<1>1. /\ heard' = heard \cup {<<CSResult(res), k>>}
      /\ pendingResponses' = pendingResponses \cup {<<res.sn, k>>}
      /\ UNCHANGED <<lastSn, rollbacks, calls, rolledBack, successfulResponses,
                     pendingReqs, admitted>>
  BY Zenon DEF HandleResultPending, Hear, sendVars, reqVars, doneVars
<1>2. PendingHeard'
  BY <1>1, AnswerHeard, Zenon
<1>3. AdmissionVouched(heard', admitted' \ admitted)
  BY <1>1, Zenon DEF AdmissionVouched
<1>4. res.sn \in Sns
  BY Zenon DEF Result
<1> QED
  BY <1>1, <1>2, <1>3, <1>4, HearSettle, Zenon

LEMMA ResultSuccessSettle ==
  ASSUME TypeOK, AwaitInv, SettleInv, NEW k \in Conn, NEW res \in Result,
         HandleResultSuccess(k, res)
  PROVE  SettleInv'
<1> DEFINE s == res.sn
           p == rollbacks[s].sources
<1>1. /\ s \in Sns /\ rollbacks[s] # None /\ Listed(k, p)
      /\ heard' = heard \cup {<<CSResult(res), k>>}
      /\ EndorsedBy(heard', ResultsOf(s, Code), p)
      /\ pendingResponses' \subseteq pendingResponses \cup {<<s, k>>}
  BY CompleteEndorsed, Zenon DEF HandleResultSuccess
<1>2. /\ UNCHANGED <<lastSn, calls, rolledBack, pendingReqs>>
      /\ successfulResponses' = successfulResponses \cup {s}
      /\ rollbacks' = [rollbacks EXCEPT ![s] = None]
      /\ res.code = Success
  BY Zenon DEF HandleResultSuccess, CleanupCallRequest
<1>3. PendingHeard'
  BY <1>1, <1>2, AnswerHeard, Zenon
<1>4. /\ <<CSResult(res), k>> \in heard' /\ CSResult(res) \in ResultsOf(s, {Success})
      /\ SaidBy(heard', ResultsOf(s, {Success}), p)
  <2>1. CSResult(res) \in ResultsOf(s, {Success})
    BY <1>2, ResultIn, Zenon
  <2>2. <<CSResult(res), k>> \in heard'
    BY <1>1, Zenon
  <2> QED
    BY <1>1, <2>1, <2>2, ListedSays, Zenon
<1>5. AdmissionVouched(heard', admitted' \ admitted)
  <2>1. CASE res.reply = None
    BY <2>1, Zenon DEF HandleResultSuccess, reqVars, AdmissionVouched
  <2>2. CASE res.reply # None
    <3>1. PICK req : req = [res.reply EXCEPT !.protocols = p]
      BY Zenon
    <3>2. NewProxyRequest(req)
      BY <2>2, <3>1, Zenon DEF HandleResultSuccess, HandleReply
    <3>3. \A a \in admitted' \ admitted : a[2] = req
      BY <3>2 DEF NewProxyRequest
    <3>4. res.reply \in Request /\ req.protocols = p
      BY <2>2, <3>1, Zenon DEF Result, Request
    <3>5. CSResult(res).payload = res
      BY Zenon DEF CSResult
    <3>6. CSResult(res) \in Carrying(s, req)
      BY <1>4, <2>2, <3>1, <3>4, <3>5, Zenon DEF Carrying
    <3>7. SaidBy(heard', Carrying(s, req), p)
      BY <1>1, <1>4, <3>6, ListedSays, Zenon
    <3> QED
      BY <1>1, <3>3, <3>4, <3>7, Zenon DEF AdmissionVouched
  <2> QED
    BY <2>1, <2>2, Zenon
<1>6. /\ \A t \in Sns : t # s => rollbacks'[t] = rollbacks[t]
      /\ rollbacks'[s] = None
  BY <1>1, <1>2, Zenon DEF TypeOK
<1> QED
  BY <1>1, <1>2, <1>3, <1>4, <1>5, <1>6, HearSettle, Zenon

LEMMA ResultFailureSettle ==
  ASSUME TypeOK, AwaitInv, SettleInv, NEW k \in Conn, NEW res \in Result,
         HandleResultFailure(k, res)
  PROVE  SettleInv'
<1> DEFINE s == res.sn
<1>1. /\ s \in Sns /\ rollbacks[s] # None /\ Listed(k, rollbacks[s].sources)
      /\ heard' = heard \cup {<<CSResult(res), k>>}
      /\ EndorsedBy(heard', ResultsOf(s, Code), rollbacks[s].sources)
      /\ pendingResponses' \subseteq pendingResponses \cup {<<s, k>>}
  BY CompleteEndorsed, Zenon DEF HandleResultFailure
<1>2. /\ UNCHANGED <<lastSn, calls, rolledBack, pendingReqs, admitted,
                     successfulResponses>>
      /\ rollbacks' = [rollbacks EXCEPT ![s].enabled = TRUE]
      /\ res.code = Failure
  BY Zenon DEF HandleResultFailure, reqVars, doneVars
<1>3. PendingHeard'
  BY <1>1, <1>2, AnswerHeard, Zenon
<1>4. SaidBy(heard', ResultsOf(s, {Failure}), rollbacks[s].sources)
  <2>1. CSResult(res) \in ResultsOf(s, {Failure})
    BY <1>2, ResultIn, Zenon
  <2>2. <<CSResult(res), k>> \in heard'
    BY <1>1, Zenon
  <2> QED
    BY <1>1, <2>1, <2>2, ListedSays, Zenon
<1>5. AdmissionVouched(heard', admitted' \ admitted)
  BY <1>2, Zenon DEF AdmissionVouched
<1>6. /\ \A t \in Sns : t # s => rollbacks'[t] = rollbacks[t]
      /\ rollbacks'[s] = [rollbacks[s] EXCEPT !.enabled = TRUE]
  BY <1>1, <1>2, Zenon DEF TypeOK
<1> QED
  BY <1>1, <1>2, <1>3, <1>4, <1>5, <1>6, HearSettle, Zenon

\* A rollback that runs was enabled, and is gone.
LEMMA RollbackSettle ==
  ASSUME TypeOK, SettleInv, NEW s \in Sns, ExecuteRollback(s)
  PROVE  SettleInv'
<1>1. /\ rollbacks[s] # None /\ rollbacks[s].enabled
      /\ rolledBack' = rolledBack \cup {s}
      /\ UNCHANGED <<lastSn, calls, heard, pendingReqs, pendingResponses,
                     successfulResponses, admitted>>
      /\ rollbacks' = [rollbacks EXCEPT ![s] = None]
  BY Zenon DEF ExecuteRollback, CleanupCallRequest, reqVars, pendVars
<1>2. /\ s <= lastSn /\ s \notin successfulResponses
      /\ calls[s].protocols = rollbacks[s].sources
      /\ EndorsedBy(heard, ResultsOf(s, Code), rollbacks[s].sources)
      /\ SaidBy(heard, ResultsOf(s, {Failure}), rollbacks[s].sources)
  BY <1>1, Zenon DEF SettleInv, RollbacksOpen
<1>3. /\ \A t \in Sns : t # s => rollbacks'[t] = rollbacks[t]
      /\ rollbacks'[s] = None
      /\ successfulResponses \subseteq Sns /\ rolledBack \subseteq Sns
  BY <1>1, Zenon DEF TypeOK
<1>4. PendingHeard' /\ RequestsEndorsed'
  BY <1>1, Zenon DEF SettleInv, PendingHeard, RequestsEndorsed, AnsweredBy
<1>5. RollbacksOpen'
  BY <1>1, <1>3, Zenon DEF SettleInv, RollbacksOpen
<1>6. SettledHandedOut' /\ SettledOnce'
  BY <1>1, <1>2, <1>3, Zenon DEF SettleInv, SettledHandedOut, SettledOnce
<1>7. ResultsVouched'
  BY <1>1, <1>2, Zenon DEF SettleInv, ResultsVouched, SettledOnAllAnswers
<1> QED
  BY <1>4, <1>5, <1>6, <1>7, Zenon DEF SettleInv

\* What is still awaited, when only call s changes.
LEMMA AwaitKept ==
  ASSUME AwaitInv, NEW s,
         \A p \in pendingResponses' : p[1] <= lastSn',
         \A t \in Sns : t # s =>
           /\ rollbacks'[t] = rollbacks[t]
           /\ \A k : <<t, k>> \in pendingResponses' => <<t, k>> \in pendingResponses,
         rollbacks'[s] # None /\ Len(rollbacks'[s].sources) > 1 =>
           \E k \in Range(rollbacks'[s].sources) : <<s, k>> \notin pendingResponses'
  PROVE  AwaitInv'
<1> SUFFICES ASSUME NEW t \in Sns, rollbacks'[t] # None,
                    Len(rollbacks'[t].sources) > 1
             PROVE  \E k \in Range(rollbacks'[t].sources) :
                      <<t, k>> \notin pendingResponses'
  BY Zenon DEF AwaitInv
<1>1. CASE t = s
  BY <1>1, Zenon
<1>2. CASE t # s
  <2>1. rollbacks'[t] = rollbacks[t]
    BY <1>2, Zenon
  <2>2. PICK k \in Range(rollbacks[t].sources) : <<t, k>> \notin pendingResponses
    BY <2>1, Zenon DEF AwaitInv
  <2> QED
    BY <1>2, <2>1, <2>2, Zenon
<1> QED
  BY <1>1, <1>2, Zenon

LEMMA AwaitSame ==
  ASSUME AwaitInv, UNCHANGED <<lastSn, rollbacks, pendingResponses>>
  PROVE  AwaitInv'
BY Zenon DEF AwaitInv

LEMMA SendAwaits ==
  ASSUME TypeOK, AwaitInv, NEW to, NEW type, NEW src \in Protocols, NEW data,
         PreProcess(to, type, src, data), UNCHANGED pendingResponses
  PROVE  AwaitInv'
<1>1. PICK n : n = lastSn + 1
  BY Zenon
<1>2. /\ n \in Sns /\ lastSn' = n
      /\ \A p \in pendingResponses : p[1] <= n /\ p[1] # n
  <2>1. lastSn \in Nat /\ \A p \in pendingResponses : p[1] \in Sns
    BY DEF TypeOK
  <2>2. \A t \in Sns : t <= lastSn => t <= n /\ t # n
    BY <1>1, <2>1 DEF Sns
  <2>3. n \in Sns /\ lastSn' = n
    BY <1>1, Zenon DEF PreProcess
  <2> QED
    BY <2>1, <2>2, <2>3, Zenon DEF AwaitInv
<1>3. \A t \in Sns : t # n => rollbacks'[t] = rollbacks[t]
  BY <1>1, Zenon DEF PreProcess, TypeOK
<1>4. \A k : <<n, k>> \notin pendingResponses
  <2> SUFFICES ASSUME NEW k, <<n, k>> \in pendingResponses
               PROVE  FALSE
    BY Zenon
  <2>1. PICK p \in pendingResponses : p = <<n, k>>
    BY Zenon
  <2>2. p[1] = n
    BY <2>1, Zenon
  <2> QED
    BY <1>2, <2>2, Zenon
<1>5. rollbacks'[n] # None /\ Len(rollbacks'[n].sources) > 1 =>
        \E k \in Range(rollbacks'[n].sources) : <<n, k>> \notin pendingResponses
  <2>1. rollbacks'[n] # None => rollbacks'[n] = rollbacks[n] \/
          rollbacks'[n].sources = src
    BY <1>1, <1>2 DEF PreProcess, TypeOK
  <2>2. Len(src) > 1 => \E k : k \in Range(src)
    BY ListOfConns DEF Range
  <2>3. rollbacks'[n] = rollbacks[n] \/ rollbacks'[n].sources = src =>
          (rollbacks'[n] # None /\ Len(rollbacks'[n].sources) > 1 =>
             \E k : k \in Range(rollbacks'[n].sources))
    BY <1>2, <2>2, Zenon DEF AwaitInv
  <2> QED
    BY <1>4, <2>1, <2>3, Zenon
<1> QED
  BY <1>2, <1>3, <1>5, AwaitKept, Zenon

LEMMA ResultAwaits ==
  ASSUME TypeOK, AwaitInv, SettleInv, NEW k \in Conn, NEW res \in Result,
         \/ HandleResultPending(k, res)
         \/ HandleResultSuccess(k, res)
         \/ HandleResultFailure(k, res)
  PROVE  AwaitInv'
<1>1. PICK s : s = res.sn
  BY Zenon
<1>2. /\ s \in Sns /\ rollbacks[s] # None /\ lastSn' = lastSn
      /\ pendingResponses' \subseteq pendingResponses \cup {<<s, k>>}
  <2>1. s \in Sns
    BY <1>1, Zenon DEF Result
  <2> QED
    BY <1>1, <2>1, Zenon
       DEF HandleResultPending, HandleResultSuccess, HandleResultFailure,
           ResultComplete, Cleared, sendVars
<1>3. s <= lastSn /\ rollbacks[s] \in RollbackData
  BY <1>2, Zenon DEF SettleInv, RollbacksOpen, TypeOK
<1>4. \A p \in pendingResponses' : p[1] <= lastSn'
  <2>1. <<s, k>>[1] = s
    BY Zenon
  <2> QED
    BY <1>2, <1>3, <2>1, Zenon DEF AwaitInv
<1>5. ASSUME NEW t, t # s, NEW q, <<t, q>> \in pendingResponses'
      PROVE  <<t, q>> \in pendingResponses
  <2>1. <<t, q>> # <<s, k>>
    BY <1>5
  <2> QED
    BY <1>2, <1>5, <2>1, Zenon
<1>6. /\ \A t \in Sns : t # s => rollbacks'[t] = rollbacks[t]
      /\ rollbacks'[s] # None => rollbacks'[s].sources = rollbacks[s].sources
  <2>1. CASE HandleResultPending(k, res)
    BY <2>1, Zenon DEF HandleResultPending, sendVars
  <2>2. CASE HandleResultSuccess(k, res)
    BY <1>1, <1>2, <2>2, Zenon DEF HandleResultSuccess, CleanupCallRequest, TypeOK
  <2>3. CASE HandleResultFailure(k, res)
    <3>1. /\ \A t \in Sns : t # s => rollbacks'[t] = rollbacks[t]
          /\ rollbacks'[s] = [rollbacks[s] EXCEPT !.enabled = TRUE]
      BY <1>1, <1>2, <2>3, Zenon DEF HandleResultFailure, TypeOK
    <3>2. rollbacks'[s].sources = rollbacks[s].sources
      BY <1>3, <3>1, Zenon DEF RollbackData
    <3> QED
      BY <3>1, <3>2, Zenon
  <2> QED
    BY <2>1, <2>2, <2>3, Zenon
<1>7. ASSUME Len(rollbacks[s].sources) > 1
      PROVE  \E q \in Range(rollbacks[s].sources) : <<s, q>> \notin pendingResponses'
  <2>1. CASE HandleResultPending(k, res)
    <3>1. PICK q \in Range(rollbacks[s].sources) :
            q # k /\ <<s, q>> \notin pendingResponses
      BY <1>1, <2>1, Zenon DEF HandleResultPending, AllDelivered
    <3>2. <<s, q>> # <<s, k>>
      BY <3>1
    <3> QED
      BY <1>2, <3>1, <3>2, Zenon
  <2>2. CASE ResultComplete(k, res)
    <3>1. PICK q : q \in Range(rollbacks[s].sources)
      BY <1>2, <1>7, Zenon DEF AwaitInv
    <3>2. <<s, q>> \notin pendingResponses'
      BY <1>1, <1>7, <2>2, <3>1, Zenon DEF ResultComplete, Cleared
    <3> QED
      BY <3>1, <3>2, Zenon
  <2> QED
    BY <2>1, <2>2, Zenon DEF HandleResultSuccess, HandleResultFailure
<1> QED
  BY <1>4, <1>5, <1>6, <1>7, AwaitKept, Zenon

LEMMA SettleKept ==
  ASSUME SettleInv, UNCHANGED settleVars
  PROVE  SettleInv'
BY Zenon
   DEF settleVars, pendVars, SettleInv, PendingHeard, AnsweredBy, RollbacksOpen,
       SettledHandedOut, RequestsEndorsed, ResultsVouched, SettledOnce

LEMMA StepSettles ==
  ASSUME EvmAssumption, TypeOK, AwaitInv, SettleInv, [EvmNext]_vars
  PROVE  SettleInv'
<1>1. ASSUME NEW to \in Nets, NEW o \in Outgoing, NEW data \in BOOLEAN,
             NEW value \in MsgValues,
             \/ SendReply(to, o[1], o[2], o[3], data, value)
             \/ SendOut(to, o[1], o[2], o[3], data, value)
      PROVE  SettleInv'
  <2>1. o[2] \in Protocols
    BY Zenon DEF EvmAssumption
  <2>2. PreProcess(to, o[1], o[2], data)
    BY <1>1, Zenon DEF SendReply, SendOut
  <2>3. UNCHANGED <<pendVars, successfulResponses, rolledBack, admitted>>
    BY <1>1, Zenon DEF SendReply, SendOut, doneVars, reqVars
  <2> QED
    BY <2>1, <2>2, <2>3, PreProcessSettle, Zenon
<1>2. ASSUME NEW src \in Nets, NEW k \in Conn, NEW m \in Wire,
             HandleMessage(src, k, m)
      PROVE  SettleInv'
  <2>1. m \in CSMessage
    BY Zenon DEF EvmAssumption
  <2> QED
    BY <1>2, <2>1, MessageParts, RequestSettle, ResultPendingSettle,
       ResultSuccessSettle, ResultFailureSettle, Zenon DEF HandleMessage
<1>3. ASSUME NEW k \in Conn, NEW s \in Sns, HandleError(k, s)
      PROVE  SettleInv'
  BY <1>3, ErrorResult, ResultPendingSettle, ResultFailureSettle, Zenon
<1>4. ASSUME NEW id \in ReqIds,
             \/ \E code \in Code : ExecuteCall(id, code)
             \/ BeginTwoWay(id) \/ FailTwoWay(id)
      PROVE  SettleInv'
  <2>1. UNCHANGED settleVars
    BY <1>4, Zenon
       DEF ExecuteCall, BeginTwoWay, FailTwoWay, settleVars, sendVars
  <2> QED
    BY <2>1, SettleKept, Zenon
<1>5. CASE EndTwoWay
  BY <1>5, SettleKept, Zenon
     DEF EndTwoWay, settleVars, sendVars, reqVars, doneVars
<1>6. CASE \/ \E net \in Nets, k \in Conn : SetDefaultConnection(net, k)
           \/ \E value \in FeeValues : SetProtocolFee(value)
           \/ \E k \in Conn, f, g \in FeeValues : SetFee(k, f, g)
  <2>1. UNCHANGED settleVars
    BY <1>6, Zenon
       DEF SetDefaultConnection, SetProtocolFee, SetFee, settleVars,
                sendVars, reqVars, doneVars
  <2> QED
    BY <2>1, SettleKept, Zenon
<1>7. CASE UNCHANGED vars
  BY <1>7, SettleKept, Zenon DEF vars, settleVars, sendVars, reqVars, doneVars
<1> QED
  BY <1>1, <1>2, <1>3, <1>4, <1>5, <1>6, <1>7, RollbackSettle, Zenon
     DEF EvmNext

LEMMA StepAwaits ==
  ASSUME EvmAssumption, TypeOK, AwaitInv, SettleInv, [EvmNext]_vars
  PROVE  AwaitInv'
<1>1. ASSUME NEW to \in Nets, NEW o \in Outgoing, NEW data \in BOOLEAN,
             NEW value \in MsgValues,
             \/ SendReply(to, o[1], o[2], o[3], data, value)
             \/ SendOut(to, o[1], o[2], o[3], data, value)
      PROVE  AwaitInv'
  <2>1. o[2] \in Protocols
    BY Zenon DEF EvmAssumption
  <2>2. PreProcess(to, o[1], o[2], data) /\ UNCHANGED pendingResponses
    BY <1>1, Zenon DEF SendReply, SendOut, pendVars
  <2> QED
    BY <2>1, <2>2, SendAwaits, Zenon
<1>2. ASSUME NEW src \in Nets, NEW k \in Conn, NEW m \in Wire,
             HandleMessage(src, k, m)
      PROVE  AwaitInv'
  <2>1. m \in CSMessage
    BY Zenon DEF EvmAssumption
  <2>2. CASE \/ HandleRequestPending(src, k, m.payload)
             \/ HandleRequest(src, k, m.payload)
    BY <2>2, AwaitSame, Zenon DEF HandleRequestPending, HandleRequest, sendVars
  <2> QED
    BY <1>2, <2>1, <2>2, MessageParts, ResultAwaits, Zenon DEF HandleMessage
<1>3. ASSUME NEW k \in Conn, NEW s \in Sns, HandleError(k, s)
      PROVE  AwaitInv'
  BY <1>3, ErrorResult, ResultAwaits, Zenon
<1>4. ASSUME NEW id \in ReqIds,
             \/ \E code \in Code : ExecuteCall(id, code)
             \/ BeginTwoWay(id) \/ FailTwoWay(id)
      PROVE  AwaitInv'
  <2>1. UNCHANGED <<lastSn, rollbacks, pendingResponses>>
    BY <1>4, Zenon
       DEF ExecuteCall, BeginTwoWay, FailTwoWay, sendVars, pendVars
  <2> QED
    BY <2>1, AwaitSame, Zenon
<1>5. CASE EndTwoWay \/ UNCHANGED vars
  BY <1>5, AwaitSame, Zenon DEF EndTwoWay, vars, sendVars, pendVars
<1>6. CASE \/ \E net \in Nets, k \in Conn : SetDefaultConnection(net, k)
           \/ \E value \in FeeValues : SetProtocolFee(value)
           \/ \E k \in Conn, f, g \in FeeValues : SetFee(k, f, g)
  <2>1. UNCHANGED <<lastSn, rollbacks, pendingResponses>>
    BY <1>6, Zenon
       DEF SetDefaultConnection, SetProtocolFee, SetFee, sendVars, pendVars
  <2> QED
    BY <2>1, AwaitSame, Zenon
<1>7. ASSUME NEW s \in Sns, ExecuteRollback(s)
      PROVE  AwaitInv'
  <2>1. /\ UNCHANGED <<lastSn, pendingResponses>>
        /\ \A t \in Sns : t # s => rollbacks'[t] = rollbacks[t]
        /\ rollbacks'[s] = None
    BY <1>7, Zenon DEF ExecuteRollback, CleanupCallRequest, pendVars, TypeOK
  <2>2. \A p \in pendingResponses' : p[1] <= lastSn'
    BY <2>1, Zenon DEF AwaitInv
  <2> QED
    BY <2>1, <2>2, AwaitKept, Zenon
<1> QED
  BY <1>1, <1>2, <1>3, <1>4, <1>5, <1>6, <1>7, Zenon DEF EvmNext

-----------------------------------------------------------------------------
(***************************************************************************)
(* Executing                                                               *)
(***************************************************************************)
\* What was sent stays sent.
LEMMA ResultStays ==
  ASSUME NEW x, ResultSent(x), sent \subseteq sent'
  PROVE  ResultSent(x)'
BY DEF ResultSent

\* Steps that execute nothing: requests under way stay so or are answered,
\* and only a new id gets a request.
LEMMA ExecutedKept ==
  ASSUME TypeOK, ExecutedInv, UNCHANGED executed, sent \subseteq sent',
         \/ UNCHANGED <<lastReqId, proxyReqs>>
         \/ \E req \in Request : NewProxyRequest(req),
         \A x \in executed : x[3] = Success /\ x[2] \in Range(frames) =>
           x[2] \in Range(frames') \/ ResultSent(x)'
  PROVE  ExecutedInv'
<1>1. /\ lastReqId \in Nat /\ \A id \in ReqIds : id \in Nat
      /\ executed \subseteq ReqIds \X Request \X Code
      /\ \A x \in executed : x[1] \in ReqIds
  BY XcallAssumption DEF TypeOK, ReqIds
<1>2. ASSUME NEW x \in executed, x[2].type = TwoWay
      PROVE  (x[3] = Success /\ x[2] \in Range(frames')) \/ ResultSent(x)'
  BY <1>2, ResultStays, Zenon DEF ExecutedInv
<1>3. \A x \in executed : x[1] <= lastReqId /\ proxyReqs[x[1]] = None
  BY Zenon DEF ExecutedInv
<1>4. CASE UNCHANGED <<lastReqId, proxyReqs>>
  BY <1>2, <1>4, Zenon DEF ExecutedInv
<1>5. CASE \E req \in Request : NewProxyRequest(req)
  <2>1. /\ lastReqId' = lastReqId + 1
        /\ \A id \in ReqIds : id # lastReqId + 1 =>
             proxyReqs'[id] = proxyReqs[id]
    BY <1>5, Zenon DEF NewProxyRequest, TypeOK
  <2>2. \A id \in ReqIds : proxyReqs'[id] # None => id <= lastReqId'
    BY <1>1, <2>1 DEF ExecutedInv
  <2>3. \A x \in executed : x[1] <= lastReqId' /\ proxyReqs'[x[1]] = None
    BY <1>1, <1>3, <2>1
  <2> QED
    BY <1>2, <2>2, <2>3, Zenon DEF ExecutedInv
<1> QED
  BY <1>4, <1>5, Zenon

\* Steps that execute a request.
LEMMA ExecutedAdds ==
  ASSUME TypeOK, ExecutedInv, NEW id \in ReqIds, NEW code \in Code,
         NEW req \in Request, req = proxyReqs[id],
         TakeProxyRequest(id), Executed(id, code),
         UNCHANGED lastReqId, sent \subseteq sent',
         Range(frames) \subseteq Range(frames'),
         req.type = TwoWay =>
           \/ code = Success /\ req \in Range(frames')
           \/ ResultSent(<<id, req, code>>)'
  PROVE  ExecutedInv'
<1>1. PICK y : y = <<id, req, code>>
  BY Zenon
<1>2. /\ executed' = executed \cup {y}
      /\ y[1] = id /\ y[2] = req /\ y[3] = code
  BY <1>1, Zenon DEF Executed
<1>3. /\ \A i \in ReqIds : proxyReqs'[i] \in {None, proxyReqs[i]}
      /\ proxyReqs'[id] = None
      /\ \A x \in executed : x[1] \in ReqIds
  BY Zenon DEF TakeProxyRequest, TypeOK
<1>4. id <= lastReqId /\ \A x \in executed : x[1] # id
  BY XcallAssumption, Zenon DEF ExecutedInv
<1>5. ExecutedAtMostOnce(executed')
  BY <1>2, <1>4, Zenon DEF ExecutedInv, ExecutedAtMostOnce
<1>6. ASSUME NEW x \in executed, x[2].type = TwoWay
      PROVE  (x[3] = Success /\ x[2] \in Range(frames')) \/ ResultSent(x)'
  BY <1>6, ResultStays, Zenon DEF ExecutedInv
<1>7. y[2].type = TwoWay =>
        (y[3] = Success /\ y[2] \in Range(frames')) \/ ResultSent(y)'
  BY <1>1, <1>2, Zenon
<1>8. \A x \in executed' :
        /\ x[1] <= lastReqId /\ proxyReqs'[x[1]] = None
        /\ x[2].type = TwoWay =>
             (x[3] = Success /\ x[2] \in Range(frames')) \/ ResultSent(x)'
  <2>1. \A x \in executed : x[1] <= lastReqId /\ proxyReqs'[x[1]] = None
    BY <1>3, Zenon DEF ExecutedInv
  <2> QED
    BY <1>2, <1>3, <1>4, <1>6, <1>7, <2>1, Zenon
<1>9. \A i \in ReqIds : proxyReqs'[i] # None => i <= lastReqId
  BY <1>3, Zenon DEF ExecutedInv
<1> QED
  BY <1>5, <1>8, <1>9, Zenon DEF ExecutedInv

LEMMA AppendRange ==
  ASSUME NEW S, NEW f \in Seq(S), NEW x \in S
  PROVE  Range(Append(f, x)) = Range(f) \cup {x}
<1>1. /\ Len(f) \in Nat /\ DOMAIN f = 1..Len(f)
      /\ DOMAIN Append(f, x) = 1..(Len(f) + 1)
      /\ Append(f, x)[Len(f) + 1] = x
      /\ \A i \in 1..Len(f) : Append(f, x)[i] = f[i]
  OBVIOUS
<1>2. 1..(Len(f) + 1) = 1..Len(f) \cup {Len(f) + 1}
  BY <1>1
<1> QED
  BY <1>1, <1>2 DEF Range

LEMMA EndExecuted ==
  ASSUME TypeOK, Foreign, ExecutedInv, EndTwoWay
  PROVE  ExecutedInv'
<1>1. PICK req \in Request, res \in Result :
        /\ req = CurrentRequest /\ req.from \in Nets
        /\ req.protocols \in Protocols
        /\ res.sn = req.sn /\ res.code = Success /\ res.reply = callReply
        /\ SendMessage(req.from, req.protocols, CSResult(res))
  BY EndSends, Zenon
<1>2. PICK m \in CSMessage : m = CSResult(res)
  BY MessagesType, Zenon
<1>3. /\ sent \subseteq sent'
      /\ \A k \in Range(req.protocols) :
           [conn |-> k, net |-> req.from, msg |-> m] \in sent'
  BY <1>1, <1>2, SendMessageTypes, Zenon
<1>4. m.type = "CSMessageResult" /\ m.payload = res
  BY <1>2, Zenon DEF CSResult
<1>5. ASSUME NEW x, x[3] = Success, x[2] = req
      PROVE  ResultSent(x)'
  <2> SUFFICES ASSUME NEW k \in Range(req.protocols)
               PROVE  \E e \in sent' :
                        /\ e.conn = k /\ e.net = req.from
                        /\ e.msg.type = "CSMessageResult"
                        /\ e.msg.payload.sn = req.sn
                        /\ e.msg.payload.code = Success
    BY <1>5, Zenon DEF ResultSent
  <2>1. PICK e \in sent' : e = [conn |-> k, net |-> req.from, msg |-> m]
    BY <1>3, Zenon
  <2>2. e.conn = k /\ e.net = req.from /\ e.msg = m
    BY <2>1, Zenon
  <2> QED
    BY <1>1, <1>4, <2>2, Zenon
<1>6. Range(frames) = Range(frames') \cup {req}
  BY <1>1, EndFrames, Zenon
<1>7. UNCHANGED <<executed, lastReqId, proxyReqs>>
  BY Zenon DEF EndTwoWay, doneVars, reqVars
<1> QED
  BY <1>3, <1>5, <1>6, <1>7, ExecutedKept, Zenon

LEMMA FailExecuted ==
  ASSUME TypeOK, Foreign, ExecutedInv, NEW id \in ReqIds, FailTwoWay(id)
  PROVE  ExecutedInv'
<1>1. /\ proxyReqs[id] # None /\ TakeProxyRequest(id) /\ Executed(id, Failure)
      /\ UNCHANGED <<lastReqId, frames>>
  BY Zenon DEF FailTwoWay
<1>2. PICK req \in Request : req = proxyReqs[id]
  BY <1>1, Zenon DEF TypeOK
<1>3. req.from \in Nets /\ req.protocols \in Protocols
  BY <1>1, <1>2, Zenon DEF Foreign, Request
<1>4. PICK res \in Result :
        res = [sn |-> req.sn, code |-> Failure, reply |-> None]
  BY <1>2, Zenon DEF Request, Result, Code, Failure
<1>5. PICK m \in CSMessage : m = CSResult(res)
  BY MessagesType, Zenon
<1>6. SendMessage(req.from, req.protocols, m)
  BY <1>2, <1>4, <1>5, Zenon DEF FailTwoWay
<1>7. /\ sent \subseteq sent'
      /\ \A k \in Range(req.protocols) :
           [conn |-> k, net |-> req.from, msg |-> m] \in sent'
  BY <1>3, <1>6, SendMessageTypes, Zenon
<1>8. /\ m.type = "CSMessageResult" /\ m.payload.sn = req.sn
      /\ m.payload.code = Failure
  BY <1>4, <1>5, Zenon DEF CSResult
<1>9. ResultSent(<<id, req, Failure>>)'
  <2> SUFFICES ASSUME NEW k \in Range(req.protocols)
               PROVE  \E e \in sent' :
                        /\ e.conn = k /\ e.net = req.from
                        /\ e.msg.type = "CSMessageResult"
                        /\ e.msg.payload.sn = req.sn
                        /\ e.msg.payload.code = Failure
    BY ZenonT(20) DEF ResultSent
  <2>1. PICK e \in sent' : e = [conn |-> k, net |-> req.from, msg |-> m]
    BY <1>7, Zenon
  <2>2. e.conn = k /\ e.net = req.from /\ e.msg = m
    BY <2>1, Zenon
  <2> QED
    BY <1>8, <2>2, Zenon
<1>10. Failure \in Code
  BY Zenon DEF Code, Failure
<1> QED
  BY <1>1, <1>2, <1>7, <1>9, <1>10, ExecutedAdds, Zenon

LEMMA StepExecutes ==
  ASSUME EvmAssumption, TypeOK, Foreign, ExecutedInv, [EvmNext]_vars
  PROVE  ExecutedInv'
<1>1. ASSUME NEW to \in Nets, NEW o \in Outgoing, NEW data \in BOOLEAN,
             NEW value \in MsgValues,
             \/ SendReply(to, o[1], o[2], o[3], data, value)
             \/ SendOut(to, o[1], o[2], o[3], data, value)
      PROVE  ExecutedInv'
  <2>1. sent \subseteq sent'
    BY <1>1, Zenon DEF SendReply, SendOut, SendMessage
  <2>2. UNCHANGED <<executed, lastReqId, proxyReqs, frames>>
    BY <1>1, Zenon DEF SendReply, SendOut, doneVars, reqVars, replyVars
  <2> QED
    BY <2>1, <2>2, ExecutedKept, Zenon
<1>2. ASSUME NEW src, NEW k, NEW m \in CSMessage, HandleMessage(src, k, m)
      PROVE  ExecutedInv'
  <2>1. UNCHANGED <<executed, frames, sent>>
    BY <1>2, Zenon DEF HandleMessage, HandleRequestPending, HandleRequest,
                HandleResultPending, HandleResultSuccess, HandleResultFailure,
                doneVars, replyVars
  <2>2. \/ UNCHANGED <<lastReqId, proxyReqs>>
        \/ \E req \in Request : NewProxyRequest(req)
    <3>1. CASE m.type = "CSMessageRequest"
      BY <1>2, <3>1, MessageParts, Zenon
         DEF HandleMessage, HandleRequestPending, HandleRequest, reqVars
    <3>2. CASE m.type = "CSMessageResult" /\ HandleResultSuccess(k, m.payload)
      <4>1. PICK res \in Result : res = m.payload
        BY <3>2, MessageParts, Zenon
      <4>2. CASE res.reply = None
        BY <3>2, <4>1, <4>2, Zenon DEF HandleResultSuccess, reqVars
      <4>3. CASE res.reply # None
        <5>1. /\ res.reply \in Request /\ res.sn \in Sns
              /\ rollbacks[res.sn] # None
          BY <3>2, <4>1, <4>3, Zenon
             DEF HandleResultSuccess, ResultComplete, Result
        <5>2. rollbacks[res.sn].sources \in Protocols
          BY <5>1, Zenon DEF TypeOK, RollbackData
        <5>3. [res.reply EXCEPT !.protocols = rollbacks[res.sn].sources]
                \in Request
          BY <5>1, <5>2, Zenon DEF Request
        <5> QED
          BY <3>2, <4>1, <4>3, <5>3, Zenon
             DEF HandleResultSuccess, HandleReply
      <4> QED
        BY <4>2, <4>3, Zenon
    <3>3. CASE /\ m.type = "CSMessageResult"
               /\ \/ HandleResultPending(k, m.payload)
                  \/ HandleResultFailure(k, m.payload)
      BY <3>3, Zenon DEF HandleResultPending, HandleResultFailure, reqVars
    <3> QED
      BY <1>2, <3>1, <3>2, <3>3, Zenon DEF HandleMessage
  <2> QED
    BY <2>1, <2>2, ExecutedKept, Zenon
<1>3. ASSUME NEW k \in Conn, NEW s \in Sns, HandleError(k, s)
      PROVE  ExecutedInv'
  <2>1. UNCHANGED <<executed, frames, sent, lastReqId, proxyReqs>>
    BY <1>3, Zenon
       DEF HandleError, HandleResultPending, HandleResultFailure, doneVars,
                replyVars, reqVars
  <2> QED
    BY <2>1, ExecutedKept, Zenon
<1>4. ASSUME NEW id \in ReqIds, NEW code \in Code, ExecuteCall(id, code)
      PROVE  ExecutedInv'
  <2>1. PICK req \in Request : req = proxyReqs[id]
    BY <1>4, Zenon DEF ExecuteCall, TypeOK
  <2>2. /\ req.type # TwoWay /\ TakeProxyRequest(id) /\ Executed(id, code)
        /\ UNCHANGED <<lastReqId, sent, frames>>
    BY <1>4, <2>1, Zenon DEF ExecuteCall, replyVars
  <2> QED
    BY <2>1, <2>2, ExecutedAdds, Zenon
<1>5. ASSUME NEW id \in ReqIds, BeginTwoWay(id)
      PROVE  ExecutedInv'
  <2>1. PICK req \in Request : req = proxyReqs[id]
    BY <1>5, Zenon DEF BeginTwoWay, TypeOK
  <2>2. /\ TakeProxyRequest(id) /\ Executed(id, Success)
        /\ UNCHANGED <<lastReqId, sent>>
        /\ frames' = Append(frames, req)
    BY <1>5, <2>1, Zenon DEF BeginTwoWay
  <2>3. Range(frames) \subseteq Range(frames') /\ req \in Range(frames')
    BY <2>1, <2>2, AppendRange DEF TypeOK
  <2>4. Success \in Code
    BY Zenon DEF Code, Success
  <2> QED
    BY <2>1, <2>2, <2>3, <2>4, ExecutedAdds, Zenon
<1>6. CASE \/ \E s \in Sns : ExecuteRollback(s)
           \/ \E net \in Nets, k \in Conn : SetDefaultConnection(net, k)
           \/ \E value \in FeeValues : SetProtocolFee(value)
           \/ \E k \in Conn, f, g \in FeeValues : SetFee(k, f, g)
  <2>1. UNCHANGED <<executed, frames, sent, lastReqId, proxyReqs>>
    BY <1>6, Zenon
       DEF ExecuteRollback, SetDefaultConnection, SetProtocolFee, SetFee,
                doneVars, replyVars, reqVars
  <2> QED
    BY <2>1, ExecutedKept, Zenon
<1>7. CASE UNCHANGED vars
  BY <1>7, ExecutedKept, Zenon DEF vars, doneVars, replyVars, reqVars
<1> QED
  BY <1>1, <1>2, <1>3, <1>4, <1>5, <1>6, <1>7, EndExecuted, FailExecuted,
     Zenon
     DEF EvmNext, EvmAssumption

-----------------------------------------------------------------------------
(***************************************************************************)
(* Replies                                                                 *)
(***************************************************************************)
\* A result that takes a reply along.
WithReply(e) ==
  e.msg.type = "CSMessageResult" /\ e.msg.payload.reply # None

\* Steps that send no reply: what is held back stays, or is new.
LEMMA ReplyKept ==
  ASSUME TypeOK, TypeOK', ReplyInv, lastSn <= lastSn',
         \A e \in sent' : WithReply(e) => e \in sent,
         \/ UNCHANGED callReply
         \/ callReply' # None /\ callReply'.sn = lastSn' /\ lastSn < lastSn',
         frames' = <<>> => replyState' = None /\ callReply' = None
  PROVE  ReplyInv'
<1>1. /\ lastSn \in Nat /\ lastSn' \in Nat
      /\ callReply \in Request \cup {None}
      /\ callReply' \in Request \cup {None}
  BY XcallAssumption DEF TypeOK
<1>2. \A req \in Request : req.sn \in Nat
  BY XcallAssumption DEF Request, Sns
<1>3. RepliesStayInside'
  BY Zenon DEF ReplyInv, RepliesStayInside, WithReply
<1>4. callReply' # None => callReply'.sn <= lastSn'
  BY <1>1, <1>2 DEF ReplyInv
<1>5. ASSUME NEW e \in sent', WithReply(e)
      PROVE  e.msg.payload.reply.sn <= lastSn' /\ e.msg.payload.reply # callReply'
  <2>1. /\ e \in sent /\ e.msg.payload.reply.sn <= lastSn
        /\ e.msg.payload.reply # callReply
    BY <1>5, Zenon DEF ReplyInv, WithReply
  <2>2. e.msg.payload.reply \in Request
    BY <1>5, <2>1, MessageParts, Zenon DEF TypeOK, WithReply, Result
  <2>3. e.msg.payload.reply.sn \in Nat
    BY <1>2, <2>2, Zenon
  <2> QED
    BY <1>1, <2>1, <2>3
<1> QED
  BY <1>3, <1>4, <1>5, Zenon DEF ReplyInv, WithReply

\* The reply that is held back leaves with the result of one execution.
LEMMA EndReplies ==
  ASSUME TypeOK, Foreign, ReplyInv, EndTwoWay
  PROVE  ReplyInv'
<1>1. PICK req \in Request, res \in Result :
        /\ req.from \in Nets /\ req.protocols \in Protocols
        /\ res.reply = callReply
        /\ SendMessage(req.from, req.protocols, CSResult(res))
  BY EndSends, Zenon
<1>2. PICK m \in CSMessage : m = CSResult(res)
  BY MessagesType, Zenon
<1>3. \A e \in sent' : e \in sent \/ (e.net = req.from /\ e.msg = m)
  BY <1>1, <1>2, SendMessageTypes, Zenon
<1>4. m.payload.reply = callReply
  BY <1>1, <1>2, Zenon DEF CSResult
<1>5. replyState' = None /\ callReply' = None /\ UNCHANGED lastSn
  BY Zenon DEF EndTwoWay, TakeReply, sendVars
<1>6. ASSUME NEW e \in sent', NEW f \in sent', WithReply(e), WithReply(f),
             f.msg.payload.reply = e.msg.payload.reply
      PROVE  e.msg = f.msg /\ e.net = f.net
  <2>1. CASE e \in sent /\ f \in sent
    BY <1>6, <2>1, Zenon DEF ReplyInv, RepliesStayInside, WithReply
  <2>2. CASE e \notin sent /\ f \notin sent
    BY <1>3, <2>2, Zenon
  <2>3. CASE e \in sent /\ f \notin sent
    BY <1>3, <1>4, <1>6, <2>3, Zenon DEF ReplyInv, WithReply
  <2>4. CASE e \notin sent /\ f \in sent
    BY <1>3, <1>4, <1>6, <2>4, Zenon DEF ReplyInv, WithReply
  <2> QED
    BY <2>1, <2>2, <2>3, <2>4, Zenon
<1>7. RepliesStayInside'
  BY <1>5, <1>6, Zenon DEF RepliesStayInside, WithReply
<1>8. \A e \in sent' : WithReply(e) =>
        e.msg.payload.reply.sn <= lastSn' /\ e.msg.payload.reply # callReply'
  BY <1>3, <1>4, <1>5, Zenon DEF ReplyInv, WithReply
<1> QED
  BY <1>5, <1>7, <1>8, Zenon DEF ReplyInv, WithReply

LEMMA StepReplies ==
  ASSUME EvmAssumption, TypeOK, TypeOK', Foreign, ReplyInv, [EvmNext]_vars
  PROVE  ReplyInv'
<1>1. lastSn \in Nat /\ lastSn <= lastSn
  BY XcallAssumption DEF TypeOK
<1>2. frames = <<>> => replyState = None /\ callReply = None
  BY Zenon DEF ReplyInv, RepliesStayInside
<1>3. CASE UNCHANGED <<lastSn, replyVars, sent>>
  BY <1>1, <1>2, <1>3, ReplyKept, Zenon DEF replyVars
<1>4. ASSUME NEW to \in Nets, NEW o \in Outgoing, NEW data \in BOOLEAN,
             NEW value \in MsgValues,
             SendReply(to, o[1], o[2], o[3], data, value)
      PROVE  ReplyInv'
  <2>1. PICK req : req = CallRequest(o[1], o[3])
    BY Zenon
  <2>2. /\ PreProcess(to, o[1], o[2], data)
        /\ lastSn' = lastSn + 1 /\ UNCHANGED <<sent, frames>>
        /\ callReply' = req /\ replyState # None
    BY <1>4, <2>1, Zenon DEF SendReply, PreProcess, IsReply
  <2>3. req \in Request
    BY <2>1, <2>2, PreProcessTypes, Zenon DEF EvmAssumption
  <2>4. callReply'.sn = lastSn'
    BY <2>1, <2>2, Zenon DEF CallRequest
  <2>5. callReply' # None /\ frames' # <<>>
    BY <1>2, <2>2, <2>3, XcallAssumption, Zenon
  <2> QED
    BY <1>1, <2>2, <2>4, <2>5, ReplyKept
<1>5. ASSUME NEW to, NEW type, NEW src, NEW dst, NEW data, NEW value,
             SendOut(to, type, src, dst, data, value)
      PROVE  ReplyInv'
  <2>1. lastSn' = lastSn + 1 /\ UNCHANGED <<replyState, callReply, frames>>
    BY <1>5, Zenon DEF SendOut, PreProcess, replyVars
  <2>2. \A e \in sent' : WithReply(e) => e \in sent
    BY <1>5 DEF SendOut, SendMessage, CSRequest, WithReply
  <2>3. lastSn <= lastSn'
    BY <1>1, <2>1
  <2> QED
    BY <1>2, <2>1, <2>2, <2>3, ReplyKept, Zenon
<1>6. ASSUME NEW id \in ReqIds, BeginTwoWay(id)
      PROVE  ReplyInv'
  <2>1. UNCHANGED <<lastSn, callReply, sent>>
    BY <1>6, Zenon DEF BeginTwoWay, sendVars
  <2>2. frames' # <<>>
    <3>1. proxyReqs[id] \in Request /\ frames' = Append(frames, proxyReqs[id])
      BY <1>6, Zenon DEF BeginTwoWay, TypeOK
    <3>2. frames \in Seq(Request)
      BY Zenon DEF TypeOK
    <3>3. Len(frames') = Len(frames) + 1 /\ Len(frames) \in Nat
      BY <3>1, <3>2
    <3>4. Len(<<>>) = 0
      BY Zenon
    <3> QED
      BY <3>3, <3>4
  <2> QED
    BY <1>1, <2>1, <2>2, ReplyKept, Zenon
<1>7. ASSUME NEW id \in ReqIds, FailTwoWay(id)
      PROVE  ReplyInv'
  <2>1. /\ UNCHANGED <<lastSn, callReply, frames>>
        /\ replyState' = None
    BY <1>7, Zenon DEF FailTwoWay, sendVars
  <2>2. \A e \in sent' : WithReply(e) => e \in sent
    BY <1>7 DEF FailTwoWay, SendMessage, CSResult, WithReply
  <2> QED
    BY <1>1, <1>2, <2>1, <2>2, ReplyKept, Zenon
<1>8. ASSUME NEW src, NEW k, NEW m, HandleMessage(src, k, m)
      PROVE  UNCHANGED <<lastSn, replyVars, sent>>
  BY <1>8, Zenon DEF HandleMessage, HandleRequestPending, HandleRequest,
              HandleResultPending, HandleResultSuccess, HandleResultFailure,
              sendVars
<1>9. ASSUME NEW k, NEW s, HandleError(k, s)
      PROVE  UNCHANGED <<lastSn, replyVars, sent>>
  BY <1>9, Zenon
     DEF HandleError, HandleResultPending, HandleResultFailure, sendVars
<1>10. CASE \/ \E id \in ReqIds, code \in Code : ExecuteCall(id, code)
            \/ \E s \in Sns : ExecuteRollback(s)
            \/ \E net \in Nets, k \in Conn : SetDefaultConnection(net, k)
            \/ \E value \in FeeValues : SetProtocolFee(value)
            \/ \E k \in Conn, f, g \in FeeValues : SetFee(k, f, g)
  <2>1. UNCHANGED <<lastSn, replyVars, sent>>
    BY <1>10, Zenon DEF ExecuteCall, ExecuteRollback, SetDefaultConnection,
                 SetProtocolFee, SetFee, sendVars
  <2> QED
    BY <1>3, <2>1, Zenon
<1>11. CASE UNCHANGED vars
  BY <1>3, <1>11, Zenon DEF vars, sendVars
<1> QED
  BY <1>3, <1>4, <1>5, <1>6, <1>7, <1>8, <1>9, <1>10, <1>11, EndReplies, Zenon
     DEF EvmNext

-----------------------------------------------------------------------------
(***************************************************************************)
(* The theorems                                                            *)
(***************************************************************************)
LEMMA EvmInvInit ==
  ASSUME EvmAssumption, EvmInit
  PROVE  EvmInv
<1>1. TypeOK
  <2>1. <<>> \in Seq(Request) /\ Len(<<>>) = 0
    OBVIOUS
  <2>2. 0 \in 0..MaxSn /\ 0 \in 0..MaxReqId /\ 0 <= MaxDepth
    BY XcallAssumption DEF EvmAssumption
  <2> QED
    BY <2>1, <2>2, Zenon DEF EvmInit, TypeOK
<1>2. Foreign
  BY DEF EvmInit, Foreign
<1>3. SettleInv
  BY Zenon
     DEF EvmInit, SettleInv, PendingHeard, RollbacksOpen, SettledHandedOut,
         RequestsEndorsed, AdmissionVouched, ResultsVouched,
         SettledOnAllAnswers, SettledOnce
<1>4. ExecutedInv
  BY Zenon DEF EvmInit, ExecutedInv, ExecutedAtMostOnce
<1>5. ReplyInv
  BY Zenon DEF EvmInit, ReplyInv, RepliesStayInside
<1>6. AwaitInv
  BY Zenon DEF EvmInit, AwaitInv
<1> QED
  BY <1>1, <1>2, <1>3, <1>4, <1>5, <1>6, Zenon DEF EvmInv

LEMMA EvmInvStep ==
  ASSUME EvmAssumption, EvmInv, [EvmNext]_vars
  PROVE  EvmInv'
<1>1. TypeOK /\ Foreign /\ AwaitInv /\ SettleInv /\ ExecutedInv /\ ReplyInv
  BY Zenon DEF EvmInv
<1>2. TypeOK' /\ Foreign'
  BY <1>1, StepTypes, Zenon
<1>3. SettleInv'
  BY <1>1, StepSettles, Zenon
<1>4. ExecutedInv'
  BY <1>1, StepExecutes, Zenon
<1>5. ReplyInv'
  BY <1>1, <1>2, StepReplies, Zenon
<1>6. AwaitInv'
  BY <1>1, StepAwaits, Zenon
<1> QED
  BY <1>2, <1>3, <1>4, <1>5, <1>6, Zenon DEF EvmInv

LEMMA EvmInvAlways ==
  ASSUME EvmAssumption
  PROVE  EvmSpec => []EvmInv
<1>1. EvmInit => EvmInv
  BY EvmInvInit, Zenon
<1>2. EvmInv /\ [EvmNext]_vars => EvmInv'
  BY EvmInvStep, Zenon
<1> QED
  BY <1>1, <1>2, PTL DEF EvmSpec

\* What the invariant gives.
LEMMA EvmInvGives ==
  ASSUME EvmInv
  PROVE  /\ TypeOK
         /\ RequestsEndorsed
         /\ ResultsVouched
         /\ SettledOnce
         /\ ExecutedOnceAndAnswered
         /\ RepliesStayInside
<1>1. ExecutedOnceAndAnswered
  BY Zenon DEF EvmInv, ExecutedInv, ExecutedOnceAndAnswered, ResultSent
<1> QED
  BY <1>1, Zenon DEF EvmInv, SettleInv, ReplyInv

\* CallService.sol keeps its storage well formed: numbers and ids within
\* their ranges, and every message that it sends addressed to another network.
THEOREM EvmWellTyped ==
  ASSUME EvmAssumption
  PROVE  EvmSpec => []TypeOK
<1>1. EvmInv => TypeOK
  BY EvmInvGives, Zenon
<1> QED
  BY <1>1, EvmInvAlways, PTL

\* handleRequest makes a request executable only on the word of every protocol
\* in its list, handleReply a reply only after all of them answered the call and
\* one of them with this reply, although any account may write pendingReqs and
\* pendingResponses.
THEOREM EvmRequestsEndorsed ==
  ASSUME EvmAssumption
  PROVE  EvmSpec => []RequestsEndorsed
<1>1. EvmInv => RequestsEndorsed
  BY EvmInvGives, Zenon
<1> QED
  BY <1>1, EvmInvAlways, PTL

\* handleResult and handleError settle a call only after all its connections
\* answered, with whatever codes, and one of them with the code that it settles
\* on, although any account may write pendingResponses.
THEOREM EvmResultsVouched ==
  ASSUME EvmAssumption
  PROVE  EvmSpec => []ResultsVouched
<1>1. EvmInv => ResultsVouched
  BY EvmInvGives, Zenon
<1> QED
  BY <1>1, EvmInvAlways, PTL

\* A call that was marked successful is never rolled back, nor one that was
\* rolled back marked successful: cleanupCallRequest ends every settlement.
THEOREM EvmSettledOnce ==
  ASSUME EvmAssumption
  PROVE  EvmSpec => []SettledOnce
<1>1. EvmInv => SettledOnce
  BY EvmInvGives, Zenon
<1> QED
  BY <1>1, EvmInvAlways, PTL

\* However deep executions nest, executeCall runs a request once and answers
\* a two-way request with the outcome that it had.
THEOREM EvmExecutedOnceAndAnswered ==
  ASSUME EvmAssumption
  PROVE  EvmSpec => []ExecutedOnceAndAnswered
<1>1. EvmInv => ExecutedOnceAndAnswered
  BY EvmInvGives, Zenon
<1> QED
  BY <1>1, EvmInvAlways, PTL

\* replyState and callReply are empty outside two-way executions, and a reply
\* leaves with one result only.
THEOREM EvmRepliesStayInside ==
  ASSUME EvmAssumption
  PROVE  EvmSpec => []RepliesStayInside
<1>1. EvmInv => RepliesStayInside
  BY EvmInvGives, Zenon
<1> QED
  BY <1>1, EvmInvAlways, PTL

=============================================================================
