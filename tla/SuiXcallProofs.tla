-------------------------- MODULE SuiXcallProofs ---------------------------
(***************************************************************************)
(* What the Sui call service keeps, whatever connections deliver and       *)
(* whatever tickets a transaction takes, for all networks, connections and *)
(* lists.                                                                  *)
(***************************************************************************)
EXTENDS SuiXcall, TLAPS

\* What is collected was delivered.
PendingHeard ==
  /\ \A p \in pendingReqs : <<CSRequest(p[1]), p[2]>> \in heard
  /\ \A p \in pendingResponses : <<CSResult(p[1]), p[2]>> \in heard

\* Every connection of the list delivered one and the same result of call s
\* with that code.
OneResult(H, s, code, protocols) ==
  \E m \in ResultsOf(s, {code}) : EndorsedBy(H, {m}, protocols)

\* A stored rollback is that of an open call; it is enabled after all the
\* connections of the call delivered one result of failure.
RollbacksOpen ==
  \A s \in Sns : rollbacks[s] # None =>
    /\ s \notin successfulResponses \cup rolledBack
    /\ calls[s] # None /\ calls[s].protocols = rollbacks[s].sources
    /\ rollbacks[s].enabled =>
         OneResult(heard, s, Failure, rollbacks[s].sources)

\* A ticket for a rollback outlives the rollback, but not that it is enabled.
TicketsEnabled ==
  \A s \in rollbackTickets : rollbacks[s] # None => rollbacks[s].enabled

\* Settling is sound even while a transaction is under way.
SettledOnResult ==
  SettledOnOneResult(heard, calls, successfulResponses, rolledBack)
SettledApart ==
  /\ successfulResponses \cap rolledBack = {}
  /\ \A s \in successfulResponses \cup rolledBack : rollbacks[s] = None

SettleInv ==
  /\ PendingHeard /\ RollbacksOpen /\ TicketsEnabled
  /\ RequestsEndorsed /\ SettledOnResult /\ SettledApart

-----------------------------------------------------------------------------
\* The result of an execution was sent over every connection of its list.
ResultSent(x) ==
  \A k \in Range(x[2].protocols) :
    \E e \in sent :
      /\ e.conn = k /\ e.net = x[2].from
      /\ e.msg.type = "CSMessageResult"
      /\ e.msg.payload.sn = x[2].sn /\ e.msg.payload.code = x[3]

ExecutedInv ==
  /\ ExecutedAtMostOnce(executed)
  /\ \A x \in executed :
       /\ proxyReqs[x[1]] = None
       /\ x[2].type = TwoWay => ResultSent(x)

\* A request ran once a ticket for it was used.  More tickets than one for a
\* request that has not run are tickets in several places; of these all but
\* one are left when it has run.
Ran(id) == \E x \in executed : x[1] = id
SeveralTickets(t, id) ==
  \E i, j \in DOMAIN t : i # j /\ t[i] = id /\ t[j] = id
TicketsLeft ==
  \A id \in ReqIds :
    /\ id \in Range(tickets) => handed[id] >= 1
    /\ Ran(id) => handed[id] = 1 \/ id \in Range(tickets)
    /\ ~Ran(id) => /\ handed[id] = 0 \/ id \in Range(tickets)
                   /\ handed[id] >= 2 => SeveralTickets(tickets, id)

\* The reply state is that of a request with a ticket out.
ReplyInside == tickets = <<>> => replyState = None

SuiInv == TypeOK /\ SettleInv /\ ExecutedInv /\ TicketsLeft /\ ReplyInside

-----------------------------------------------------------------------------
(***************************************************************************)
(* Lists, results and deliveries                                           *)
(***************************************************************************)
\* A list and what it is confirmed to name connections only.
LEMMA ListOfConns ==
  ASSUME NEW p \in Protocols
  PROVE  /\ p \in Seq(Conn) /\ Range(p) \subseteq Conn
         /\ \A k \in Range(p) : Len(p) = 1 => Range(p) = {k}
         /\ p # <<>> /\ ~(Len(p) > 1) => Len(p) = 1
<1>1. p \in Seq(Conn)
  BY XcallAssumption, Zenon
<1>2. Range(p) \subseteq Conn
  BY <1>1 DEF Range
<1>3. \A k \in Range(p) : Len(p) = 1 => Range(p) = {k}
  BY <1>1 DEF Range
<1>4. p # <<>> /\ ~(Len(p) > 1) => Len(p) = 1
  <2>1. Len(p) \in Nat
    BY <1>1
  <2>2. Len(p) = 0 => p = <<>>
    BY <1>1
  <2> QED
    BY <2>1, <2>2
<1> QED
  BY <1>1, <1>2, <1>3, <1>4, Zenon

LEMMA ResultIn ==
  ASSUME NEW res \in Result, NEW codes, res.code \in codes
  PROVE  CSResult(res) \in ResultsOf(res.sn, codes)
BY Zenon DEF Result, ResultsOf

LEMMA MessageParts ==
  ASSUME NEW m \in CSMessage
  PROVE  /\ m.type = "CSMessageRequest" =>
              m.payload \in Request /\ m = CSRequest(m.payload)
         /\ m.type = "CSMessageResult" =>
              m.payload \in Result /\ m = CSResult(m.payload)
BY Zenon DEF CSMessage, CSRequest, CSResult

\* Requests and results on the wire are messages.
LEMMA MessagesType ==
  /\ \A req \in Request : CSRequest(req) \in CSMessage
  /\ \A res \in Result : CSResult(res) \in CSMessage
BY Zenon DEF CSMessage, CSRequest, CSResult

\* More deliveries endorse no less.
LEMMA EndorsedGrows ==
  ASSUME NEW H, NEW G, H \subseteq G, NEW M, NEW p, EndorsedBy(H, M, p)
  PROVE  EndorsedBy(G, M, p)
BY Zenon DEF EndorsedBy

\* Requests stay endorsed when more is delivered.
LEMMA AdmissionGrows ==
  ASSUME NEW H, NEW G, H \subseteq G, NEW A, AdmissionEndorsed(H, A)
  PROVE  AdmissionEndorsed(G, A)
<1> SUFFICES ASSUME NEW a \in A
             PROVE  AdmissionEndorsed(G, {a})
  BY Zenon DEF AdmissionEndorsed
<1>1. CASE EndorsedBy(H, {CSRequest(a[2])}, a[2].protocols)
  BY <1>1, EndorsedGrows, Zenon DEF AdmissionEndorsed
<1>2. CASE ~EndorsedBy(H, {CSRequest(a[2])}, a[2].protocols)
  <2>1. PICK s \in Sns, h \in H :
          /\ h[1] \in ResultsOf(s, {Success})
          /\ h[1].payload.reply # None
          /\ [h[1].payload.reply EXCEPT !.protocols = a[2].protocols] = a[2]
          /\ EndorsedBy(H, {h[1]}, a[2].protocols)
    BY <1>2, Zenon DEF AdmissionEndorsed
  <2>2. EndorsedBy(G, {h[1]}, a[2].protocols)
    BY <2>1, EndorsedGrows, Zenon
  <2> QED
    BY <2>1, <2>2, Zenon DEF AdmissionEndorsed
<1> QED
  BY <1>1, <1>2, Zenon

\* So do results ...
LEMMA OneResultGrows ==
  ASSUME NEW H, NEW G, H \subseteq G, NEW s, NEW code, NEW p,
         OneResult(H, s, code, p)
  PROVE  OneResult(G, s, code, p)
BY EndorsedGrows, Zenon DEF OneResult

\* ... and settled calls.
LEMMA SettledGrows ==
  ASSUME NEW H, NEW G, H \subseteq G, NEW C, NEW D, NEW S, NEW R,
         SettledOnOneResult(H, C, S, R),
         \A s \in S \cup R : D[s] = C[s]
  PROVE  SettledOnOneResult(G, D, S, R)
<1>1. \A s, m : EndorsedBy(H, {m}, C[s].protocols) =>
                EndorsedBy(G, {m}, C[s].protocols)
  BY EndorsedGrows, Zenon
<1> QED
  BY <1>1, Zenon DEF SettledOnOneResult

\* A complete list of deliveries endorses, of one protocol or several.
LEMMA CompletedEndorses ==
  ASSUME NEW net, NEW k \in Conn, NEW p \in Protocols,
         IsValidSource(net, k, p), NEW pending, NEW x,
         Completed(pending, x, k, p), NEW H, NEW m, <<m, k>> \in H,
         \A q : <<x, q>> \in pending => <<m, q>> \in H
  PROVE  EndorsedBy(H, {m}, p)
<1>1. \A q : <<m, q>> \in H => \E h \in H : h[1] \in {m} /\ h[2] = q
  <2> SUFFICES ASSUME NEW q, <<m, q>> \in H
               PROVE  \E h \in H : h[1] \in {m} /\ h[2] = q
    BY Zenon
  <2>1. PICK h \in H : h = <<m, q>>
    BY Zenon
  <2> QED
    BY <2>1, Zenon
<1>2. CASE p = <<>>
  BY <1>1, <1>2, Zenon DEF EndorsedBy
<1>3. CASE p # <<>> /\ Len(p) > 1
  <2>1. \A q \in Range(p) : <<m, q>> \in H
    BY <1>3, Zenon DEF Completed, CheckPending, Range
  <2> QED
    BY <1>1, <1>3, <2>1, Zenon DEF EndorsedBy
<1>4. CASE p # <<>> /\ ~(Len(p) > 1)
  <2>1. Len(p) = 1 /\ k \in Range(p)
    BY <1>4, ListOfConns, Zenon DEF IsValidSource
  <2>2. Range(p) = {k}
    BY <2>1, ListOfConns, Zenon
  <2> QED
    BY <1>1, <1>4, <2>2, Zenon DEF EndorsedBy
<1> QED
  BY <1>2, <1>3, <1>4, Zenon

-----------------------------------------------------------------------------
(***************************************************************************)
(* Typing                                                                  *)
(***************************************************************************)
\* Ranges grow with their ends.
LEMMA Ranges ==
  ASSUME TypeOK
  PROVE  /\ sn \in Nat /\ reqId \in Nat
         /\ 1..sn \subseteq Sns /\ 1..sn \subseteq 1..(sn + 1)
         /\ 1..reqId \subseteq ReqIds /\ 1..reqId \subseteq 1..(reqId + 1)
         /\ \A s \in Sns : s <= sn => s \in 1..sn /\ s <= sn + 1
         /\ \A i \in ReqIds : i <= reqId => i \in 1..reqId /\ i <= reqId + 1
         /\ sn + 1 \notin 1..sn /\ reqId + 1 \notin 1..reqId
         /\ sn + 1 <= sn + 1 /\ reqId + 1 <= reqId + 1
         /\ reqId + 1 \in 1..(reqId + 1)
         /\ sn + 1 \in Sns => sn + 1 \in 0..MaxSn
         /\ reqId + 1 \in ReqIds => reqId + 1 \in 0..MaxReqId
<1>1. sn \in Nat /\ reqId \in Nat /\ sn <= MaxSn /\ reqId <= MaxReqId
  BY XcallAssumption DEF TypeOK
<1> QED
  BY <1>1, XcallAssumption DEF Sns, ReqIds

LEMMA AddRollbackTypes ==
  ASSUME SuiAssumption, TypeOK, NEW to \in Nets, NEW type \in MsgType,
         NEW src \in Protocols, NEW dst \in Protocols,
         AddRollback(to, type, src)
  PROVE  /\ sn' \in 0..MaxSn
         /\ rollbacks' \in [Sns -> RollbackData \cup {None}]
         /\ \A s \in Sns : rollbacks'[s] # None => s <= sn'
         /\ calls' \in [Sns -> Call \cup {None}]
         /\ CallRequest(type, dst) \in Request
         /\ 1..sn \subseteq 1..sn'
<1>1. /\ sn + 1 \in Sns /\ sn' = sn + 1 /\ sn' \in 0..MaxSn
      /\ 1..sn \subseteq 1..sn'
  BY Ranges, Zenon DEF AddRollback
<1>2. CallRequest(type, dst) \in Request
  BY <1>1, Zenon DEF CallRequest, Request, SuiAssumption
<1>3. \A s \in Sns : rollbacks[s] # None => s <= sn'
  BY <1>1, Ranges, Zenon DEF TypeOK
<1>4. CASE type = TwoWay
  <2>1. [to |-> to, sources |-> src, enabled |-> FALSE] \in RollbackData
    BY Zenon DEF RollbackData
  <2>2. [to |-> to, protocols |-> src] \in Call
    BY Zenon DEF Call, Nets
  <2>3. /\ rollbacks' = [rollbacks EXCEPT ![sn + 1] =
             [to |-> to, sources |-> src, enabled |-> FALSE]]
        /\ calls' = [calls EXCEPT ![sn + 1] = [to |-> to, protocols |-> src]]
    BY <1>4, Zenon DEF AddRollback
  <2>4. /\ rollbacks' \in [Sns -> RollbackData \cup {None}]
        /\ calls' \in [Sns -> Call \cup {None}]
    BY <1>1, <2>1, <2>2, <2>3, Zenon DEF TypeOK
  <2>5. \A s \in Sns : rollbacks'[s] # None => s <= sn'
    <3>1. \A s \in Sns : s # sn + 1 => rollbacks'[s] = rollbacks[s]
      BY <2>3, Zenon DEF TypeOK
    <3> QED
      BY <1>1, <1>3, <3>1, Ranges, Zenon
  <2> QED
    BY <1>1, <1>2, <2>4, <2>5, Zenon
<1>5. CASE type # TwoWay
  BY <1>1, <1>2, <1>3, <1>5, Zenon DEF AddRollback, TypeOK
<1> QED
  BY <1>4, <1>5, Zenon

LEMMA SendTypes ==
  ASSUME SuiAssumption, TypeOK, NEW to \in Nets, NEW o \in Outgoing, NEW coin,
         \/ SendReply(to, o[1], o[2], o[3], coin)
         \/ SendOut(to, o[1], o[2], o[3], coin)
  PROVE  TypeOK'
<1>1. /\ AddRollback(to, o[1], o[2])
      /\ o[1] \in MsgType /\ o[2] \in Protocols /\ o[3] \in Protocols
  BY Zenon DEF SendReply, SendOut, SuiAssumption
<1>2. /\ sn' \in 0..MaxSn
      /\ rollbacks' \in [Sns -> RollbackData \cup {None}]
      /\ \A s \in Sns : rollbacks'[s] # None => s <= sn'
      /\ calls' \in [Sns -> Call \cup {None}]
      /\ CallRequest(o[1], o[3]) \in Request
      /\ 1..sn \subseteq 1..sn'
  BY <1>1, AddRollbackTypes, Zenon
<1>3. /\ UNCHANGED <<reqVars, ticketVars, feeVars, pendVars, doneVars,
                     connections>>
      /\ \/ UNCHANGED replyVars
         \/ replyState' = None /\ callReply' = CallRequest(o[1], o[3])
  BY Zenon DEF SendReply, SendOut
<1>4. {replyState', callReply'} \subseteq Request \cup {None}
  BY <1>2, <1>3, Zenon DEF replyVars, TypeOK
<1>5. /\ successfulResponses' \subseteq 1..sn'
      /\ rollbackTickets' \subseteq 1..sn' /\ rolledBack' \subseteq 1..sn'
  BY <1>2, <1>3, Zenon DEF TypeOK, ticketVars, doneVars
<1> QED
  BY <1>2, <1>3, <1>4, <1>5, Zenon
     DEF TypeOK, reqVars, ticketVars, feeVars, pendVars, doneVars

\* A new request gets the next id.
LEMMA AddProxyRequestTypes ==
  ASSUME TypeOK, NEW req \in Request, AddProxyRequest(req)
  PROVE  /\ reqId' \in 0..MaxReqId
         /\ proxyReqs' \in [ReqIds -> Request \cup {None}]
         /\ \A id \in ReqIds : proxyReqs'[id] # None => id <= reqId'
         /\ tickets \in Seq(1..reqId')
         /\ admitted' \subseteq (1..reqId') \X Request
         /\ executed \subseteq (1..reqId') \X Request \X Code
         /\ \A id \in 1..reqId : proxyReqs'[id] = proxyReqs[id]
<1>1. /\ reqId + 1 \in ReqIds /\ reqId' = reqId + 1
      /\ proxyReqs' = [proxyReqs EXCEPT ![reqId + 1] = req]
      /\ admitted' = admitted \cup {<<reqId + 1, req>>}
  BY Zenon DEF AddProxyRequest
<1>2. /\ 1..reqId \subseteq 1..reqId' /\ reqId + 1 \in 1..reqId'
      /\ reqId' \in 0..MaxReqId
  BY <1>1, Ranges, Zenon
<1>3. /\ proxyReqs' \in [ReqIds -> Request \cup {None}]
      /\ \A id \in ReqIds : id # reqId + 1 => proxyReqs'[id] = proxyReqs[id]
  BY <1>1, Zenon DEF TypeOK
<1>4. \A id \in ReqIds : proxyReqs'[id] # None => id <= reqId'
  <2>1. \A id \in ReqIds : proxyReqs[id] # None => id <= reqId'
    BY <1>1, Ranges, Zenon DEF TypeOK
  <2> QED
    BY <1>1, <1>3, <2>1, Ranges, Zenon
<1>5. \A id \in 1..reqId : proxyReqs'[id] = proxyReqs[id]
  BY <1>3, Ranges, Zenon
<1>6. tickets \in Seq(1..reqId')
  BY <1>2 DEF TypeOK
<1>7. <<reqId + 1, req>> \in (1..reqId') \X Request
  BY <1>2, Zenon
<1>8. admitted' \subseteq (1..reqId') \X Request
  <2>1. admitted \subseteq (1..reqId) \X Request
    BY Zenon DEF TypeOK
  <2>2. (1..reqId) \X Request \subseteq (1..reqId') \X Request
    BY <1>2
  <2> QED
    BY <1>1, <1>7, <2>1, <2>2, Zenon
<1>9. executed \subseteq (1..reqId') \X Request \X Code
  <2>1. executed \subseteq (1..reqId) \X Request \X Code
    BY Zenon DEF TypeOK
  <2>2. (1..reqId) \X Request \X Code \subseteq (1..reqId') \X Request \X Code
    BY <1>2
  <2> QED
    BY <2>1, <2>2, Zenon
<1> QED
  BY <1>2, <1>3, <1>4, <1>5, <1>6, <1>8, <1>9, Zenon

LEMMA HearTypes ==
  ASSUME TypeOK, NEW k \in Conn, NEW m \in CSMessage, Hear(k, m)
  PROVE  heard' \subseteq CSMessage \X Conn
BY DEF Hear, TypeOK

LEMMA RequestTypes ==
  ASSUME TypeOK, NEW src, NEW k \in Conn, NEW req \in Request,
         HandleRequestPending(src, k, req) \/ HandleRequest(src, k, req)
  PROVE  TypeOK'
<1>1. heard' \subseteq CSMessage \X Conn
  BY HearTypes, MessagesType, Zenon DEF HandleRequestPending, HandleRequest
<1>2. UNCHANGED <<sendVars, replyVars, ticketVars, feeVars, pendingResponses,
                  doneVars, connections>>
  BY Zenon DEF HandleRequestPending, HandleRequest
<1>3. pendingReqs' \subseteq Request \X Conn
  <2>1. pendingReqs' \subseteq pendingReqs \cup {<<req, k>>}
    BY Zenon DEF HandleRequestPending, HandleRequest, RemovePending
  <2>2. pendingReqs \subseteq Request \X Conn
           /\ <<req, k>> \in Request \X Conn
    BY Zenon DEF TypeOK
  <2> QED
    BY <2>1, <2>2, Zenon
<1>4. CASE HandleRequestPending(src, k, req)
  BY <1>1, <1>2, <1>3, <1>4, Zenon
     DEF HandleRequestPending, TypeOK, sendVars, reqVars, replyVars,
         ticketVars, feeVars, doneVars
<1>5. CASE HandleRequest(src, k, req)
  <2>1. /\ reqId' \in 0..MaxReqId
        /\ proxyReqs' \in [ReqIds -> Request \cup {None}]
        /\ \A id \in ReqIds : proxyReqs'[id] # None => id <= reqId'
        /\ tickets \in Seq(1..reqId')
        /\ admitted' \subseteq (1..reqId') \X Request
        /\ executed \subseteq (1..reqId') \X Request \X Code
    BY <1>5, AddProxyRequestTypes, Zenon DEF HandleRequest
  <2> QED
    BY <1>1, <1>2, <1>3, <2>1, Zenon
       DEF TypeOK, sendVars, replyVars, ticketVars, feeVars, doneVars
<1> QED
  BY <1>4, <1>5, Zenon

LEMMA ResultPendingTypes ==
  ASSUME TypeOK, NEW k \in Conn, NEW res \in Result,
         HandleResultPending(k, res)
  PROVE  TypeOK'
<1>1. heard' \subseteq CSMessage \X Conn
  BY HearTypes, MessagesType, Zenon DEF HandleResultPending
<1>2. pendingResponses' \subseteq Result \X Conn
  <2>1. pendingResponses' = pendingResponses \cup {<<res, k>>}
    BY Zenon DEF HandleResultPending
  <2>2. pendingResponses \subseteq Result \X Conn
           /\ <<res, k>> \in Result \X Conn
    BY Zenon DEF TypeOK
  <2> QED
    BY <2>1, <2>2, Zenon
<1> QED
  BY <1>1, <1>2, Zenon
     DEF HandleResultPending, TypeOK, sendVars, reqVars, replyVars,
         ticketVars, feeVars, doneVars

\* A complete result is that of a call with a rollback.
LEMMA ResultCompleteTypes ==
  ASSUME TypeOK, NEW k \in Conn, NEW res \in Result, ResultComplete(k, res)
  PROVE  /\ pendingResponses' \subseteq pendingResponses
         /\ heard' = heard \cup {<<CSResult(res), k>>}
         /\ heard' \subseteq CSMessage \X Conn
         /\ res.sn \in Sns /\ res.sn \in 1..sn
         /\ rollbacks[res.sn] # None /\ rollbacks[res.sn] \in RollbackData
<1>1. /\ rollbacks[res.sn] # None /\ Hear(k, CSResult(res))
      /\ pendingResponses' \subseteq pendingResponses
  BY Zenon DEF ResultComplete, ResultValid, RemovePending
<1>2. res.sn \in Sns
  BY Zenon DEF Result
<1>3. rollbacks[res.sn] \in RollbackData /\ res.sn <= sn
  BY <1>1, <1>2, Zenon DEF TypeOK
<1>4. res.sn \in 1..sn
  BY <1>2, <1>3, Ranges, Zenon
<1>5. heard' \subseteq CSMessage \X Conn
  BY <1>1, HearTypes, MessagesType, Zenon
<1> QED
  BY <1>1, <1>2, <1>3, <1>4, <1>5, Zenon DEF Hear

\* The reply that comes with a success is a request.
LEMMA ReplyRequest ==
  ASSUME TypeOK, NEW k \in Conn, NEW res \in Result, res.reply # None,
         HandleResultSuccess(k, res)
  PROVE  \E req \in Request :
           /\ req = [res.reply EXCEPT !.protocols = rollbacks[res.sn].sources]
           /\ req.protocols = rollbacks[res.sn].sources
           /\ AddProxyRequest(req)
<1>1. PICK p : p = rollbacks[res.sn].sources
  BY Zenon
<1>2. p \in Protocols
  BY <1>1, ResultCompleteTypes, Zenon DEF HandleResultSuccess, RollbackData
<1>3. PICK req : req = [res.reply EXCEPT !.protocols = p]
  BY Zenon
<1>4. req \in Request /\ req.protocols = p
  BY <1>2, <1>3, Zenon DEF Result, Request
<1>5. AddProxyRequest(req)
  BY <1>1, <1>3, Zenon DEF HandleResultSuccess, HandleReply
<1> QED
  BY <1>1, <1>3, <1>4, <1>5, Zenon

LEMMA ResultSuccessTypes ==
  ASSUME TypeOK, NEW k \in Conn, NEW res \in Result,
         HandleResultSuccess(k, res)
  PROVE  TypeOK'
<1>1. /\ pendingResponses' \subseteq pendingResponses
      /\ heard' \subseteq CSMessage \X Conn
      /\ res.sn \in Sns /\ res.sn \in 1..sn
  BY ResultCompleteTypes, Zenon DEF HandleResultSuccess
<1>2. /\ rollbacks' = [rollbacks EXCEPT ![res.sn] = None]
      /\ successfulResponses' = successfulResponses \cup {res.sn}
      /\ UNCHANGED <<sn, calls, replyVars, ticketVars, feeVars, pendingReqs,
                     executed, rolledBack, connections>>
  BY Zenon DEF HandleResultSuccess, RemoveRollback
<1>3. /\ rollbacks' \in [Sns -> RollbackData \cup {None}]
      /\ \A s \in Sns : rollbacks'[s] # None => s <= sn'
      /\ successfulResponses' \subseteq 1..sn'
      /\ pendingResponses' \subseteq Result \X Conn
  BY <1>1, <1>2, Zenon DEF TypeOK
<1>4. /\ reqId' \in 0..MaxReqId
      /\ proxyReqs' \in [ReqIds -> Request \cup {None}]
      /\ \A id \in ReqIds : proxyReqs'[id] # None => id <= reqId'
      /\ tickets \in Seq(1..reqId')
      /\ admitted' \subseteq (1..reqId') \X Request
      /\ executed \subseteq (1..reqId') \X Request \X Code
  <2>1. CASE res.reply = None
    <3>1. UNCHANGED reqVars
      BY <2>1, Zenon DEF HandleResultSuccess
    <3> QED
      BY <3>1, Zenon DEF reqVars, TypeOK
  <2>2. CASE res.reply # None
    BY <2>2, ReplyRequest, AddProxyRequestTypes, Zenon
  <2> QED
    BY <2>1, <2>2, Zenon
<1> QED
  BY <1>1, <1>2, <1>3, <1>4, Zenon DEF TypeOK, replyVars, ticketVars, feeVars

LEMMA ResultFailureTypes ==
  ASSUME TypeOK, NEW k \in Conn, NEW res \in Result,
         HandleResultFailure(k, res)
  PROVE  TypeOK'
<1>1. /\ pendingResponses' \subseteq pendingResponses
      /\ heard' \subseteq CSMessage \X Conn
      /\ res.sn \in Sns /\ rollbacks[res.sn] # None
      /\ rollbacks[res.sn] \in RollbackData
  BY ResultCompleteTypes, Zenon DEF HandleResultFailure
<1>2. /\ rollbacks' = [rollbacks EXCEPT ![res.sn].enabled = TRUE]
      /\ UNCHANGED <<sn, calls, reqVars, replyVars, ticketVars, feeVars,
                     pendingReqs, doneVars, connections>>
  BY Zenon DEF HandleResultFailure
<1>3. [rollbacks[res.sn] EXCEPT !.enabled = TRUE] \in RollbackData
  BY <1>1, Zenon DEF RollbackData
<1>4. /\ rollbacks' \in [Sns -> RollbackData \cup {None}]
      /\ \A s \in Sns : s # res.sn => rollbacks'[s] = rollbacks[s]
      /\ pendingResponses' \subseteq Result \X Conn
  BY <1>1, <1>2, <1>3, Zenon DEF TypeOK
<1>5. \A s \in Sns : rollbacks'[s] # None => s <= sn
  BY <1>1, <1>4, Zenon DEF TypeOK
<1> QED
  BY <1>1, <1>2, <1>4, <1>5, Zenon
     DEF TypeOK, reqVars, replyVars, ticketVars, feeVars, doneVars

\* Taking a ticket.
LEMMA ExecuteCallTypes ==
  ASSUME SuiAssumption, TypeOK, NEW id \in ReqIds, ExecuteCall(id)
  PROVE  TypeOK'
<1>1. /\ proxyReqs[id] # None /\ Len(tickets) < MaxTickets
      /\ tickets' = Append(tickets, id)
      /\ handed' = [handed EXCEPT ![id] = @ + 1]
      /\ replyState' \in {proxyReqs[id], replyState}
      /\ UNCHANGED <<sendVars, reqVars, callReply, rollbackTickets, feeVars,
                     pendVars, doneVars, connections>>
  BY Zenon DEF ExecuteCall
<1>2. id \in 1..reqId /\ proxyReqs[id] \in Request
  BY <1>1, Ranges, Zenon DEF TypeOK
<1>3. tickets' \in Seq(1..reqId) /\ Len(tickets') <= MaxTickets
  BY <1>1, <1>2 DEF TypeOK, SuiAssumption
<1>4. handed' \in [ReqIds -> Nat]
  BY <1>1 DEF TypeOK
<1>5. {replyState', callReply'} \subseteq Request \cup {None}
  BY <1>1, <1>2, Zenon DEF TypeOK
<1> QED
  BY <1>1, <1>3, <1>4, <1>5, Zenon
     DEF TypeOK, sendVars, reqVars, feeVars, pendVars, doneVars

\* Giving one back: the others keep their order.
LEMMA RemoveTicket ==
  ASSUME NEW S, NEW t \in Seq(S), NEW i \in DOMAIN t
  PROVE  /\ RemoveAt(t, i) \in Seq(S)
         /\ Len(t) \in Nat /\ Len(RemoveAt(t, i)) = Len(t) - 1
         /\ DOMAIN t = 1..Len(t)
         /\ DOMAIN RemoveAt(t, i) = 1..(Len(t) - 1)
         /\ \A j \in 1..(Len(t) - 1) :
              RemoveAt(t, i)[j] = IF j < i THEN t[j] ELSE t[j + 1]
<1>1. Len(t) \in Nat /\ DOMAIN t = 1..Len(t) /\ i \in 1..Len(t)
  OBVIOUS
<1>2. PICK a, c : a = SubSeq(t, 1, i - 1) /\ c = SubSeq(t, i + 1, Len(t))
  BY Zenon
<1>3. /\ a \in Seq(S) /\ Len(a) = i - 1
      /\ \A j \in 1..(i - 1) : a[j] = t[j]
  BY <1>1, <1>2
<1>4. /\ c \in Seq(S) /\ Len(c) = Len(t) - i
      /\ \A j \in 1..(Len(t) - i) : c[j] = t[i + j]
  BY <1>1, <1>2
<1>5. RemoveAt(t, i) = a \o c
  BY <1>2, Zenon DEF RemoveAt
<1>6. /\ a \o c \in Seq(S) /\ Len(a \o c) = Len(a) + Len(c)
      /\ DOMAIN (a \o c) = 1..(Len(a) + Len(c))
      /\ \A j \in 1..(Len(a) + Len(c)) :
           (a \o c)[j] = IF j <= Len(a) THEN a[j] ELSE c[j - Len(a)]
  <2>1. a \in Seq(S) /\ c \in Seq(S)
    BY <1>3, <1>4, Zenon
  <2>2. a \o c \in Seq(S) /\ Len(a \o c) = Len(a) + Len(c)
    BY <2>1
  <2>3. DOMAIN (a \o c) = 1..(Len(a) + Len(c))
    BY <2>1
  <2>4. \A j \in 1..(Len(a) + Len(c)) :
          (a \o c)[j] = IF j <= Len(a) THEN a[j] ELSE c[j - Len(a)]
    BY <2>1
  <2> QED
    BY <2>2, <2>3, <2>4, Zenon
<1>7. Len(a) + Len(c) = Len(t) - 1
  BY <1>1, <1>3, <1>4
<1>8. ASSUME NEW j \in 1..(Len(t) - 1)
      PROVE  (a \o c)[j] = IF j < i THEN t[j] ELSE t[j + 1]
  <2>1. (a \o c)[j] = IF j <= Len(a) THEN a[j] ELSE c[j - Len(a)]
    BY <1>6, <1>7, Zenon
  <2>2. CASE j < i
    <3>1. j \in 1..(i - 1) /\ j <= Len(a)
      BY <1>1, <1>3, <2>2
    <3> QED
      BY <1>3, <2>1, <2>2, <3>1, Zenon
  <2>3. CASE ~(j < i)
    <3>1. /\ ~(j <= Len(a)) /\ j - Len(a) \in 1..(Len(t) - i)
          /\ i + (j - Len(a)) = j + 1
      BY <1>1, <1>3, <2>3
    <3> QED
      BY <1>4, <2>1, <2>3, <3>1, Zenon
  <2> QED
    BY <2>2, <2>3, Zenon
<1> QED
  BY <1>1, <1>5, <1>6, <1>7, <1>8, Zenon

\* Reporting the outcome of a request.
LEMMA ExecuteCallResultTypes ==
  ASSUME SuiAssumption, TypeOK, NEW i, NEW code \in Code,
         ExecuteCallResult(i, code)
  PROVE  \E id \in 1..reqId, req \in Request :
           /\ i \in DOMAIN tickets /\ id = tickets[i] /\ req = proxyReqs[id]
           /\ proxyReqs' = [proxyReqs EXCEPT ![id] = None]
           /\ executed' = executed \cup {<<id, req, code>>}
           /\ tickets' = RemoveAt(tickets, i)
           /\ replyState' = None
           /\ callReply' \in {None, callReply}
           /\ req.type = TwoWay => SendResult(req, code)
           /\ sent \subseteq sent'
           /\ UNCHANGED <<sendVars, reqId, admitted, rollbackTickets, handed,
                          feeVars, pendVars, successfulResponses, rolledBack,
                          connections>>
<1>1. PICK id, req : /\ i \in DOMAIN tickets
                     /\ id = tickets[i] /\ req = proxyReqs[id]
  BY Zenon DEF ExecuteCallResult
<1>2. /\ req # None
      /\ proxyReqs' = [proxyReqs EXCEPT ![id] = None]
      /\ executed' = executed \cup {<<id, req, code>>}
      /\ IF req.type = TwoWay THEN SendResult(req, code)
         ELSE UNCHANGED <<callReply, sent>>
      /\ tickets' = RemoveAt(tickets, i)
      /\ replyState' = None
      /\ UNCHANGED <<sendVars, reqId, admitted, rollbackTickets, handed,
                     feeVars, pendVars, successfulResponses, rolledBack,
                     connections>>
  BY <1>1, Zenon DEF ExecuteCallResult, RemoveProxyRequest, RemoveReplyState
<1>3. id \in 1..reqId
  BY <1>1 DEF TypeOK
<1>4. id \in ReqIds
  BY <1>3, Ranges, Zenon
<1>5. req \in Request
  BY <1>1, <1>2, <1>4, Zenon DEF TypeOK
<1>6. callReply' \in {None, callReply} /\ sent \subseteq sent'
  BY <1>2, Zenon DEF SendResult, ConnectionSendMessage
<1> QED
  BY <1>1, <1>2, <1>3, <1>5, <1>6, Zenon

LEMMA CallResultTypes ==
  ASSUME SuiAssumption, TypeOK, NEW i, NEW code \in Code,
         ExecuteCallResult(i, code)
  PROVE  TypeOK'
<1>1. PICK id \in 1..reqId, req \in Request :
        /\ i \in DOMAIN tickets
        /\ proxyReqs' = [proxyReqs EXCEPT ![id] = None]
        /\ executed' = executed \cup {<<id, req, code>>}
        /\ tickets' = RemoveAt(tickets, i)
        /\ replyState' = None
        /\ callReply' \in {None, callReply}
        /\ UNCHANGED <<sendVars, reqId, admitted, rollbackTickets, handed,
                       feeVars, pendVars, successfulResponses, rolledBack,
                       connections>>
  <2>1. PICK id \in 1..reqId, req \in Request :
          /\ i \in DOMAIN tickets /\ id = tickets[i] /\ req = proxyReqs[id]
          /\ proxyReqs' = [proxyReqs EXCEPT ![id] = None]
          /\ executed' = executed \cup {<<id, req, code>>}
          /\ tickets' = RemoveAt(tickets, i)
          /\ replyState' = None
          /\ callReply' \in {None, callReply}
          /\ req.type = TwoWay => SendResult(req, code)
          /\ sent \subseteq sent'
          /\ UNCHANGED <<sendVars, reqId, admitted, rollbackTickets, handed,
                         feeVars, pendVars, successfulResponses, rolledBack,
                         connections>>
    BY ExecuteCallResultTypes, Zenon
  <2> QED
    BY <2>1, Zenon
<1>2. tickets' \in Seq(1..reqId) /\ Len(tickets') = Len(tickets) - 1
  BY <1>1, RemoveTicket, Zenon DEF TypeOK
<1>3. Len(tickets) \in Nat
  BY DEF TypeOK
<1>4. Len(tickets') <= MaxTickets
  BY <1>2, <1>3 DEF TypeOK, SuiAssumption
<1>5. /\ proxyReqs' \in [ReqIds -> Request \cup {None}]
      /\ \A x \in ReqIds : proxyReqs'[x] # None => x <= reqId
  BY <1>1, Zenon DEF TypeOK
<1>6. executed' \subseteq (1..reqId) \X Request \X Code
  <2>1. <<id, req, code>> \in (1..reqId) \X Request \X Code
    BY Zenon
  <2> QED
    BY <1>1, <2>1, Zenon DEF TypeOK
<1>7. {replyState', callReply'} \subseteq Request \cup {None}
  BY <1>1, Zenon DEF TypeOK
<1> QED
  BY <1>1, <1>2, <1>4, <1>5, <1>6, <1>7, Zenon
     DEF TypeOK, sendVars, feeVars, pendVars

LEMMA RollbackTypes ==
  ASSUME TypeOK, NEW s \in Sns,
         \/ ExecuteRollback(s)
         \/ \E success \in BOOLEAN : ExecuteRollbackResult(s, success)
  PROVE  TypeOK'
<1>1. CASE ExecuteRollback(s)
  <2>1. s \in 1..sn
    BY <1>1, Ranges, Zenon DEF ExecuteRollback, TypeOK
  <2>2. /\ rollbackTickets' = rollbackTickets \cup {s}
        /\ UNCHANGED <<sendVars, reqVars, replyVars, tickets, handed, feeVars,
                       pendVars, doneVars, connections>>
    BY <1>1, Zenon DEF ExecuteRollback
  <2>3. rollbackTickets' \subseteq 1..sn
    BY <2>1, <2>2, Zenon DEF TypeOK
  <2> QED
    BY <2>2, <2>3, Zenon
       DEF TypeOK, sendVars, reqVars, replyVars, feeVars, pendVars, doneVars
<1>2. ASSUME NEW success \in BOOLEAN, ExecuteRollbackResult(s, success)
      PROVE  TypeOK'
  <2>1. /\ s \in rollbackTickets
        /\ rollbackTickets' \subseteq rollbackTickets
        /\ \/ /\ rollbacks' = [rollbacks EXCEPT ![s] = None]
              /\ rolledBack' = rolledBack \cup {s}
           \/ UNCHANGED <<rollbacks, rolledBack>>
        /\ UNCHANGED <<sn, calls, reqVars, replyVars, tickets, handed, feeVars,
                       pendVars, successfulResponses, executed, connections>>
    BY <1>2, Zenon DEF ExecuteRollbackResult, RemoveRollback
  <2>2. /\ rollbacks' \in [Sns -> RollbackData \cup {None}]
        /\ \A x \in Sns : rollbacks'[x] # None => x <= sn
    BY <2>1, Zenon DEF TypeOK
  <2>3. rollbackTickets' \subseteq 1..sn /\ rolledBack' \subseteq 1..sn
    BY <2>1, Zenon DEF TypeOK
  <2> QED
    BY <2>1, <2>2, <2>3, Zenon
       DEF TypeOK, reqVars, replyVars, feeVars, pendVars
<1> QED
  BY <1>1, <1>2, Zenon

\* The admins change what messages cost and where they go by default.
LEMMA AdminTypes ==
  ASSUME SuiAssumption, TypeOK,
         \/ \E net \in Nets, k \in Conn : SetDefaultConnection(net, k)
         \/ \E value \in FeeValues : SetProtocolFee(value)
         \/ \E k \in Conn, f, g \in FeeValues : SetFee(k, f, g)
         \/ UNCHANGED vars
  PROVE  /\ TypeOK'
         /\ UNCHANGED <<sendVars, reqVars, replyVars, ticketVars, pendVars,
                        doneVars, sent>>
<1> USE DEF sendVars, reqVars, replyVars, ticketVars, pendVars, doneVars
<1>1. ASSUME NEW net \in Nets, NEW k \in Conn, SetDefaultConnection(net, k)
      PROVE  TypeOK'
  BY <1>1, Zenon DEF SetDefaultConnection, TypeOK, feeVars
<1>2. ASSUME NEW value \in FeeValues, SetProtocolFee(value)
      PROVE  TypeOK'
  BY <1>2, Zenon DEF SetProtocolFee, SuiAssumption, TypeOK
<1>3. ASSUME NEW k \in Conn, NEW f \in FeeValues, NEW g \in FeeValues,
             SetFee(k, f, g)
      PROVE  TypeOK'
  <2>1. f \in Nat /\ g \in Nat
    BY Zenon DEF SuiAssumption
  <2>2. connFee' \in [Conn -> [BOOLEAN -> Nat]]
    BY <1>3, <2>1 DEF SetFee, TypeOK
  <2> QED
    BY <1>3, <2>2, Zenon DEF SetFee, TypeOK
<1>4. CASE UNCHANGED vars
  BY <1>4, Zenon DEF vars, TypeOK, feeVars
<1>5. UNCHANGED <<sendVars, reqVars, replyVars, ticketVars, pendVars,
                  doneVars, sent>>
  BY Zenon DEF SetDefaultConnection, SetProtocolFee, SetFee, vars
<1> QED
  BY <1>1, <1>2, <1>3, <1>4, <1>5, Zenon

\* What a step does, with the parts of the message at hand.
LEMMA StepKinds ==
  ASSUME SuiAssumption, [SuiNext]_vars
  PROVE  \/ \E to \in Nets, o \in Outgoing, coin \in CoinValues :
              \/ SendReply(to, o[1], o[2], o[3], coin)
              \/ SendOut(to, o[1], o[2], o[3], coin)
         \/ \E src \in Nets, k \in Conn, req \in Request :
              HandleRequestPending(src, k, req) \/ HandleRequest(src, k, req)
         \/ \E k \in Conn, res \in Result :
              \/ HandleResultPending(k, res)
              \/ HandleResultSuccess(k, res)
              \/ HandleResultFailure(k, res)
         \/ \E id \in ReqIds : ExecuteCall(id)
         \/ \E i \in 1..MaxTickets, code \in Code : ExecuteCallResult(i, code)
         \/ \E s \in Sns : ExecuteRollback(s)
         \/ \E s \in Sns, success \in BOOLEAN :
              ExecuteRollbackResult(s, success)
         \/ EndTransaction
         \/ \E net \in Nets, k \in Conn : SetDefaultConnection(net, k)
         \/ \E value \in FeeValues : SetProtocolFee(value)
         \/ \E k \in Conn, f, g \in FeeValues : SetFee(k, f, g)
         \/ UNCHANGED vars
<1>1. ASSUME NEW src \in Nets, NEW k \in Conn, NEW m \in Wire,
             HandleMessage(src, k, m)
      PROVE  \/ \E req \in Request : \/ HandleRequestPending(src, k, req)
                                     \/ HandleRequest(src, k, req)
             \/ \E res \in Result : \/ HandleResultPending(k, res)
                                    \/ HandleResultSuccess(k, res)
                                    \/ HandleResultFailure(k, res)
  BY <1>1, MessageParts, Zenon DEF HandleMessage, SuiAssumption
<1> QED
  BY <1>1, Zenon DEF SuiNext

LEMMA StepTypes ==
  ASSUME SuiAssumption, TypeOK, [SuiNext]_vars
  PROVE  TypeOK'
<1>1. CASE EndTransaction
  BY <1>1, Zenon
     DEF EndTransaction, TypeOK, sendVars, reqVars, replyVars, feeVars,
         pendVars, doneVars
<1> QED
  BY <1>1, StepKinds, SendTypes, RequestTypes, ResultPendingTypes,
     ResultSuccessTypes, ResultFailureTypes, ExecuteCallTypes,
     CallResultTypes, RollbackTypes, AdminTypes, Zenon

-----------------------------------------------------------------------------
(***************************************************************************)
(* Admitting and settling                                                  *)
(***************************************************************************)
\* A new call starts open.
LEMMA AddRollbackSettle ==
  ASSUME TypeOK, SettleInv, NEW to \in Nets, NEW type, NEW src \in Protocols,
         AddRollback(to, type, src),
         UNCHANGED <<pendVars, successfulResponses, rolledBack, admitted,
                     rollbackTickets>>
  PROVE  SettleInv'
<1> DEFINE n == sn + 1
           settled == successfulResponses \cup rolledBack
<1>1. /\ sn \in Nat /\ n \in Sns
      /\ \A s \in 1..sn : s # n /\ s \in Sns
      /\ \A s \in Sns : s <= sn => s # n
  BY XcallAssumption DEF AddRollback, TypeOK, Sns
<1>2. /\ \A s \in settled : s # n /\ s \in Sns
      /\ \A s \in rollbackTickets : s # n /\ s \in Sns
  BY <1>1, Zenon DEF TypeOK
<1>3. \A s \in Sns : s # n =>
        rollbacks'[s] = rollbacks[s] /\ calls'[s] = calls[s]
  BY Zenon DEF AddRollback, TypeOK
<1>4. rollbacks[n] = None
  BY <1>1, Zenon DEF TypeOK
<1>5. rollbacks'[n] # None =>
        /\ calls'[n] # None /\ calls'[n].protocols = rollbacks'[n].sources
        /\ ~rollbacks'[n].enabled
  <2>1. [to |-> to, protocols |-> src] \in Call
    BY Zenon DEF Call, Nets
  <2>2. [to |-> to, protocols |-> src] # None
    BY <2>1, XcallAssumption, Zenon
  <2>3. CASE type = TwoWay
    BY <1>1, <2>2, <2>3 DEF AddRollback, TypeOK
  <2>4. CASE type # TwoWay
    BY <1>4, <2>4, Zenon DEF AddRollback
  <2> QED
    BY <2>3, <2>4, Zenon
<1>6. UNCHANGED <<heard, pendingReqs, pendingResponses>>
  BY Zenon DEF pendVars
<1>7. RollbacksOpen'
  <2> SUFFICES ASSUME NEW s \in Sns, rollbacks'[s] # None
               PROVE  /\ s \notin settled
                      /\ calls'[s] # None
                      /\ calls'[s].protocols = rollbacks'[s].sources
                      /\ rollbacks'[s].enabled =>
                           OneResult(heard, s, Failure,
                                     rollbacks'[s].sources)
    BY <1>6, Zenon DEF RollbacksOpen, OneResult
  <2>1. CASE s = n
    BY <1>2, <1>5, <2>1, Zenon
  <2>2. CASE s # n
    <3>1. rollbacks'[s] = rollbacks[s] /\ calls'[s] = calls[s]
      BY <1>3, <2>2, Zenon
    <3> QED
      BY <3>1, Zenon DEF SettleInv, RollbacksOpen
  <2> QED
    BY <2>1, <2>2, Zenon
<1>8. PendingHeard' /\ RequestsEndorsed'
  BY <1>6, Zenon DEF SettleInv, PendingHeard, RequestsEndorsed
<1>9. SettledOnResult'
  <2>1. \A s \in settled : calls'[s] = calls[s]
    BY <1>2, <1>3, Zenon
  <2>2. SettledOnOneResult(heard, calls, successfulResponses, rolledBack)
    BY Zenon DEF SettleInv, SettledOnResult
  <2>3. SettledOnOneResult(heard, calls', successfulResponses, rolledBack)
    BY <2>1, <2>2, Zenon DEF SettledOnOneResult
  <2> QED
    BY <1>6, <2>3, Zenon DEF SettledOnResult
<1>10. SettledApart' /\ TicketsEnabled'
  BY <1>2, <1>3, Zenon DEF SettleInv, SettledApart, TicketsEnabled
<1> QED
  BY <1>7, <1>8, <1>9, <1>10, Zenon DEF SettleInv

\* What a delivery may do besides: collect or clear deliveries, admit a
\* request that is endorsed, settle a call or enable its rollback.
LEMMA HearSettle ==
  ASSUME TypeOK, SettleInv, heard \subseteq heard', PendingHeard',
         UNCHANGED <<calls, rolledBack, rollbackTickets>>,
         AdmissionEndorsed(heard', admitted' \ admitted),
         NEW s \in Sns,
         \A t \in Sns : t # s => rollbacks'[t] = rollbacks[t],
         \/ UNCHANGED <<rollbacks, successfulResponses>>
         \/ /\ rollbacks[s] # None /\ rollbacks'[s] = None
            /\ successfulResponses' = successfulResponses \cup {s}
            /\ OneResult(heard', s, Success, rollbacks[s].sources)
         \/ /\ rollbacks[s] # None /\ UNCHANGED successfulResponses
            /\ rollbacks'[s] = [rollbacks[s] EXCEPT !.enabled = TRUE]
            /\ OneResult(heard', s, Failure, rollbacks[s].sources)
  PROVE  SettleInv'
<1> DEFINE settled == successfulResponses \cup rolledBack
<1>1. settled \subseteq Sns
  BY Ranges, Zenon DEF TypeOK
<1>2. RequestsEndorsed'
  <2>1. AdmissionEndorsed(heard', admitted)
    BY AdmissionGrows, Zenon DEF SettleInv, RequestsEndorsed
  <2> QED
    BY <2>1, Zenon DEF RequestsEndorsed, AdmissionEndorsed
<1>3. SettledOnOneResult(heard', calls, successfulResponses, rolledBack)
  BY SettledGrows, Zenon DEF SettleInv, SettledOnResult
<1>4. rollbacks[s] # None =>
        /\ s \notin settled /\ calls[s] # None
        /\ calls[s].protocols = rollbacks[s].sources
        /\ rollbacks[s] \in RollbackData
  BY Zenon DEF SettleInv, RollbacksOpen, TypeOK
<1>5. \A t \in settled : rollbacks[t] = None
  BY Zenon DEF SettleInv, SettledApart
<1>6. \A t \in Sns : rollbacks[t] # None /\ rollbacks[t].enabled =>
        OneResult(heard', t, Failure, rollbacks[t].sources)
  BY OneResultGrows, Zenon DEF SettleInv, RollbacksOpen
<1>7. \A t \in Sns : rollbacks[t] # None =>
        /\ t \notin settled /\ calls[t] # None
        /\ calls[t].protocols = rollbacks[t].sources
  BY Zenon DEF SettleInv, RollbacksOpen
<1>11. \A t \in rollbackTickets : t \in Sns
  BY Ranges, Zenon DEF TypeOK
<1>8. CASE UNCHANGED <<rollbacks, successfulResponses>>
  <2>1. RollbacksOpen'
    BY <1>6, <1>7, <1>8, Zenon DEF RollbacksOpen
  <2>2. SettledApart' /\ TicketsEnabled'
    BY <1>8, Zenon DEF SettleInv, SettledApart, TicketsEnabled
  <2>3. SettledOnResult'
    BY <1>3, <1>8, Zenon DEF SettledOnResult
  <2> QED
    BY <1>2, <2>1, <2>2, <2>3, Zenon DEF SettleInv
<1>9. CASE /\ rollbacks[s] # None /\ rollbacks'[s] = None
           /\ successfulResponses' = successfulResponses \cup {s}
           /\ OneResult(heard', s, Success, rollbacks[s].sources)
  <2>1. RollbacksOpen'
    BY <1>6, <1>7, <1>9, Zenon DEF RollbacksOpen
  <2>2. TicketsEnabled'
    BY <1>9, <1>11, Zenon DEF SettleInv, TicketsEnabled
  <2>3. SettledApart'
    <3>1. \A t \in settled' : rollbacks'[t] = None
      BY <1>1, <1>5, <1>9, Zenon
    <3>2. successfulResponses' \cap rolledBack' = {}
      BY <1>4, <1>9, Zenon DEF SettleInv, SettledApart
    <3> QED
      BY <3>1, <3>2, Zenon DEF SettledApart
  <2>4. SettledOnResult'
    BY <1>3, <1>4, <1>9, Zenon
       DEF SettledOnResult, SettledOnOneResult, OneResult
  <2> QED
    BY <1>2, <2>1, <2>2, <2>3, <2>4, Zenon DEF SettleInv
<1>10. CASE /\ rollbacks[s] # None /\ UNCHANGED successfulResponses
            /\ rollbacks'[s] = [rollbacks[s] EXCEPT !.enabled = TRUE]
            /\ OneResult(heard', s, Failure, rollbacks[s].sources)
  <2>1. rollbacks'[s].sources = rollbacks[s].sources
    BY <1>4, <1>10, Zenon DEF RollbackData
  <2>6. rollbacks'[s].enabled
    BY <1>4, <1>10, Zenon DEF RollbackData
  <2>2. RollbacksOpen'
    BY <1>4, <1>6, <1>7, <1>10, <2>1, Zenon DEF RollbacksOpen
  <2>3. TicketsEnabled'
    BY <1>10, <1>11, <2>6, Zenon DEF SettleInv, TicketsEnabled
  <2>4. SettledApart'
    BY <1>1, <1>4, <1>5, <1>10, Zenon DEF SettleInv, SettledApart
  <2>5. SettledOnResult'
    BY <1>3, <1>10, Zenon DEF SettledOnResult
  <2> QED
    BY <1>2, <2>2, <2>3, <2>4, <2>5, Zenon DEF SettleInv
<1> QED
  BY <1>8, <1>9, <1>10, Zenon

\* handle_request keeps the invariant.
LEMMA RequestSettle ==
  ASSUME TypeOK, SettleInv, NEW src \in Nets, NEW k \in Conn,
         NEW req \in Request,
         HandleRequestPending(src, k, req) \/ HandleRequest(src, k, req)
  PROVE  SettleInv'
<1>1. /\ heard' = heard \cup {<<CSRequest(req), k>>}
      /\ UNCHANGED <<rollbacks, calls, rolledBack, successfulResponses,
                     pendingResponses, rollbackTickets>>
  BY Zenon DEF HandleRequestPending, HandleRequest, Hear, sendVars, doneVars,
               ticketVars
<1>2. pendingReqs' \subseteq pendingReqs \cup {<<req, k>>}
  BY Zenon DEF HandleRequestPending, HandleRequest, RemovePending
<1>3. PendingHeard'
  <2>1. \A p \in pendingReqs' : <<CSRequest(p[1]), p[2]>> \in heard'
    <3>1. \A p \in pendingReqs : <<CSRequest(p[1]), p[2]>> \in heard
      BY Zenon DEF SettleInv, PendingHeard
    <3>2. <<req, k>>[1] = req /\ <<req, k>>[2] = k
      BY Zenon
    <3> QED
      BY <1>1, <1>2, <3>1, <3>2, Zenon
  <2>2. \A p \in pendingResponses' : <<CSResult(p[1]), p[2]>> \in heard'
    BY <1>1, Zenon DEF SettleInv, PendingHeard
  <2> QED
    BY <2>1, <2>2, Zenon DEF PendingHeard
<1>4. AdmissionEndorsed(heard', admitted' \ admitted)
  <2>1. CASE HandleRequestPending(src, k, req)
    BY <2>1, Zenon DEF HandleRequestPending, reqVars, AdmissionEndorsed
  <2>2. CASE HandleRequest(src, k, req)
    <3>1. req.protocols \in Protocols
      BY Zenon DEF Request
    <3>2. \A q : <<req, q>> \in pendingReqs => <<CSRequest(req), q>> \in heard'
      BY <1>1, Zenon DEF SettleInv, PendingHeard
    <3>3. PICK m : m = CSRequest(req)
      BY Zenon
    <3>6. EndorsedBy(heard', {m}, req.protocols)
      BY <1>1, <2>2, <3>1, <3>2, <3>3, CompletedEndorses, Zenon
         DEF HandleRequest
    <3>4. EndorsedBy(heard', {CSRequest(req)}, req.protocols)
      BY <3>3, <3>6, Zenon
    <3>5. \A a \in admitted' \ admitted : a[2] = req
      BY <2>2 DEF HandleRequest, AddProxyRequest
    <3> QED
      BY <3>4, <3>5, Zenon DEF AdmissionEndorsed
  <2> QED
    BY <2>1, <2>2, Zenon
<1>5. CASE \E s : s \in Sns
  BY <1>1, <1>3, <1>4, <1>5, HearSettle, Zenon
<1>6. req.sn \in Sns
  BY Zenon DEF Request
<1> QED
  BY <1>5, <1>6, Zenon

\* Results: what completes a call.
LEMMA CompleteEndorsed ==
  ASSUME TypeOK, SettleInv, NEW k \in Conn, NEW res \in Result,
         ResultComplete(k, res)
  PROVE  EndorsedBy(heard', {CSResult(res)}, rollbacks[res.sn].sources)
<1>1. PICK p : p = rollbacks[res.sn].sources
  BY Zenon
<1>2. PICK to : to = rollbacks[res.sn].to
  BY Zenon
<1>3. PICK m : m = CSResult(res)
  BY Zenon
<1>4. /\ rollbacks[res.sn] \in RollbackData
      /\ heard' = heard \cup {<<m, k>>}
  BY <1>3, ResultCompleteTypes, Zenon
<1>5. p \in Protocols
  BY <1>1, <1>4, Zenon DEF RollbackData
<1>6. IsValidSource(to, k, p) /\ Completed(pendingResponses, res, k, p)
  BY <1>1, <1>2, Zenon DEF ResultComplete, ResultValid
<1>7. \A q : <<res, q>> \in pendingResponses => <<m, q>> \in heard'
  BY <1>3, <1>4, Zenon DEF SettleInv, PendingHeard
<1>8. EndorsedBy(heard', {m}, p)
  BY <1>4, <1>5, <1>6, <1>7, CompletedEndorses, Zenon
<1> QED
  BY <1>1, <1>3, <1>8, Zenon

\* Answers that are collected were given.
LEMMA AnswerHeard ==
  ASSUME SettleInv, NEW k \in Conn, NEW res \in Result,
         heard' = heard \cup {<<CSResult(res), k>>}, UNCHANGED pendingReqs,
         pendingResponses' \subseteq pendingResponses \cup {<<res, k>>}
  PROVE  PendingHeard'
<1>1. \A p \in pendingResponses' : <<CSResult(p[1]), p[2]>> \in heard'
  BY DEF SettleInv, PendingHeard
<1> QED
  BY <1>1, Zenon DEF SettleInv, PendingHeard

LEMMA ResultPendingSettle ==
  ASSUME TypeOK, SettleInv, NEW k \in Conn, NEW res \in Result,
         HandleResultPending(k, res)
  PROVE  SettleInv'
<1>1. /\ heard' = heard \cup {<<CSResult(res), k>>}
      /\ pendingResponses' = pendingResponses \cup {<<res, k>>}
      /\ UNCHANGED <<rollbacks, calls, rolledBack, successfulResponses,
                     pendingReqs, admitted, rollbackTickets>>
  BY Zenon
     DEF HandleResultPending, Hear, sendVars, reqVars, doneVars, ticketVars
<1>2. PendingHeard'
  BY <1>1, AnswerHeard, Zenon
<1>3. AdmissionEndorsed(heard', admitted' \ admitted)
  BY <1>1, Zenon DEF AdmissionEndorsed
<1>4. res.sn \in Sns
  BY Zenon DEF Result
<1> QED
  BY <1>1, <1>2, <1>3, <1>4, HearSettle, Zenon

LEMMA ResultSuccessSettle ==
  ASSUME TypeOK, SettleInv, NEW k \in Conn, NEW res \in Result,
         HandleResultSuccess(k, res)
  PROVE  SettleInv'
<1> DEFINE s == res.sn
           p == rollbacks[s].sources
<1>1. /\ s \in Sns /\ rollbacks[s] # None
      /\ heard' = heard \cup {<<CSResult(res), k>>}
      /\ EndorsedBy(heard', {CSResult(res)}, p)
      /\ pendingResponses' \subseteq pendingResponses \cup {<<res, k>>}
  BY CompleteEndorsed, ResultCompleteTypes, Zenon DEF HandleResultSuccess
<1>2. /\ UNCHANGED <<calls, rolledBack, pendingReqs, rollbackTickets>>
      /\ successfulResponses' = successfulResponses \cup {s}
      /\ rollbacks' = [rollbacks EXCEPT ![s] = None]
      /\ res.code = Success
  BY Zenon DEF HandleResultSuccess, RemoveRollback, ticketVars
<1>3. PendingHeard'
  BY <1>1, <1>2, AnswerHeard, Zenon
<1>4. /\ CSResult(res) \in ResultsOf(s, {Success})
      /\ OneResult(heard', s, Success, p)
  BY <1>1, <1>2, ResultIn, Zenon DEF OneResult
<1>5. AdmissionEndorsed(heard', admitted' \ admitted)
  <2>1. CASE res.reply = None
    BY <2>1, Zenon DEF HandleResultSuccess, reqVars, AdmissionEndorsed
  <2>2. CASE res.reply # None
    <3>1. PICK req : req = [res.reply EXCEPT !.protocols = p]
      BY Zenon
    <3>2. AddProxyRequest(req)
      BY <2>2, <3>1, Zenon DEF HandleResultSuccess, HandleReply
    <3>3. \A a \in admitted' \ admitted : a[2] = req
      BY <3>2 DEF AddProxyRequest
    <3>4. res.reply \in Request /\ req.protocols = p
      BY <2>2, <3>1, Zenon DEF Result, Request
    <3>5. CSResult(res).payload = res
      BY Zenon DEF CSResult
    <3>6. PICK h \in heard' : h[1] = CSResult(res)
      <4>1. <<CSResult(res), k>> \in heard'
        BY <1>1, Zenon
      <4>2. <<CSResult(res), k>>[1] = CSResult(res)
        BY Zenon
      <4> QED
        BY <4>1, <4>2, Zenon
    <3>7. /\ h[1] \in ResultsOf(s, {Success}) /\ h[1].payload.reply # None
          /\ [h[1].payload.reply EXCEPT !.protocols = req.protocols] = req
          /\ EndorsedBy(heard', {h[1]}, req.protocols)
      BY <1>1, <1>4, <2>2, <3>1, <3>4, <3>5, <3>6, Zenon
    <3> QED
      BY <1>1, <3>3, <3>7, Zenon DEF AdmissionEndorsed
  <2> QED
    BY <2>1, <2>2, Zenon
<1>6. /\ \A t \in Sns : t # s => rollbacks'[t] = rollbacks[t]
      /\ rollbacks'[s] = None
  BY <1>1, <1>2, Zenon DEF TypeOK
<1> QED
  BY <1>1, <1>2, <1>3, <1>4, <1>5, <1>6, HearSettle, Zenon

LEMMA ResultFailureSettle ==
  ASSUME TypeOK, SettleInv, NEW k \in Conn, NEW res \in Result,
         HandleResultFailure(k, res)
  PROVE  SettleInv'
<1> DEFINE s == res.sn
<1>1. /\ s \in Sns /\ rollbacks[s] # None
      /\ heard' = heard \cup {<<CSResult(res), k>>}
      /\ EndorsedBy(heard', {CSResult(res)}, rollbacks[s].sources)
      /\ pendingResponses' \subseteq pendingResponses \cup {<<res, k>>}
  BY CompleteEndorsed, ResultCompleteTypes, Zenon DEF HandleResultFailure
<1>2. /\ UNCHANGED <<calls, rolledBack, pendingReqs, admitted,
                     successfulResponses, rollbackTickets>>
      /\ rollbacks' = [rollbacks EXCEPT ![s].enabled = TRUE]
      /\ res.code = Failure
  BY Zenon DEF HandleResultFailure, reqVars, doneVars, ticketVars
<1>3. PendingHeard'
  BY <1>1, <1>2, AnswerHeard, Zenon
<1>4. OneResult(heard', s, Failure, rollbacks[s].sources)
  BY <1>1, <1>2, ResultIn, Zenon DEF OneResult
<1>5. AdmissionEndorsed(heard', admitted' \ admitted)
  BY <1>2, Zenon DEF AdmissionEndorsed
<1>6. /\ \A t \in Sns : t # s => rollbacks'[t] = rollbacks[t]
      /\ rollbacks'[s] = [rollbacks[s] EXCEPT !.enabled = TRUE]
  BY <1>1, <1>2, Zenon DEF TypeOK
<1> QED
  BY <1>1, <1>2, <1>3, <1>4, <1>5, <1>6, HearSettle, Zenon

\* A rollback whose outcome is reported was enabled, and is gone.
LEMMA RollbackSettle ==
  ASSUME TypeOK, SettleInv, NEW s \in Sns, NEW success \in BOOLEAN,
         ExecuteRollbackResult(s, success)
  PROVE  SettleInv'
<1>1. /\ s \in rollbackTickets
      /\ rollbackTickets' \subseteq rollbackTickets
      /\ UNCHANGED <<calls, heard, pendingReqs, pendingResponses,
                     successfulResponses, admitted>>
  BY Zenon DEF ExecuteRollbackResult, reqVars, pendVars
<1>2. PendingHeard' /\ RequestsEndorsed'
  BY <1>1, Zenon DEF SettleInv, PendingHeard, RequestsEndorsed
<1>3. CASE UNCHANGED <<rollbacks, rolledBack>>
  BY <1>1, <1>2, <1>3, Zenon
     DEF SettleInv, RollbacksOpen, TicketsEnabled, SettledOnResult,
         SettledApart
<1>4. CASE /\ rollbacks[s] # None
           /\ rollbacks' = [rollbacks EXCEPT ![s] = None]
           /\ rolledBack' = rolledBack \cup {s}
  <2>1. /\ s \notin successfulResponses
        /\ calls[s].protocols = rollbacks[s].sources
        /\ OneResult(heard, s, Failure, rollbacks[s].sources)
    BY <1>1, <1>4, Zenon DEF SettleInv, RollbacksOpen, TicketsEnabled
  <2>2. /\ \A t \in Sns : t # s => rollbacks'[t] = rollbacks[t]
        /\ rollbacks'[s] = None
        /\ successfulResponses \subseteq Sns /\ rolledBack \subseteq Sns
        /\ rollbackTickets \subseteq Sns
    BY <1>4, Ranges, Zenon DEF TypeOK
  <2>3. RollbacksOpen'
    BY <1>1, <1>4, <2>2, Zenon DEF SettleInv, RollbacksOpen
  <2>4. SettledApart' /\ TicketsEnabled'
    BY <1>1, <1>4, <2>1, <2>2, Zenon
       DEF SettleInv, SettledApart, TicketsEnabled
  <2>5. SettledOnResult'
    BY <1>1, <1>4, <2>1, Zenon
       DEF SettleInv, SettledOnResult, SettledOnOneResult, OneResult
  <2> QED
    BY <1>2, <2>3, <2>4, <2>5, Zenon DEF SettleInv
<1> QED
  BY <1>3, <1>4, Zenon DEF ExecuteRollbackResult, RemoveRollback

\* Taking a ticket needs the rollback to be enabled.
LEMMA TicketSettle ==
  ASSUME SettleInv, NEW s \in Sns, ExecuteRollback(s)
  PROVE  SettleInv'
<1>1. /\ rollbacks[s].enabled /\ rollbackTickets' = rollbackTickets \cup {s}
      /\ UNCHANGED <<rollbacks, calls, heard, pendingReqs, pendingResponses,
                     successfulResponses, rolledBack, admitted>>
  BY Zenon DEF ExecuteRollback, sendVars, reqVars, pendVars, doneVars
<1> QED
  BY <1>1, Zenon
     DEF SettleInv, PendingHeard, RollbacksOpen, TicketsEnabled,
         RequestsEndorsed, SettledOnResult, SettledApart

LEMMA SettleKept ==
  ASSUME SettleInv,
         UNCHANGED <<rollbacks, calls, pendVars, successfulResponses,
                     rolledBack, admitted>>,
         rollbackTickets' \subseteq rollbackTickets
  PROVE  SettleInv'
BY Zenon
   DEF pendVars, SettleInv, PendingHeard, RollbacksOpen, TicketsEnabled,
       RequestsEndorsed, SettledOnResult, SettledApart

LEMMA StepSettles ==
  ASSUME SuiAssumption, TypeOK, SettleInv, [SuiNext]_vars
  PROVE  SettleInv'
<1>1. ASSUME NEW to \in Nets, NEW o \in Outgoing, NEW coin \in CoinValues,
             \/ SendReply(to, o[1], o[2], o[3], coin)
             \/ SendOut(to, o[1], o[2], o[3], coin)
      PROVE  SettleInv'
  <2>1. o[2] \in Protocols
    BY Zenon DEF SuiAssumption
  <2>2. AddRollback(to, o[1], o[2])
    BY <1>1, Zenon DEF SendReply, SendOut
  <2>3. UNCHANGED <<pendVars, successfulResponses, rolledBack, admitted,
                    rollbackTickets>>
    BY <1>1, Zenon DEF SendReply, SendOut, doneVars, reqVars, ticketVars
  <2> QED
    BY <2>1, <2>2, <2>3, AddRollbackSettle, Zenon
<1>2. ASSUME NEW id \in ReqIds, ExecuteCall(id)
      PROVE  SettleInv'
  BY <1>2, SettleKept, Zenon DEF ExecuteCall, sendVars, reqVars, doneVars
<1>3. ASSUME NEW i, NEW code, ExecuteCallResult(i, code)
      PROVE  SettleInv'
  BY <1>3, SettleKept, Zenon DEF ExecuteCallResult, sendVars
<1>4. CASE EndTransaction
  BY <1>4, SettleKept, Zenon DEF EndTransaction, sendVars, reqVars, doneVars
<1>5. CASE UNCHANGED <<sendVars, reqVars, replyVars, ticketVars, pendVars,
                       doneVars, sent>>
  BY <1>5, SettleKept, Zenon DEF sendVars, reqVars, ticketVars, doneVars
<1> QED
  BY <1>1, <1>2, <1>3, <1>4, <1>5, StepKinds, RequestSettle,
     ResultPendingSettle, ResultSuccessSettle, ResultFailureSettle,
     TicketSettle, RollbackSettle, AdminTypes, Zenon

-----------------------------------------------------------------------------
(***************************************************************************)
(* Executing                                                               *)
(***************************************************************************)
\* What was sent stays sent.
LEMMA ResultStays ==
  ASSUME NEW x, ResultSent(x), sent \subseteq sent'
  PROVE  ResultSent(x)'
BY Zenon DEF ResultSent

\* Steps that report no outcome.
LEMMA ExecutedKept ==
  ASSUME TypeOK, ExecutedInv, UNCHANGED executed, sent \subseteq sent',
         \A id \in 1..reqId : proxyReqs'[id] = proxyReqs[id]
  PROVE  ExecutedInv'
<1>1. \A x \in executed : x[1] \in 1..reqId
  BY Zenon DEF TypeOK
<1>2. \A x \in executed : x[2].type = TwoWay => ResultSent(x)'
  BY ResultStays, Zenon DEF ExecutedInv
<1>3. \A x \in executed : proxyReqs'[x[1]] = None
  BY <1>1, Zenon DEF ExecutedInv
<1> QED
  BY <1>2, <1>3, Zenon DEF ExecutedInv

\* What an outcome is sent over: the list of the request at least.
LEMMA ResultGoesOut ==
  ASSUME NEW id, NEW req \in Request, NEW code, SendResult(req, code)
  PROVE  ResultSent(<<id, req, code>>)'
<1>1. PICK reply : \A k \in Range(Route(req.from, req.protocols)) :
        [conn |-> k, net |-> req.from,
         msg |-> CSResult([sn |-> req.sn, code |-> code, reply |-> reply])]
          \in sent'
  <2>1. PICK reply, m :
          /\ m = CSResult([sn |-> req.sn, code |-> code, reply |-> reply])
          /\ ConnectionSendMessage(req.from, req.protocols, m)
    BY Zenon DEF SendResult
  <2>2. \A k \in Range(Route(req.from, req.protocols)) :
          [conn |-> k, net |-> req.from, msg |-> m] \in sent'
    BY <2>1 DEF ConnectionSendMessage
  <2> QED
    BY <2>1, <2>2, Zenon
<1>2. Range(req.protocols) \subseteq Range(Route(req.from, req.protocols))
  <2>1. CASE req.protocols = <<>>
    <3>1. Range(<<>>) = {}
      BY DEF Range
    <3> QED
      BY <2>1, <3>1, Zenon
  <2>2. CASE req.protocols # <<>>
    BY <2>2, Zenon DEF Route
  <2> QED
    BY <2>1, <2>2, Zenon
<1>3. SUFFICES ASSUME NEW k \in Range(req.protocols)
      PROVE  \E e \in sent' :
               /\ e.conn = k /\ e.net = req.from
               /\ e.msg.type = "CSMessageResult"
               /\ e.msg.payload.sn = req.sn /\ e.msg.payload.code = code
  BY Zenon DEF ResultSent
<1>4. PICK e \in sent' :
        e = [conn |-> k, net |-> req.from,
             msg |-> CSResult([sn |-> req.sn, code |-> code,
                               reply |-> reply])]
  BY <1>1, <1>2, <1>3, Zenon
<1> QED
  BY <1>4, Zenon DEF CSResult

\* A request that is still there has not run; reporting its outcome removes it.
LEMMA OutcomeOnce ==
  ASSUME SuiAssumption, TypeOK, ExecutedInv, NEW i, NEW code \in Code,
         ExecuteCallResult(i, code)
  PROVE  ExecutedInv'
<1>1. PICK id \in 1..reqId, req \in Request :
        /\ i \in DOMAIN tickets /\ id = tickets[i] /\ req = proxyReqs[id]
        /\ proxyReqs' = [proxyReqs EXCEPT ![id] = None]
        /\ executed' = executed \cup {<<id, req, code>>}
        /\ tickets' = RemoveAt(tickets, i)
        /\ replyState' = None
        /\ callReply' \in {None, callReply}
        /\ req.type = TwoWay => SendResult(req, code)
        /\ sent \subseteq sent'
        /\ UNCHANGED <<sendVars, reqId, admitted, rollbackTickets, handed,
                       feeVars, pendVars, successfulResponses, rolledBack,
                       connections>>
  BY ExecuteCallResultTypes, Zenon
<1>2. proxyReqs[id] # None
  BY <1>1, XcallAssumption, Zenon
<1>3. \A x \in executed : x[1] # id /\ x[1] \in ReqIds
  BY <1>2, Ranges, Zenon DEF ExecutedInv, TypeOK
<1>4. PICK y : y = <<id, req, code>>
  BY Zenon
<1>5. y[1] = id /\ y[2] = req /\ executed' = executed \cup {y}
  BY <1>1, <1>4, Zenon
<1>6. ExecutedAtMostOnce(executed')
  BY <1>3, <1>5, Zenon DEF ExecutedInv, ExecutedAtMostOnce
<1>7. \A x \in executed' : proxyReqs'[x[1]] = None
  <2>1. id \in ReqIds
    BY Ranges, Zenon
  <2> QED
    BY <1>1, <1>3, <1>5, <2>1, Zenon DEF ExecutedInv, TypeOK
<1>8. \A x \in executed : x[2].type = TwoWay => ResultSent(x)'
  BY <1>1, ResultStays, Zenon DEF ExecutedInv
<1>9. req.type = TwoWay => ResultSent(y)'
  BY <1>1, <1>4, ResultGoesOut, Zenon
<1> QED
  BY <1>5, <1>6, <1>7, <1>8, <1>9, Zenon DEF ExecutedInv

LEMMA StepExecutes ==
  ASSUME SuiAssumption, TypeOK, ExecutedInv, [SuiNext]_vars
  PROVE  ExecutedInv'
<1>1. CASE UNCHANGED <<executed, proxyReqs>> /\ sent \subseteq sent'
  BY <1>1, ExecutedKept, Zenon
<1>2. ASSUME NEW src \in Nets, NEW k \in Conn, NEW req \in Request,
             HandleRequestPending(src, k, req) \/ HandleRequest(src, k, req)
      PROVE  ExecutedInv'
  <2>1. UNCHANGED executed /\ sent \subseteq sent'
    BY <1>2, Zenon DEF HandleRequestPending, HandleRequest, doneVars
  <2>2. \A id \in 1..reqId : proxyReqs'[id] = proxyReqs[id]
    BY <1>2, AddProxyRequestTypes, Zenon
       DEF HandleRequestPending, HandleRequest, reqVars
  <2> QED
    BY <2>1, <2>2, ExecutedKept, Zenon
<1>3. ASSUME NEW k \in Conn, NEW res \in Result, HandleResultSuccess(k, res)
      PROVE  ExecutedInv'
  <2>1. UNCHANGED executed /\ sent \subseteq sent'
    BY <1>3, Zenon DEF HandleResultSuccess
  <2>2. CASE res.reply = None
    BY <1>3, <2>1, <2>2, ExecutedKept, Zenon DEF HandleResultSuccess, reqVars
  <2>3. CASE res.reply # None
    <3>1. \A id \in 1..reqId : proxyReqs'[id] = proxyReqs[id]
      BY <1>3, <2>3, ReplyRequest, AddProxyRequestTypes, Zenon
    <3> QED
      BY <2>1, <3>1, ExecutedKept, Zenon
  <2> QED
    BY <2>2, <2>3, Zenon
<1>4. ASSUME \/ \E to \in Nets, o \in Outgoing, coin \in CoinValues :
                  \/ SendReply(to, o[1], o[2], o[3], coin)
                  \/ SendOut(to, o[1], o[2], o[3], coin)
             \/ \E k \in Conn, res \in Result :
                  HandleResultPending(k, res) \/ HandleResultFailure(k, res)
             \/ \E id \in ReqIds : ExecuteCall(id)
             \/ \E s \in Sns : ExecuteRollback(s)
             \/ \E s \in Sns, success \in BOOLEAN :
                  ExecuteRollbackResult(s, success)
             \/ EndTransaction
      PROVE  UNCHANGED <<executed, proxyReqs>> /\ sent \subseteq sent'
  BY <1>4, Zenon
     DEF SendReply, SendOut, ConnectionSendMessage, HandleResultPending,
         HandleResultFailure, ExecuteCall, ExecuteRollback,
         ExecuteRollbackResult, EndTransaction, reqVars, doneVars
<1>5. CASE UNCHANGED <<sendVars, reqVars, replyVars, ticketVars, pendVars,
                       doneVars, sent>>
  BY <1>1, <1>5, Zenon DEF reqVars, doneVars
<1> QED
  BY <1>1, <1>2, <1>3, <1>4, <1>5, StepKinds, OutcomeOnce, AdminTypes, Zenon

-----------------------------------------------------------------------------
(***************************************************************************)
(* Tickets                                                                 *)
(***************************************************************************)
\* One more ticket.
LEMMA AddTicket ==
  ASSUME NEW S, NEW t \in Seq(S), NEW e \in S
  PROVE  /\ \A j \in DOMAIN t : /\ j \in DOMAIN Append(t, e)
                                /\ Append(t, e)[j] = t[j]
         /\ \E n \in DOMAIN Append(t, e) : /\ n \notin DOMAIN t
                                           /\ Append(t, e)[n] = e
         /\ Range(Append(t, e)) = Range(t) \cup {e}
<1>1. /\ Len(t) \in Nat /\ DOMAIN t = 1..Len(t)
      /\ DOMAIN Append(t, e) = 1..(Len(t) + 1)
  OBVIOUS
<1>2. \A j \in DOMAIN t : /\ j \in DOMAIN Append(t, e)
                          /\ Append(t, e)[j] = t[j]
  BY <1>1
<1>3. /\ Len(t) + 1 \in DOMAIN Append(t, e) /\ Len(t) + 1 \notin DOMAIN t
      /\ Append(t, e)[Len(t) + 1] = e
  BY <1>1
<1>4. \A j \in DOMAIN Append(t, e) : j \in DOMAIN t \/ j = Len(t) + 1
  BY <1>1
<1> QED
  BY <1>2, <1>3, <1>4, Zenon DEF Range

\* One less: each of the others moves to a place of its own.
LEMMA TicketsMove ==
  ASSUME NEW S, NEW t \in Seq(S), NEW i \in DOMAIN t
  PROVE  /\ Range(RemoveAt(t, i)) \subseteq Range(t)
         /\ \A id : (\E j \in DOMAIN t : j # i /\ t[j] = id) =>
              id \in Range(RemoveAt(t, i))
         /\ \A id : SeveralTickets(t, id) /\ id # t[i] =>
              SeveralTickets(RemoveAt(t, i), id)
<1>1. PICK u, n : u = RemoveAt(t, i) /\ n = Len(t) - 1
  BY Zenon
<1>2. /\ Len(t) \in Nat /\ DOMAIN t = 1..Len(t) /\ DOMAIN u = 1..n
      /\ \A j \in 1..n : u[j] = IF j < i THEN t[j] ELSE t[j + 1]
  BY <1>1, RemoveTicket, Zenon
<1>3. n \in Int /\ i \in 1..(n + 1) /\ DOMAIN t = 1..(n + 1)
  BY <1>1, <1>2
<1>4. Range(u) \subseteq Range(t)
  <2>1. \A j \in 1..n : j \in DOMAIN t /\ j + 1 \in DOMAIN t
    BY <1>3
  <2> QED
    BY <1>2, <2>1, Zenon DEF Range
<1>5. \A j \in DOMAIN t : /\ j < i => j \in DOMAIN u /\ u[j] = t[j]
                          /\ i < j => j - 1 \in DOMAIN u /\ u[j - 1] = t[j]
                          /\ j # i => j < i \/ i < j
  BY <1>2, <1>3
<1>6. \A id : (\E j \in DOMAIN t : j # i /\ t[j] = id) => id \in Range(u)
  BY <1>5, Zenon DEF Range
<1>7. ASSUME NEW id, SeveralTickets(t, id), id # t[i]
      PROVE  SeveralTickets(u, id)
  <2>1. PICK j, l \in DOMAIN t : j # l /\ t[j] = id /\ t[l] = id
    BY <1>7, Zenon DEF SeveralTickets
  <2>2. j # i /\ l # i
    BY <1>7, <2>1, Zenon
  <2>3. j \in Int /\ l \in Int /\ i \in Int
    BY <1>3
  <2>4. /\ j < i /\ i < l => j # l - 1
        /\ l < i /\ i < j => j - 1 # l
        /\ j - 1 # l - 1
    BY <2>1, <2>3
  <2> QED
    BY <1>5, <2>1, <2>2, <2>4, Zenon DEF SeveralTickets
<1> QED
  BY <1>1, <1>4, <1>6, <1>7, Zenon

\* Taking a ticket: the request has not run.
LEMMA TakeTicket ==
  ASSUME TypeOK, ExecutedInv, TicketsLeft, NEW id \in ReqIds, ExecuteCall(id)
  PROVE  TicketsLeft'
<1>1. /\ proxyReqs[id] # None /\ tickets' = Append(tickets, id)
      /\ handed' = [handed EXCEPT ![id] = @ + 1] /\ UNCHANGED executed
  BY Zenon DEF ExecuteCall, doneVars
<1>2. \A x : Ran(x)' <=> Ran(x)
  BY <1>1, Zenon DEF Ran
<1>3. ~Ran(id)
  BY <1>1, Zenon DEF Ran, ExecutedInv
<1>4. id \in 1..reqId /\ tickets \in Seq(1..reqId)
  BY <1>1, Ranges, Zenon DEF TypeOK
<1>5. /\ \A j \in DOMAIN tickets : /\ j \in DOMAIN tickets'
                                   /\ tickets'[j] = tickets[j]
      /\ \E n \in DOMAIN tickets' : n \notin DOMAIN tickets /\ tickets'[n] = id
      /\ Range(tickets') = Range(tickets) \cup {id}
  <2>1. PICK t : t = Append(tickets, id)
    BY Zenon
  <2>2. /\ \A j \in DOMAIN tickets : j \in DOMAIN t /\ t[j] = tickets[j]
        /\ \E n \in DOMAIN t : n \notin DOMAIN tickets /\ t[n] = id
        /\ Range(t) = Range(tickets) \cup {id}
    BY <1>4, <2>1, AddTicket, Zenon
  <2> QED
    BY <1>1, <2>1, <2>2, Zenon
<1>6. ASSUME NEW x \in ReqIds, x # id
      PROVE  /\ x \in Range(tickets') => handed'[x] >= 1
             /\ Ran(x)' => handed'[x] = 1 \/ x \in Range(tickets')
             /\ ~Ran(x)' => /\ handed'[x] = 0 \/ x \in Range(tickets')
                            /\ handed'[x] >= 2 => SeveralTickets(tickets', x)
  <2>1. handed'[x] = handed[x]
    BY <1>1, <1>6, Zenon DEF TypeOK
  <2>2. x \in Range(tickets') <=> x \in Range(tickets)
    BY <1>5, <1>6, Zenon
  <2>3. SeveralTickets(tickets, x) => SeveralTickets(tickets', x)
    BY <1>5, Zenon DEF SeveralTickets
  <2> QED
    BY <1>2, <2>1, <2>2, <2>3, Zenon DEF TicketsLeft
<1>7. /\ id \in Range(tickets') /\ handed'[id] >= 1
      /\ handed'[id] >= 2 => SeveralTickets(tickets', id)
  <2>1. /\ handed[id] \in Nat /\ handed'[id] = handed[id] + 1
    BY <1>1, Zenon DEF TypeOK
  <2>2. handed'[id] >= 1 /\ (handed'[id] >= 2 => handed[id] # 0)
    BY <2>1
  <2>3. handed[id] # 0 => \E j \in DOMAIN tickets : tickets[j] = id
    BY <1>3, Zenon DEF TicketsLeft, Range
  <2>4. handed[id] # 0 => SeveralTickets(tickets', id)
    BY <1>5, <2>3, Zenon DEF SeveralTickets
  <2> QED
    BY <1>5, <2>2, <2>4, Zenon
<1> QED
  BY <1>2, <1>3, <1>6, <1>7, Zenon DEF TicketsLeft

\* Using a ticket: the request runs, and further tickets for it are left.
LEMMA UseTicket ==
  ASSUME SuiAssumption, TypeOK, ExecutedInv, TicketsLeft, NEW i,
         NEW code \in Code, ExecuteCallResult(i, code)
  PROVE  TicketsLeft'
<1>1. PICK id \in 1..reqId, req \in Request :
        /\ i \in DOMAIN tickets /\ id = tickets[i] /\ req = proxyReqs[id]
        /\ proxyReqs' = [proxyReqs EXCEPT ![id] = None]
        /\ executed' = executed \cup {<<id, req, code>>}
        /\ tickets' = RemoveAt(tickets, i)
        /\ replyState' = None
        /\ callReply' \in {None, callReply}
        /\ req.type = TwoWay => SendResult(req, code)
        /\ sent \subseteq sent'
        /\ UNCHANGED <<sendVars, reqId, admitted, rollbackTickets, handed,
                       feeVars, pendVars, successfulResponses, rolledBack,
                       connections>>
  BY ExecuteCallResultTypes, Zenon
<1>2. /\ tickets \in Seq(1..reqId) /\ id \in ReqIds
      /\ handed' = handed /\ handed[id] \in Nat
  BY <1>1, Ranges, Zenon DEF TypeOK
<1>3. /\ Range(tickets') \subseteq Range(tickets)
      /\ \A x : (\E j \in DOMAIN tickets : j # i /\ tickets[j] = x) =>
           x \in Range(tickets')
      /\ \A x : SeveralTickets(tickets, x) /\ x # id =>
           SeveralTickets(tickets', x)
  BY <1>1, <1>2, TicketsMove, Zenon
<1>4. ~Ran(id)
  BY <1>1, XcallAssumption, Zenon DEF Ran, ExecutedInv
<1>5. /\ Ran(id)' /\ \A x : x # id => (Ran(x)' <=> Ran(x))
  <2>1. <<id, req, code>>[1] = id
    BY Zenon
  <2> QED
    BY <1>1, <2>1, Zenon DEF Ran
<1>6. ASSUME NEW x \in ReqIds, x # id
      PROVE  /\ x \in Range(tickets') => handed[x] >= 1
             /\ Ran(x)' => handed[x] = 1 \/ x \in Range(tickets')
             /\ ~Ran(x)' => /\ handed[x] = 0 \/ x \in Range(tickets')
                            /\ handed[x] >= 2 => SeveralTickets(tickets', x)
  <2>1. x \in Range(tickets) => x \in Range(tickets')
    BY <1>1, <1>3, <1>6, Zenon DEF Range
  <2> QED
    BY <1>3, <1>5, <1>6, <2>1, Zenon DEF TicketsLeft
<1>7. handed[id] >= 1 /\ (handed[id] = 1 \/ id \in Range(tickets'))
  <2>1. id \in Range(tickets)
    BY <1>1, Zenon DEF Range
  <2>2. handed[id] >= 1 /\ (handed[id] = 1 \/ handed[id] >= 2)
    <3>1. handed[id] >= 1
      BY <1>2, <2>1, Zenon DEF TicketsLeft
    <3> QED
      BY <1>2, <3>1
  <2>3. SeveralTickets(tickets, id) => id \in Range(tickets')
    BY <1>3, Zenon DEF SeveralTickets
  <2> QED
    BY <1>2, <1>4, <2>2, <2>3, Zenon DEF TicketsLeft
<1> QED
  BY <1>2, <1>5, <1>6, <1>7, Zenon DEF TicketsLeft

LEMMA StepTickets ==
  ASSUME SuiAssumption, TypeOK, ExecutedInv, TicketsLeft, [SuiNext]_vars
  PROVE  TicketsLeft'
<1>1. CASE UNCHANGED <<executed, tickets, handed>>
  BY <1>1, Zenon DEF TicketsLeft, Ran
<1>2. ASSUME \/ \E to \in Nets, o \in Outgoing, coin \in CoinValues :
                  \/ SendReply(to, o[1], o[2], o[3], coin)
                  \/ SendOut(to, o[1], o[2], o[3], coin)
             \/ \E src \in Nets, k \in Conn, req \in Request :
                  \/ HandleRequestPending(src, k, req)
                  \/ HandleRequest(src, k, req)
             \/ \E k \in Conn, res \in Result :
                  \/ HandleResultPending(k, res)
                  \/ HandleResultSuccess(k, res)
                  \/ HandleResultFailure(k, res)
             \/ \E s \in Sns : ExecuteRollback(s)
             \/ \E s \in Sns, success \in BOOLEAN :
                  ExecuteRollbackResult(s, success)
             \/ EndTransaction
      PROVE  UNCHANGED <<executed, tickets, handed>>
  BY <1>2, Zenon
     DEF SendReply, SendOut, HandleRequestPending, HandleRequest,
         HandleResultPending, HandleResultSuccess, HandleResultFailure,
         ExecuteRollback, ExecuteRollbackResult, EndTransaction, ticketVars,
         doneVars
<1>3. CASE UNCHANGED <<sendVars, reqVars, replyVars, ticketVars, pendVars,
                       doneVars, sent>>
  BY <1>1, <1>3, Zenon DEF ticketVars, doneVars
<1> QED
  BY <1>1, <1>2, <1>3, StepKinds, TakeTicket, UseTicket, AdminTypes, Zenon

LEMMA StepReplies ==
  ASSUME SuiAssumption, TypeOK, ReplyInside, [SuiNext]_vars
  PROVE  ReplyInside'
<1>1. CASE tickets' = tickets /\ replyState' \in {None, replyState}
  BY <1>1, Zenon DEF ReplyInside
<1>2. ASSUME \/ \E to \in Nets, o \in Outgoing, coin \in CoinValues :
                  \/ SendReply(to, o[1], o[2], o[3], coin)
                  \/ SendOut(to, o[1], o[2], o[3], coin)
             \/ \E src \in Nets, k \in Conn, req \in Request :
                  \/ HandleRequestPending(src, k, req)
                  \/ HandleRequest(src, k, req)
             \/ \E k \in Conn, res \in Result :
                  \/ HandleResultPending(k, res)
                  \/ HandleResultSuccess(k, res)
                  \/ HandleResultFailure(k, res)
             \/ \E s \in Sns : ExecuteRollback(s)
             \/ \E s \in Sns, success \in BOOLEAN :
                  ExecuteRollbackResult(s, success)
             \/ EndTransaction
      PROVE  tickets' = tickets /\ replyState' \in {None, replyState}
  BY <1>2, Zenon
     DEF SendReply, SendOut, HandleRequestPending, HandleRequest,
         HandleResultPending, HandleResultSuccess, HandleResultFailure,
         ExecuteRollback, ExecuteRollbackResult, EndTransaction, ticketVars,
         replyVars
<1>3. ASSUME NEW id \in ReqIds, ExecuteCall(id)
      PROVE  ReplyInside'
  <2>1. tickets' = Append(tickets, id) /\ proxyReqs[id] # None
    BY <1>3, Zenon DEF ExecuteCall
  <2>2. tickets \in Seq(1..reqId) /\ id \in 1..reqId
    BY <2>1, Ranges, Zenon DEF TypeOK
  <2>3. tickets' # <<>>
    BY <2>1, <2>2
  <2> QED
    BY <2>3, Zenon DEF ReplyInside
<1>4. ASSUME NEW i, NEW code, ExecuteCallResult(i, code)
      PROVE  ReplyInside'
  BY <1>4, Zenon DEF ExecuteCallResult, RemoveReplyState, ReplyInside
<1>5. CASE UNCHANGED <<sendVars, reqVars, replyVars, ticketVars, pendVars,
                       doneVars, sent>>
  BY <1>1, <1>5, Zenon DEF ticketVars, replyVars
<1> QED
  BY <1>1, <1>2, <1>3, <1>4, <1>5, StepKinds, AdminTypes, Zenon

-----------------------------------------------------------------------------
(***************************************************************************)
(* The invariant                                                           *)
(***************************************************************************)
LEMMA SuiInvInit ==
  ASSUME SuiAssumption, SuiInit
  PROVE  SuiInv
<1> USE DEF SuiInit
<1>1. TypeOK
  <2>1. 0 \in Nat /\ 0 \in 0..MaxSn /\ 0 \in 0..MaxReqId
    BY XcallAssumption
  <2>2. tickets \in Seq(1..reqId) /\ Len(tickets) = 0
    OBVIOUS
  <2>3. connFee \in [Conn -> [BOOLEAN -> Nat]] /\ handed \in [ReqIds -> Nat]
    OBVIOUS
  <2>4. Len(tickets) <= MaxTickets
    BY <2>2 DEF SuiAssumption
  <2> QED
    BY <2>1, <2>2, <2>3, <2>4, Zenon DEF TypeOK
<1>2. SettleInv
  <2>1. SettledOnResult
    BY Zenon DEF SettledOnResult, SettledOnOneResult
  <2>2. RequestsEndorsed
    BY Zenon DEF RequestsEndorsed, AdmissionEndorsed
  <2> QED
    BY <2>1, <2>2, Zenon
       DEF SettleInv, PendingHeard, RollbacksOpen, TicketsEnabled,
           SettledApart
<1>3. ExecutedInv
  BY Zenon DEF ExecutedInv, ExecutedAtMostOnce
<1>4. TicketsLeft
  <2>1. Range(tickets) = {}
    BY DEF Range
  <2>2. \A id \in ReqIds : handed[id] = 0 /\ ~Ran(id)
    BY Zenon DEF Ran
  <2>3. ~(0 >= 2)
    OBVIOUS
  <2> QED
    BY <2>1, <2>2, <2>3, Zenon DEF TicketsLeft
<1>5. ReplyInside
  BY Zenon DEF ReplyInside
<1> QED
  BY <1>1, <1>2, <1>3, <1>4, <1>5, Zenon DEF SuiInv

LEMMA SuiInvStep ==
  ASSUME SuiAssumption, SuiInv, [SuiNext]_vars
  PROVE  SuiInv'
BY StepTypes, StepSettles, StepExecutes, StepTickets, StepReplies, Zenon
   DEF SuiInv

LEMMA SuiInvAlways ==
  ASSUME SuiAssumption
  PROVE  SuiSpec => []SuiInv
<1>1. SuiInit => SuiInv
  BY SuiInvInit, Zenon
<1>2. SuiInv /\ [SuiNext]_vars => SuiInv'
  BY SuiInvStep, Zenon
<1> QED
  BY <1>1, <1>2, PTL DEF SuiSpec

\* What the invariant gives.
LEMMA SuiInvGives ==
  ASSUME SuiInv
  PROVE  /\ TypeOK
         /\ RequestsEndorsed
         /\ SettlementEndorsed
         /\ SettledOnce
         /\ ExecutedOnceAndAnswered
         /\ ReplyStateCleared
<1>1. SettlementEndorsed
  BY Zenon DEF SuiInv, SettleInv, SettlementEndorsed, SettledOnResult
<1>2. SettledOnce
  BY Zenon DEF SuiInv, SettleInv, SettledOnce, SettledApart
<1>3. ExecutedOnceAndAnswered
  <2> SUFFICES ASSUME ~InTransaction
               PROVE  ExecutedOnceAndAnswered
    BY Zenon DEF ExecutedOnceAndAnswered
  <2>1. Range(tickets) = {}
    BY DEF InTransaction, Range
  <2>2. \A id \in ReqIds : handed[id] = IF Ran(id) THEN 1 ELSE 0
    BY <2>1, Zenon DEF SuiInv, TicketsLeft
  <2> QED
    BY <2>2, Zenon
       DEF SuiInv, ExecutedInv, ExecutedOnceAndAnswered, ResultSent, Ran
<1>4. ReplyStateCleared
  BY Zenon DEF SuiInv, ReplyInside, ReplyStateCleared, InTransaction
<1> QED
  BY <1>1, <1>2, <1>3, <1>4, Zenon DEF SuiInv, SettleInv

\* Every number, id and ticket in use was handed out, whatever is delivered.
THEOREM SuiWellTyped ==
  ASSUME SuiAssumption
  PROVE  SuiSpec => []TypeOK
<1>1. SuiInv => TypeOK
  BY SuiInvGives, Zenon
<1> QED
  BY <1>1, SuiInvAlways, PTL

\* handle_request and handle_reply make a request executable only on the word
\* of every protocol in its list, for all lists of connections.
THEOREM SuiRequestsEndorsed ==
  ASSUME SuiAssumption
  PROVE  SuiSpec => []RequestsEndorsed
<1>1. SuiInv => RequestsEndorsed
  BY SuiInvGives, Zenon
<1> QED
  BY <1>1, SuiInvAlways, PTL

\* handle_result settles a call only after all its connections delivered one
\* and the same result, whatever rollback tickets are out.
THEOREM SuiSettlementEndorsed ==
  ASSUME SuiAssumption
  PROVE  SuiSpec => []SettlementEndorsed
<1>1. SuiInv => SettlementEndorsed
  BY SuiInvGives, Zenon
<1> QED
  BY <1>1, SuiInvAlways, PTL

\* A ticket of execute_rollback may be out when the success arrives; still no
\* call succeeds and is rolled back: execute_rollback_result finds no rollback.
THEOREM SuiSettledOnce ==
  ASSUME SuiAssumption
  PROVE  SuiSpec => []SettledOnce
<1>1. SuiInv => SettledOnce
  BY SuiInvGives, Zenon
<1> QED
  BY <1>1, SuiInvAlways, PTL

\* execute_call hands out tickets for a request as long as it is there, and
\* execute_call_result takes only the first: a transaction that ends has run
\* the dapp once for each request, and has answered over all its protocols.
THEOREM SuiExecutedOnceAndAnswered ==
  ASSUME SuiAssumption
  PROVE  SuiSpec => []ExecutedOnceAndAnswered
<1>1. SuiInv => ExecutedOnceAndAnswered
  BY SuiInvGives, Zenon
<1> QED
  BY <1>1, SuiInvAlways, PTL

\* No transaction ends in the reply state of a request that is gone: only the
\* last ticket given back ends it, and execute_call_result clears the state.
THEOREM SuiReplyStateCleared ==
  ASSUME SuiAssumption
  PROVE  SuiSpec => []ReplyStateCleared
<1>1. SuiInv => ReplyStateCleared
  BY SuiInvGives, Zenon
<1> QED
  BY <1>1, SuiInvAlways, PTL

=============================================================================
