------------------------------ MODULE CwProofs ------------------------------
(***************************************************************************)
(* Theorems about the CosmWasm port, for all chains, connections and       *)
(* bounds.  First part: the invariant of CwXcall and what follows from it, *)
(* for connections that may deliver anything.  Second part: CwSystem, the  *)
(* call services on all chains with their connections and relayers.  The   *)
(* system is an instance of the open CwXcall, hence its invariant holds;   *)
(* what connections deliver is here what call services sent, and with that *)
(* what a sender learns of a call is what its target did.  Third part:     *)
(* each message that a call service accepts is used once.  A sequence      *)
(* number of a chain is on the wire in one message only, as the request of *)
(* a call or as the reply inside a result, and a message is admitted for   *)
(* execution at most once.                                                 *)
(***************************************************************************)
EXTENDS CwSystem, TLAPS

-----------------------------------------------------------------------------
(***************************************************************************)
(* Typing.  First, what is used throughout: lists, updates of maps, and    *)
(* the actions of XcallNext one by one.  Then every action keeps           *)
(* XcallTypeOK, given that the request being executed is stored.           *)
(***************************************************************************)
\* A list that is not the empty one has a length.
LEMMA ListLength ==
  ASSUME NEW p \in Seq(Conn), p # <<>>
  PROVE  Len(p) # 0
<1> SUFFICES ASSUME Len(p) = 0 PROVE p = <<>>
  BY Zenon
<1>1. DOMAIN p = {}
  OBVIOUS
<1>2. p \in [{} -> Conn]
  BY <1>1
<1>3. <<>> = [i \in {} |-> i]
  OBVIOUS
<1> QED
  BY <1>2, <1>3, Zenon

-----------------------------------------------------------------------------
\* Storing an entry in the map of one chain.
LEMMA StoreEntry ==
  ASSUME NEW A, NEW B, NEW T, NEW g, NEW h, NEW t, NEW x \in A, NEW y \in B,
         g \in [A -> [B -> T]], t \in T, h = [g EXCEPT ![x][y] = t]
  PROVE  h \in [A -> [B -> T]]
BY Zenon

\* Removing an entry from the map of one chain.
LEMMA RemoveEntry ==
  ASSUME NEW A, NEW B, NEW T, NEW g, NEW h, NEW x \in A, NEW y \in B,
         g \in [A -> [B -> T \cup {None}]], h = [g EXCEPT ![x][y] = None]
  PROVE  h \in [A -> [B -> T \cup {None}]]
BY Zenon

\* Adding an element to the set of one chain.
LEMMA AddElement ==
  ASSUME NEW A, NEW T, NEW g, NEW h, NEW t, NEW x \in A,
         g \in [A -> SUBSET T], t \in T, h = [g EXCEPT ![x] = @ \cup {t}]
  PROVE  h \in [A -> SUBSET T]
BY Zenon

\* A message is a request or a result.
LEMMA Payloads ==
  ASSUME NEW m \in CSMessage
  PROVE  /\ m.type = "CSMessageRequest" => m.payload \in Request
         /\ m.type = "CSMessageResult" => m.payload \in Result
BY Zenon DEF CSMessage

\* The messages that the handlers build are well typed.
LEMMA MessageTypes ==
  /\ \A req \in Request : CSRequest(req) \in CSMessage
  /\ \A res \in Result : CSResult(res) \in CSMessage
  /\ \A s \in Sns : ErrorResult(s) \in Result
BY Zenon
   DEF CSRequest, CSResult, CSMessage, ErrorResult, Result, Code, Failure

\* The two forms of send_call.
SendStep(c, to, type, src, dst) ==
  SendReply(c, to, type, src, dst) \/ SendCall(c, to, type, src, dst)

\* Every step is that of one chain, with the types of its parameters:
\* handle_message and handle_error come down to the cases of handle_request
\* and handle_result.
LEMMA Actions ==
  ASSUME XcallNext
  PROVE  \E c \in Chain :
           \/ \E to \in Chain, type \in MsgType, src, dst \in Protocols :
                SendStep(c, to, type, src, dst)
           \/ \E src \in Chain, k \in Conn, req \in Request :
                \/ HandleRequestPending(c, src, k, req)
                \/ HandleRequest(c, src, k, req)
           \/ \E k \in Conn, res \in Result :
                \/ HandleResultPending(c, k, res)
                \/ HandleResultSuccess(c, k, res)
                \/ HandleResultFailure(c, k, res)
           \/ \E id \in ReqIds : ExecuteCall(c, id)
           \/ ExecuteCallReplyOk(c)
           \/ \E id \in ReqIds : ExecuteCallReplyErr(c, id)
           \/ \E s \in Sns : ExecuteRollback(c, s)
           \/ \E nid \in Chain, k \in Conn : SetDefaultConnection(c, nid, k)
<1>1. PICK c \in Chain :
        \/ \E to \in Chain \ {c}, type \in MsgType, src, dst \in Protocols :
             \/ SendReply(c, to, type, src, dst)
             \/ SendCall(c, to, type, src, dst)
        \/ \E src \in Chain, k \in Conn, m \in CSMessage :
             HandleMessage(c, src, k, m)
        \/ \E k \in Conn, s \in Sns : HandleError(c, k, s)
        \/ \E id \in ReqIds : ExecuteCall(c, id)
        \/ ExecuteCallReplyOk(c)
        \/ \E id \in ReqIds : ExecuteCallReplyErr(c, id)
        \/ \E s \in Sns : ExecuteRollback(c, s)
        \/ \E nid \in Chain, k \in Conn : SetDefaultConnection(c, nid, k)
  BY Zenon DEF XcallNext
<1>2. ASSUME NEW src \in Chain, NEW k \in Conn, NEW m \in CSMessage,
             HandleMessage(c, src, k, m)
      PROVE  \/ \E req \in Request :
                  \/ HandleRequestPending(c, src, k, req)
                  \/ HandleRequest(c, src, k, req)
             \/ \E res \in Result :
                  \/ HandleResultPending(c, k, res)
                  \/ HandleResultSuccess(c, k, res)
                  \/ HandleResultFailure(c, k, res)
  BY <1>2, Payloads, Zenon DEF HandleMessage, HandleResult
<1>3. ASSUME NEW k \in Conn, NEW s \in Sns, HandleError(c, k, s)
      PROVE  \E res \in Result :
               \/ HandleResultPending(c, k, res)
               \/ HandleResultSuccess(c, k, res)
               \/ HandleResultFailure(c, k, res)
  BY <1>3, MessageTypes, Zenon DEF HandleError, HandleResult
<1> QED
  BY <1>1, <1>2, <1>3, Zenon DEF SendStep

-----------------------------------------------------------------------------
(***************************************************************************)
(* Typing                                                                  *)
(***************************************************************************)
\* A freshly instantiated contract is well typed.
LEMMA TypingInit == XcallInit => XcallTypeOK
BY XcallAssumption DEF XcallInit, XcallTypeOK, Sns, ReqIds

\* The effect of StoreProxyRequest on the types.
LEMMA StoreProxyRequestTyping ==
  ASSUME XcallTypeOK, NEW c \in Chain, NEW req \in Request,
         StoreProxyRequest(c, req)
  PROVE  /\ lastRequestId' \in [Chain -> 0..MaxReqId]
         /\ proxyRequest' \in [Chain -> [ReqIds -> Request \cup {None}]]
         /\ admitted' \in [Chain -> SUBSET (ReqIds \X Request)]
<1> DEFINE id == lastRequestId[c] + 1
<1>1. /\ id \in ReqIds
      /\ lastRequestId' = [lastRequestId EXCEPT ![c] = id]
      /\ proxyRequest' = [proxyRequest EXCEPT ![c][id] = req]
      /\ admitted' = [admitted EXCEPT ![c] = @ \cup {<<id, req>>}]
  BY Zenon DEF StoreProxyRequest
<1>2. /\ lastRequestId \in [Chain -> 0..MaxReqId]
      /\ proxyRequest \in [Chain -> [ReqIds -> Request \cup {None}]]
      /\ admitted \in [Chain -> SUBSET (ReqIds \X Request)]
  BY Zenon DEF XcallTypeOK
<1> HIDE DEF id
<1>3. lastRequestId' \in [Chain -> 0..MaxReqId]
  BY <1>1, <1>2, XcallAssumption DEF ReqIds
<1>4. proxyRequest' \in [Chain -> [ReqIds -> Request \cup {None}]]
  BY <1>1, <1>2, StoreEntry, Zenon
<1>5. admitted' \in [Chain -> SUBSET (ReqIds \X Request)]
  BY <1>1, <1>2, AddElement
<1> QED
  BY <1>3, <1>4, <1>5, Zenon

\* Recording a delivery keeps the type of the record.
LEMMA HearTyping ==
  ASSUME XcallTypeOK, NEW c \in Chain, NEW k \in Conn, NEW m \in CSMessage,
         Hear(c, k, m)
  PROVE  heard' \in [Chain -> SUBSET (CSMessage \X Conn)]
BY DEF XcallTypeOK, Hear

\* Every step keeps the state well typed.  execute_call_reply needs that
\* the request being executed is stored, which RequestsById says.
LEMMA TypingStep ==
  ASSUME XcallTypeOK, RequestsById, [XcallNext]_xcallVars
  PROVE  XcallTypeOK'
<1> USE XcallAssumption
<1>1. CASE UNCHANGED xcallVars
  BY <1>1, Zenon DEF XcallTypeOK, xcallVars, stateVars, history
<1>2. ASSUME NEW c \in Chain, NEW to \in Chain, NEW type \in MsgType,
             NEW src \in Protocols, NEW dst \in Protocols,
             SendStep(c, to, type, src, dst)
      PROVE  XcallTypeOK'
  <2>1. NextSn(c) \in Sns /\ sn' = [sn EXCEPT ![c] = NextSn(c)]
    BY <1>2, Zenon DEF SendStep, SendReply, SendCall, StoreCall
  <2>2. sn' \in [Chain -> 0..MaxSn]
    BY <2>1 DEF XcallTypeOK, Sns
  <2>3. callRequests' \in [Chain -> [Sns -> Rollback \cup {None}]]
    <3>1. callRequests \in [Chain -> [Sns -> Rollback \cup {None}]]
      BY Zenon DEF XcallTypeOK
    <3>2. CASE type = TwoWay
      <4>1. [to |-> to, protocols |-> src, enabled |-> FALSE]
              \in Rollback \cup {None}
        BY Zenon DEF Rollback
      <4>2. callRequests' =
              [callRequests EXCEPT ![c][NextSn(c)] =
                 [to |-> to, protocols |-> src, enabled |-> FALSE]]
        BY <1>2, <3>2, Zenon DEF SendStep, SendReply, SendCall, StoreCall
      <4> QED
        BY <2>1, <3>1, <4>1, <4>2, StoreEntry, Zenon
    <3>3. CASE type # TwoWay
      BY <1>2, <3>1, <3>3, Zenon DEF SendStep, SendReply, SendCall, StoreCall
    <3> QED
      BY <3>2, <3>3, Zenon
  <2>4. calls' \in [Chain -> [Sns -> Call \cup {None}]]
    <3>1. calls \in [Chain -> [Sns -> Call \cup {None}]]
      BY Zenon DEF XcallTypeOK
    <3>2. CASE type = TwoWay
      <4>1. [to |-> to, protocols |-> src]
              \in Call \cup {None}
        BY Zenon DEF Call
      <4>2. calls' = [calls EXCEPT ![c][NextSn(c)] =
                        [to |-> to, protocols |-> src]]
        BY <1>2, <3>2, Zenon DEF SendStep, SendReply, SendCall, StoreCall
      <4> QED
        BY <2>1, <3>1, <4>1, <4>2, StoreEntry, Zenon
    <3>3. CASE type # TwoWay
      BY <1>2, <3>1, <3>3, Zenon DEF SendStep, SendReply, SendCall, StoreCall
    <3> QED
      BY <3>2, <3>3, Zenon
  <2>5. callReply' \in [Chain -> Request \cup {None}]
    <3>1. CallRequest(c, type, dst) \in Request
      BY <2>1, Zenon DEF CallRequest, Request
    <3> QED
      BY <1>2, <3>1, ZenonT(30) DEF SendStep, SendReply, SendCall, XcallTypeOK
  <2> QED
    BY <1>2, <2>2, <2>3, <2>4, <2>5, Zenon
    DEF SendStep, SendReply, SendCall, StoreCall, XcallTypeOK
<1>3. ASSUME NEW c \in Chain, NEW src \in Chain, NEW k \in Conn,
             NEW req \in Request, HandleRequestPending(c, src, k, req)
      PROVE  XcallTypeOK'
  <2>1. heard' \in [Chain -> SUBSET (CSMessage \X Conn)]
    BY <1>3, HearTyping, MessageTypes, Zenon
       DEF HandleRequestPending, RequestAccepted
  <2>2. pendingRequests' \in [Chain -> SUBSET (Request \X Conn)]
    BY <1>3 DEF HandleRequestPending, XcallTypeOK
  <2> QED
    BY <1>3, <2>1, <2>2, Zenon DEF HandleRequestPending, XcallTypeOK
<1>4. ASSUME NEW c \in Chain, NEW src \in Chain, NEW k \in Conn,
             NEW req \in Request, HandleRequest(c, src, k, req)
      PROVE  XcallTypeOK'
  <2>1. heard' \in [Chain -> SUBSET (CSMessage \X Conn)]
    BY <1>4, HearTyping, MessageTypes, Zenon
       DEF HandleRequest, RequestAccepted
  <2>2. pendingRequests' \in [Chain -> SUBSET (Request \X Conn)]
    BY <1>4, Zenon DEF HandleRequest, XcallTypeOK
  <2>3. /\ lastRequestId' \in [Chain -> 0..MaxReqId]
        /\ proxyRequest' \in [Chain -> [ReqIds -> Request \cup {None}]]
        /\ admitted' \in [Chain -> SUBSET (ReqIds \X Request)]
    BY <1>4, StoreProxyRequestTyping, Zenon DEF HandleRequest
  <2> QED
    BY <1>4, <2>1, <2>2, <2>3, Zenon DEF HandleRequest, XcallTypeOK
<1>5. ASSUME NEW c \in Chain, NEW k \in Conn, NEW res \in Result,
             HandleResultPending(c, k, res)
      PROVE  XcallTypeOK'
  <2>1. heard' \in [Chain -> SUBSET (CSMessage \X Conn)]
    BY <1>5, HearTyping, MessageTypes, Zenon
       DEF HandleResultPending, ResultAccepted
  <2>2. pendingResponses' \in [Chain -> SUBSET (Result \X Conn)]
    BY <1>5 DEF HandleResultPending, SavePendingResponse, XcallTypeOK
  <2> QED
    BY <1>5, <2>1, <2>2, Zenon DEF HandleResultPending, XcallTypeOK
<1>6. ASSUME NEW c \in Chain, NEW k \in Conn, NEW res \in Result,
             HandleResultSuccess(c, k, res)
      PROVE  XcallTypeOK'
  <2>1. heard' \in [Chain -> SUBSET (CSMessage \X Conn)]
    BY <1>6, HearTyping, MessageTypes, Zenon
       DEF HandleResultSuccess, ResultAccepted
  <2>2. pendingResponses' \in [Chain -> SUBSET (Result \X Conn)]
    BY <1>6 DEF HandleResultSuccess, SavePendingResponse, XcallTypeOK
  <2>3. res.sn \in Sns /\ res.reply \in Request \cup {None}
    BY Zenon DEF Result
  <2>4. callRequests' \in [Chain -> [Sns -> Rollback \cup {None}]]
    BY <1>6, <2>3, RemoveEntry, Zenon
       DEF HandleResultSuccess, XcallTypeOK, CleanupRequest
  <2>5. successfulResponses' \in [Chain -> SUBSET Sns]
    BY <1>6, <2>3, AddElement DEF HandleResultSuccess, XcallTypeOK
  <2>6. callRequests[c][res.sn] \in Rollback
    BY <1>6, <2>3 DEF HandleResultSuccess, ResultAccepted, XcallTypeOK
  <2>7. /\ lastRequestId' \in [Chain -> 0..MaxReqId]
        /\ proxyRequest' \in [Chain -> [ReqIds -> Request \cup {None}]]
        /\ admitted' \in [Chain -> SUBSET (ReqIds \X Request)]
    <3>1. CASE res.reply = None
      BY <1>6, <3>1, Zenon DEF HandleResultSuccess, XcallTypeOK
    <3>2. CASE res.reply # None
      <4> DEFINE req == [res.reply EXCEPT
                           !.protocols = callRequests[c][res.sn].protocols]
      <4>1. req \in Request
        BY <2>3, <2>6, <3>2, Zenon DEF Request, Rollback
      <4>2. StoreProxyRequest(c, req)
        BY <1>6, <3>2, Zenon DEF HandleResultSuccess, HandleReply
      <4> QED
        BY <4>1, <4>2, StoreProxyRequestTyping, Zenon
    <3> QED
      BY <3>1, <3>2, Zenon
  <2> QED
    BY <1>6, <2>1, <2>2, <2>4, <2>5, <2>7, Zenon
       DEF HandleResultSuccess, XcallTypeOK
<1>7. ASSUME NEW c \in Chain, NEW k \in Conn, NEW res \in Result,
             HandleResultFailure(c, k, res)
      PROVE  XcallTypeOK'
  <2>1. heard' \in [Chain -> SUBSET (CSMessage \X Conn)]
    BY <1>7, HearTyping, MessageTypes, Zenon
       DEF HandleResultFailure, ResultAccepted
  <2>2. pendingResponses' \in [Chain -> SUBSET (Result \X Conn)]
    BY <1>7 DEF HandleResultFailure, SavePendingResponse, XcallTypeOK
  <2>3. res.sn \in Sns
    BY Zenon DEF Result
  <2>4. callRequests' \in [Chain -> [Sns -> Rollback \cup {None}]]
    <3> DEFINE r == [callRequests[c][res.sn] EXCEPT !.enabled = TRUE]
    <3>1. callRequests[c][res.sn] \in Rollback
      BY <1>7, <2>3 DEF HandleResultFailure, ResultAccepted, XcallTypeOK
    <3>2. r \in Rollback \cup {None}
      BY <3>1, Zenon DEF Rollback
    <3>3. callRequests' = [callRequests EXCEPT ![c][res.sn] = r]
      BY <1>7, Zenon DEF HandleResultFailure
    <3>4. callRequests \in [Chain -> [Sns -> Rollback \cup {None}]]
      BY Zenon DEF XcallTypeOK
    <3> HIDE DEF r
    <3> QED
      BY <2>3, <3>2, <3>3, <3>4, StoreEntry, Zenon
  <2> QED
    BY <1>7, <2>1, <2>2, <2>4, Zenon DEF HandleResultFailure, XcallTypeOK
<1>8. ASSUME NEW c \in Chain, NEW id \in ReqIds, ExecuteCall(c, id)
      PROVE  XcallTypeOK'
  BY <1>8 DEF ExecuteCall, XcallTypeOK, history, ReqIds
<1>9. ASSUME NEW c \in Chain, NEW id \in ReqIds, NEW code \in Code,
             proxyRequest[c][id] # None, FinishCall(c, id, code)
      PROVE  XcallTypeOK'
  <2>1. proxyRequest' \in [Chain -> [ReqIds -> Request \cup {None}]]
    BY <1>9, RemoveEntry, Zenon
       DEF FinishCall, XcallTypeOK, RemoveProxyRequest
  <2>2. executed' \in [Chain -> SUBSET (ReqIds \X Request \X Code)]
    <3>1. proxyRequest[c][id] \in Request
      BY <1>9 DEF XcallTypeOK
    <3> QED
      BY <1>9, <3>1, AddElement DEF FinishCall, XcallTypeOK
  <2>3. callReply' \in [Chain -> Request \cup {None}]
    BY <1>9, Zenon DEF FinishCall, XcallTypeOK, PopCallReply
  <2>4. executeRequestId' \in [Chain -> 0..MaxReqId]
    BY <1>9 DEF FinishCall, XcallTypeOK, PopCallReply
  <2> QED
    BY <1>9, <2>1, <2>2, <2>3, <2>4, Zenon DEF FinishCall, XcallTypeOK
<1>10. ASSUME NEW c \in Chain, NEW s \in Sns, ExecuteRollback(c, s)
       PROVE  XcallTypeOK'
  <2>1. callRequests' \in [Chain -> [Sns -> Rollback \cup {None}]]
    BY <1>10, RemoveEntry, Zenon
       DEF ExecuteRollback, XcallTypeOK, CleanupRequest
  <2>2. rolledBack' \in [Chain -> SUBSET Sns]
    BY <1>10, AddElement DEF ExecuteRollback, XcallTypeOK
  <2> QED
    BY <1>10, <2>1, <2>2, Zenon DEF ExecuteRollback, XcallTypeOK
<1>11. ASSUME NEW c \in Chain, NEW nid \in Chain, NEW k \in Conn,
              SetDefaultConnection(c, nid, k)
       PROVE  XcallTypeOK'
  <2>1. defaultConnections' \in [Chain -> [Chain -> Conn \cup {None}]]
    BY <1>11, StoreEntry, Zenon DEF SetDefaultConnection, XcallTypeOK
  <2> QED
    BY <1>11, <2>1, Zenon DEF SetDefaultConnection, XcallTypeOK, history
<1>12. ASSUME NEW c \in Chain, ExecuteCallReplyOk(c)
       PROVE  XcallTypeOK'
  <2>1. /\ executeRequestId[c] \in ReqIds
        /\ proxyRequest[c][executeRequestId[c]] # None
    BY <1>12 DEF ExecuteCallReplyOk, XcallTypeOK, RequestsById, ReqIds
  <2> QED
    BY <1>9, <1>12, <2>1, Zenon DEF ExecuteCallReplyOk, Code, Success
<1>13. ASSUME NEW c \in Chain, NEW id \in ReqIds, ExecuteCallReplyErr(c, id)
       PROVE  XcallTypeOK'
  BY <1>9, <1>13, Zenon DEF ExecuteCallReplyErr, Code, Failure
<1> QED
  BY <1>1, <1>2, <1>3, <1>4, <1>5, <1>6, <1>7, <1>8, <1>10, <1>11, <1>12,
     <1>13, Actions, Zenon

-----------------------------------------------------------------------------
(***************************************************************************)
(* Sending and receiving keep the invariant: the frames of its parts, what *)
(* a complete collection of deliveries means, and the lemmas for           *)
(* send_call, handle_request and the results that settle nothing.          *)
(***************************************************************************)
(***************************************************************************)
(* Each part of the invariant depends on a few variables only, and none is *)
(* falsified by more deliveries.                                           *)
(***************************************************************************)
\* No step takes a delivery back.
HeardGrows == \A c \in Chain : heard[c] \subseteq heard'[c]

\* Rollbacks stay those of calls while neither changes.
LEMMA RollbacksOfCallsFrame ==
  ASSUME RollbacksOfCalls, HeardGrows, UNCHANGED <<callRequests, calls>>
  PROVE  RollbacksOfCalls'
BY Zenon DEF RollbacksOfCalls, HeardGrows, Endorsed

\* Sequence numbers stay in order while no call is sent or settled.
LEMMA CallsBySnFrame ==
  ASSUME CallsBySn, UNCHANGED <<sn, calls, successfulResponses, rolledBack>>
  PROVE  CallsBySn'
BY Zenon DEF CallsBySn

\* Collected deliveries stay deliveries when more are heard.
LEMMA PendingHeardFrame ==
  ASSUME PendingHeard, HeardGrows,
         UNCHANGED <<pendingRequests, pendingResponses, calls>>
  PROVE  PendingHeard'
BY Zenon DEF PendingHeard, HeardGrows

\* Request ids stay in order while no request is stored or executed.
LEMMA RequestsByIdFrame ==
  ASSUME RequestsById,
         UNCHANGED <<proxyRequest, lastRequestId, executed, executeRequestId>>
  PROVE  RequestsById'
BY Zenon DEF RequestsById

\* Requests stay endorsed when more deliveries are heard.
LEMMA RequestsEndorsedFrame ==
  ASSUME RequestsEndorsed, HeardGrows, UNCHANGED admitted
  PROVE  RequestsEndorsed'
BY ZenonT(30) DEF RequestsEndorsed, HeardGrows, Endorsed

\* Settlements stay endorsed when more deliveries are heard.
LEMMA SettlementEndorsedFrame ==
  ASSUME SettlementEndorsed, HeardGrows,
         UNCHANGED <<calls, successfulResponses, rolledBack>>
  PROVE  SettlementEndorsed'
BY Zenon DEF SettlementEndorsed, HeardGrows, Endorsed

\* Calls stay settled once while none is settled.
LEMMA SettledOnceFrame ==
  ASSUME SettledOnce,
         UNCHANGED <<callRequests, successfulResponses, rolledBack>>
  PROVE  SettledOnce'
BY Zenon DEF SettledOnce

\* Requests stay executed once while none is executed.
LEMMA ExecutedOnceFrame ==
  ASSUME ExecutedOnce, UNCHANGED <<executed, proxyRequest>>
  PROVE  ExecutedOnce'
BY Zenon DEF ExecutedOnce

-----------------------------------------------------------------------------
(***************************************************************************)
(* Collecting deliveries                                                   *)
(***************************************************************************)

\* When handle_request or handle_result goes on, every connection of the
\* list has delivered the message.
LEMMA CompleteMeansAll ==
  ASSUME NEW pending, NEW m, NEW k \in Conn, NEW p \in Protocols, p # <<>>,
         k \in Range(p),
         \A q \in Conn : <<m, q>> \in pending => q \in Range(p),
         Complete(pending, m, k, p)
  PROVE  Range(p) \subseteq Registered(pending, m, k)
<1>1. p \in Seq(Conn) /\ Len(p) \in Nat
  BY XcallAssumption
<1>2. CASE Len(p) > 1
  <2>1. Registered(pending, m, k) \in SUBSET Range(p)
    BY Zenon DEF Registered
  <2>2. Cardinality(Registered(pending, m, k)) = Len(p)
    BY <1>2, Zenon DEF Complete
  <2> QED
    BY <2>1, <2>2, CountingAssumption, Zenon DEF Countable, Routes
<1>3. CASE ~(Len(p) > 1)
  <2>1. Len(p) # 0
    BY <1>1, ListLength, Zenon
  <2>2. Len(p) = 1
    <3>1. \A n \in Nat : n # 0 /\ ~(n > 1) => n = 1
      OBVIOUS
    <3> QED
      BY <1>1, <1>3, <2>1, <3>1, Zenon
  <2>3. DOMAIN p = {1}
    BY <1>1, <2>2
  <2>4. Range(p) = {k}
    BY <2>3, Zenon DEF Range
  <2> QED
    BY <2>4, Zenon DEF Registered
<1> QED
  BY <1>2, <1>3, Zenon

-----------------------------------------------------------------------------
(***************************************************************************)
(* The steps                                                               *)
(***************************************************************************)
\* send_call stores its rollback under a sequence number never used before.
LEMMA SendPreserves ==
  ASSUME XcallInv, XcallTypeOK', NEW c \in Chain, NEW to \in Chain,
         NEW type \in MsgType, NEW src \in Protocols, NEW dst \in Protocols,
         SendStep(c, to, type, src, dst)
  PROVE  XcallInv'
<1>1. /\ NextSn(c) \in Sns
      /\ sn' = [sn EXCEPT ![c] = NextSn(c)]
      /\ UNCHANGED <<lastRequestId, proxyRequest, pendingRequests,
                     pendingResponses, successfulResponses, executeRequestId,
                     heard, admitted, executed, rolledBack>>
  BY Zenon DEF SendStep, SendReply, SendCall, StoreCall
<1>2. HeardGrows
  BY <1>1, Zenon DEF HeardGrows
<1>3. /\ sn \in [Chain -> 0..MaxSn]
      /\ calls \in [Chain -> [Sns -> Call \cup {None}]]
      /\ callRequests \in [Chain -> [Sns -> Rollback \cup {None}]]
      /\ pendingResponses \in [Chain -> SUBSET (Result \X Conn)]
      /\ successfulResponses \in [Chain -> SUBSET Sns]
      /\ rolledBack \in [Chain -> SUBSET Sns]
  BY Zenon DEF XcallInv, XcallTypeOK
<1>4. /\ RollbacksOfCalls /\ CallsBySn /\ PendingHeard
      /\ SettlementEndorsed /\ SettledOnce
  BY Zenon DEF XcallInv
<1>5. calls[c][NextSn(c)] = None
  BY <1>1, <1>3, <1>4, XcallAssumption, SMTT(30) DEF CallsBySn, NextSn, Sns
<1>6. /\ callRequests[c][NextSn(c)] = None
      /\ NextSn(c) \notin successfulResponses[c] \cup rolledBack[c]
  BY <1>1, <1>4, <1>5, Zenon DEF RollbacksOfCalls, CallsBySn
<1>7. \A d \in Chain : \A t \in Sns : (d # c \/ t # NextSn(c)) =>
        /\ calls'[d][t] = calls[d][t]
        /\ callRequests'[d][t] = callRequests[d][t]
  BY <1>1, <1>3, SMTT(30) DEF SendStep, SendReply, SendCall, StoreCall
<1>8. \/ /\ calls'[c][NextSn(c)] = None
         /\ callRequests'[c][NextSn(c)] = None
      \/ /\ calls'[c][NextSn(c)] = [to |-> to, protocols |-> src]
         /\ callRequests'[c][NextSn(c)] =
              [to |-> to, protocols |-> src, enabled |-> FALSE]
  <2>1. CASE type = TwoWay
    <3>1. /\ calls' = [calls EXCEPT ![c][NextSn(c)] =
                         [to |-> to, protocols |-> src]]
          /\ callRequests' =
               [callRequests EXCEPT ![c][NextSn(c)] =
                  [to |-> to, protocols |-> src, enabled |-> FALSE]]
      BY <2>1, Zenon DEF SendStep, SendReply, SendCall, StoreCall
    <3>2. calls'[c][NextSn(c)] = [to |-> to, protocols |-> src]
      BY <1>1, <1>3, <3>1, Zenon
    <3>3. callRequests'[c][NextSn(c)] =
            [to |-> to, protocols |-> src, enabled |-> FALSE]
      BY <1>1, <1>3, <3>1, Zenon
    <3> QED
      BY <3>2, <3>3, Zenon
  <2>2. CASE type # TwoWay
    BY <1>5, <1>6, <2>2, Zenon DEF SendStep, SendReply, SendCall, StoreCall
  <2> QED
    BY <2>1, <2>2, Zenon
<1>9. RollbacksOfCalls'
  <2> SUFFICES ASSUME NEW d \in Chain, NEW t \in Sns,
                      callRequests'[d][t] # None
               PROVE  /\ calls'[d][t] # None
                      /\ callRequests'[d][t].to = calls'[d][t].to
                      /\ callRequests'[d][t].protocols = calls'[d][t].protocols
                      /\ callRequests'[d][t].enabled =>
                           \E reply \in Request \cup {None} :
                             Endorsed(d, CSResult(FailureResult(t, reply)),
                                      calls[d][t].protocols)'
    BY Zenon DEF RollbacksOfCalls
  <2>1. CASE d = c /\ t = NextSn(c)
    <3>1. /\ calls'[d][t] = [to |-> to, protocols |-> src]
          /\ callRequests'[d][t] =
               [to |-> to, protocols |-> src, enabled |-> FALSE]
      BY <1>8, <2>1, Zenon
    <3>2. calls'[d][t] \in Call
      BY <3>1 DEF Call
    <3> QED
      BY <3>1, <3>2, XcallAssumption
  <2>2. CASE d # c \/ t # NextSn(c)
    BY <1>1, <1>4, <1>7, <2>2 DEF RollbacksOfCalls, Endorsed
  <2> QED
    BY <2>1, <2>2, Zenon
<1>10. CallsBySn'
  <2> SUFFICES ASSUME NEW d \in Chain, NEW t \in Sns
               PROVE  /\ calls'[d][t] # None => t <= sn'[d]
                      /\ t \in successfulResponses'[d] \cup rolledBack'[d] =>
                           calls'[d][t] # None
    BY Zenon DEF CallsBySn
  <2>1. CASE d = c /\ t = NextSn(c)
    BY <1>1, <1>3, <1>6, <2>1, XcallAssumption DEF Sns
  <2>2. CASE d # c \/ t # NextSn(c)
    <3>1. calls'[d][t] = calls[d][t]
      BY <1>7, <2>2, Zenon
    <3>2. /\ calls[d][t] # None => t <= sn[d]
          /\ t \in successfulResponses[d] \cup rolledBack[d] =>
               calls[d][t] # None
      BY <1>4, Zenon DEF CallsBySn
    <3>3. sn[d] \in Nat /\ sn'[d] \in {sn[d], sn[d] + 1}
      BY <1>1, <1>3, XcallAssumption DEF NextSn
    <3>4. t <= sn[d] => t <= sn'[d]
      BY <3>3, XcallAssumption DEF Sns
    <3> QED
      BY <1>1, <3>1, <3>2, <3>4, Zenon
  <2> QED
    BY <2>1, <2>2, Zenon
<1>11. PendingHeard'
  <2>1. ASSUME NEW d \in Chain, NEW p \in pendingResponses[d]
        PROVE  calls[d][p[1].sn] # None /\ calls'[d][p[1].sn] = calls[d][p[1].sn]
    <3>1. p[1].sn \in Sns
      BY <1>3 DEF Result
    <3>2. calls[d][p[1].sn] # None
      BY <1>4, Zenon DEF PendingHeard
    <3> QED
      BY <1>5, <1>7, <3>1, <3>2, Zenon
  <2> QED
    BY <1>1, <1>4, <2>1, Zenon DEF PendingHeard
<1>12. SettlementEndorsed'
  <2>1. ASSUME NEW d \in Chain, NEW t \in successfulResponses[d] \cup rolledBack[d]
        PROVE  t \in Sns /\ calls'[d][t] = calls[d][t]
    BY <1>3, <1>6, <1>7, Zenon
  <2> QED
    BY <1>1, <1>4, <2>1, ZenonT(40) DEF SettlementEndorsed, Endorsed
<1>13. SettledOnce'
  <2>1. ASSUME NEW d \in Chain, NEW t \in successfulResponses[d] \cup rolledBack[d]
        PROVE  callRequests'[d][t] = callRequests[d][t]
    BY <1>3, <1>6, <1>7, Zenon
  <2> QED
    BY <1>1, <1>4, <2>1, Zenon DEF SettledOnce
<1> QED
  BY <1>1, <1>2, <1>9, <1>10, <1>11, <1>12, <1>13, RequestsByIdFrame,
     RequestsEndorsedFrame, ExecutedOnceFrame, Zenon
  DEF XcallInv

\* An accepted delivery is heard, and nothing else is.
LEMMA HearGrows ==
  ASSUME XcallTypeOK, NEW c \in Chain, NEW k, NEW m, Hear(c, k, m)
  PROVE  HeardGrows /\ <<m, k>> \in heard'[c]
BY Zenon DEF XcallTypeOK, Hear, HeardGrows

\* handle_request, other protocols still to deliver, only collects.
LEMMA RequestPendingPreserves ==
  ASSUME XcallInv, XcallTypeOK', NEW c \in Chain, NEW src \in Chain,
         NEW k \in Conn, NEW req \in Request,
         HandleRequestPending(c, src, k, req)
  PROVE  XcallInv'
<1>1. /\ RequestAccepted(c, src, k, req)
      /\ ~Complete(pendingRequests[c], req, k, req.protocols)
      /\ pendingRequests' =
           [pendingRequests EXCEPT ![c] = @ \cup {<<req, k>>}]
      /\ UNCHANGED <<sn, lastRequestId, callRequests, proxyRequest,
                     pendingResponses, successfulResponses, executeRequestId,
                     admitted, executed, calls, rolledBack>>
  BY Zenon DEF HandleRequestPending
<1>2. HeardGrows /\ <<CSRequest(req), k>> \in heard'[c]
  BY <1>1, HearGrows, Zenon DEF RequestAccepted, XcallInv
<1>3. k \in Range(req.protocols)
  <2>1. req.protocols # <<>>
    BY <1>1, SMTT(30) DEF Complete
  <2> QED
    BY <1>1, <2>1, Zenon DEF RequestAccepted, IsValidSource, Confirmed
<1>4. PendingHeard'
  <2>1. \A d \in Chain : \A p \in pendingRequests'[d] :
          p \in pendingRequests[d] \/ (d = c /\ p = <<req, k>>)
    BY <1>1, Zenon DEF XcallInv, XcallTypeOK
  <2>2. PendingHeard
    BY Zenon DEF XcallInv
  <2> QED
    BY <1>1, <1>2, <1>3, <2>1, <2>2 DEF PendingHeard, HeardGrows
<1> QED
  BY <1>1, <1>2, <1>4, RollbacksOfCallsFrame, CallsBySnFrame,
     RequestsByIdFrame, RequestsEndorsedFrame, SettlementEndorsedFrame,
     SettledOnceFrame, ExecutedOnceFrame, Zenon
  DEF XcallInv

\* A new proxy request under a fresh id.
LEMMA StoreProxyRequestPreserves ==
  ASSUME XcallInv, NEW c \in Chain, NEW req \in Request,
         StoreProxyRequest(c, req), UNCHANGED <<executed, executeRequestId>>
  PROVE  RequestsById' /\ ExecutedOnce'
<1> DEFINE id == lastRequestId[c] + 1
<1>1. /\ id \in ReqIds
      /\ lastRequestId' = [lastRequestId EXCEPT ![c] = id]
      /\ proxyRequest' = [proxyRequest EXCEPT ![c][id] = req]
  BY Zenon DEF StoreProxyRequest
<1>2. /\ lastRequestId \in [Chain -> 0..MaxReqId]
      /\ proxyRequest \in [Chain -> [ReqIds -> Request \cup {None}]]
      /\ executed \in [Chain -> SUBSET (ReqIds \X Request \X Code)]
      /\ executeRequestId \in [Chain -> 0..MaxReqId]
      /\ RequestsById /\ ExecutedOnce
  BY Zenon DEF XcallInv, XcallTypeOK
<1>3. \A d \in Chain : /\ lastRequestId[d] \in Nat
                       /\ lastRequestId'[d] \in Nat
                       /\ lastRequestId[d] <= lastRequestId'[d]
  BY <1>1, <1>2
<1>4. \A d \in Chain : \A i \in ReqIds :
        (d # c \/ i # id) => proxyRequest'[d][i] = proxyRequest[d][i]
  BY <1>1, <1>2, Zenon
<1>5. /\ lastRequestId'[c] = id
      /\ proxyRequest'[c][id] = req
      /\ req # None
  BY <1>1, <1>2, XcallAssumption, Zenon
<1>6. RequestsById'
  <2> SUFFICES ASSUME NEW d \in Chain
               PROVE  /\ \A i \in ReqIds : proxyRequest'[d][i] # None =>
                                             i <= lastRequestId'[d]
                      /\ \A x \in executed'[d] : x[1] <= lastRequestId'[d]
                      /\ executeRequestId'[d] # 0 =>
                           proxyRequest'[d][executeRequestId'[d]] # None
    BY Zenon DEF RequestsById
  <2>1. ASSUME NEW i \in ReqIds, proxyRequest'[d][i] # None
        PROVE  i <= lastRequestId'[d]
    BY <1>1, <1>2, <1>3, <1>4, <1>5, <2>1, XcallAssumption
    DEF RequestsById, ReqIds
  <2>2. ASSUME NEW x \in executed'[d]
        PROVE  x[1] <= lastRequestId'[d]
    <3>1. x[1] \in ReqIds /\ x[1] <= lastRequestId[d]
      BY <1>2 DEF RequestsById
    <3>2. x[1] \in Nat
      BY <3>1, XcallAssumption DEF ReqIds
    <3> QED
      BY <1>3, <3>1, <3>2
  <2>3. ASSUME executeRequestId'[d] # 0
        PROVE  proxyRequest'[d][executeRequestId'[d]] # None
    <3>1. executeRequestId[d] \in ReqIds
      BY <1>2, <2>3, XcallAssumption DEF ReqIds
    <3>2. proxyRequest[d][executeRequestId[d]] # None
      BY <1>2, <2>3, Zenon DEF RequestsById
    <3> QED
      BY <1>4, <1>5, <3>1, <3>2, Zenon
  <2> QED
    BY <2>1, <2>2, <2>3, Zenon
<1>7. ExecutedOnce'
  <2> SUFFICES ASSUME NEW d \in Chain, NEW x \in executed[d]
               PROVE  proxyRequest'[d][x[1]] = None
    BY <1>2, Zenon DEF ExecutedOnce
  <2>1. x[1] \in ReqIds /\ x[1] <= lastRequestId[d] /\ proxyRequest[d][x[1]] = None
    BY <1>2 DEF RequestsById, ExecutedOnce
  <2>2. d # c \/ x[1] # id
    BY <1>2, <2>1, XcallAssumption, SMTT(30) DEF ReqIds
  <2> QED
    BY <1>4, <2>1, <2>2, Zenon
<1> QED
  BY <1>6, <1>7, Zenon

\* handle_request, last delivery: the request it admits is endorsed.
LEMMA RequestPreserves ==
  ASSUME XcallInv, XcallTypeOK', NEW c \in Chain, NEW src \in Chain,
         NEW k \in Conn, NEW req \in Request, HandleRequest(c, src, k, req)
  PROVE  XcallInv'
<1>1. /\ RequestAccepted(c, src, k, req)
      /\ Complete(pendingRequests[c], req, k, req.protocols)
      /\ StoreProxyRequest(c, req)
      /\ UNCHANGED <<sn, callRequests, pendingResponses, successfulResponses,
                     executeRequestId, executed, calls, rolledBack>>
  BY Zenon DEF HandleRequest
<1>2. HeardGrows /\ <<CSRequest(req), k>> \in heard'[c]
  BY <1>1, HearGrows, Zenon DEF RequestAccepted, XcallInv
<1>3. PendingHeard'
  <2>1. \A d \in Chain : pendingRequests'[d] \subseteq pendingRequests[d]
    BY Zenon DEF HandleRequest, XcallInv, XcallTypeOK
  <2>2. PendingHeard
    BY Zenon DEF XcallInv
  <2> QED
    BY <1>1, <1>2, <2>1, <2>2, Zenon DEF PendingHeard, HeardGrows
<1>4. RequestsEndorsed'
  <2>1. Endorsed(c, CSRequest(req), req.protocols)'
    <3>1. \A q \in Conn : <<req, q>> \in pendingRequests[c] =>
            q \in Range(req.protocols) /\ <<CSRequest(req), q>> \in heard[c]
      <4>1. PendingHeard
        BY Zenon DEF XcallInv
      <4> QED
        BY <4>1, Zenon DEF PendingHeard
    <3>2. req.protocols \in Protocols
      BY Zenon DEF Request
    <3>3. req.protocols # <<>> => k \in Range(req.protocols)
      BY <1>1, Zenon DEF RequestAccepted, IsValidSource, Confirmed
    <3>4. heard'[c] = heard[c] \cup {<<CSRequest(req), k>>}
      BY <1>1 DEF RequestAccepted, Hear, XcallInv, XcallTypeOK
    <3>5. ASSUME req.protocols # <<>>
          PROVE  \A q \in Range(req.protocols) :
                   <<CSRequest(req), q>> \in heard'[c]
      <4>1. Range(req.protocols) \subseteq Registered(pendingRequests[c], req, k)
        BY <1>1, <3>1, <3>2, <3>3, <3>5, CompleteMeansAll, Zenon
      <4> QED
        BY <3>1, <3>4, <4>1, Zenon DEF Registered
    <3> QED
      BY <1>2, <3>5, Zenon DEF Endorsed
  <2>2. \A d \in Chain : \A a \in admitted'[d] :
          a \in admitted[d] \/ (d = c /\ a[2] = req)
    <3>1. admitted \in [Chain -> SUBSET (ReqIds \X Request)]
      BY Zenon DEF XcallInv, XcallTypeOK
    <3>2. admitted' = [admitted EXCEPT ![c] =
                         @ \cup {<<lastRequestId[c] + 1, req>>}]
      BY <1>1, Zenon DEF StoreProxyRequest
    <3> QED
      BY <3>1, <3>2
  <2>3. RequestsEndorsed
    BY Zenon DEF XcallInv
  <2> SUFFICES ASSUME NEW d \in Chain, NEW a \in admitted'[d], a \in admitted[d]
               PROVE  \/ Endorsed(d, CSRequest(a[2]), a[2].protocols)'
                      \/ \E s \in Sns, dst \in Protocols :
                           Endorsed(d, CSResult(SuccessResult(s,
                                     [a[2] EXCEPT !.protocols = dst])),
                                    a[2].protocols)'
    BY <2>1, <2>2, Zenon DEF RequestsEndorsed
  <2> QED
    BY <1>2, <2>3, ZenonT(30) DEF RequestsEndorsed, Endorsed, HeardGrows
<1>5. RequestsById' /\ ExecutedOnce'
  BY <1>1, StoreProxyRequestPreserves, Zenon
<1> QED
  BY <1>1, <1>2, <1>3, <1>4, <1>5, RollbacksOfCallsFrame, CallsBySnFrame,
     SettlementEndorsedFrame, SettledOnceFrame, Zenon
  DEF XcallInv

\* What the three forms of handle_result have in common.
LEMMA ResultFacts ==
  ASSUME XcallInv, NEW c \in Chain, NEW k \in Conn, NEW res \in Result,
         ResultAccepted(c, k, res)
  PROVE  /\ res.sn \in Sns
         /\ callRequests[c][res.sn] \in Rollback
         /\ calls[c][res.sn] \in Call
         /\ calls[c][res.sn].protocols = callRequests[c][res.sn].protocols
         /\ HeardGrows /\ <<CSResult(res), k>> \in heard'[c]
<1>1. /\ callRequests \in [Chain -> [Sns -> Rollback \cup {None}]]
      /\ calls \in [Chain -> [Sns -> Call \cup {None}]]
      /\ XcallTypeOK /\ RollbacksOfCalls
  BY Zenon DEF XcallInv, XcallTypeOK
<1>2. callRequests[c][res.sn] # None /\ Hear(c, k, CSResult(res))
  BY Zenon DEF ResultAccepted
<1>3. res.sn \in Sns
  BY Zenon DEF Result
<1>4. callRequests[c][res.sn] \in Rollback
  BY <1>1, <1>2, <1>3
<1>5. calls[c][res.sn] \in Call
  BY <1>1, <1>2, <1>3 DEF RollbacksOfCalls
<1>6. calls[c][res.sn].protocols = callRequests[c][res.sn].protocols
  BY <1>1, <1>2, <1>3, Zenon DEF RollbacksOfCalls
<1>7. HeardGrows /\ <<CSResult(res), k>> \in heard'[c]
  BY <1>1, <1>2, HearGrows, Zenon
<1> QED
  BY <1>3, <1>4, <1>5, <1>6, <1>7, Zenon

\* What handle_result collects was delivered by a connection of the call.
LEMMA ResultPendingHeard ==
  ASSUME XcallInv, NEW c \in Chain, NEW k \in Conn, NEW res \in Result,
         ResultAccepted(c, k, res), SavePendingResponse(c, k, res),
         UNCHANGED <<pendingRequests, calls>>
  PROVE  PendingHeard'
<1>1. PendingHeard /\ XcallTypeOK
  BY Zenon DEF XcallInv
<1>2. \A d \in Chain : \A p \in pendingResponses'[d] :
        \/ p \in pendingResponses[d]
        \/ d = c /\ p = <<res, k>> /\ Len(callRequests[c][res.sn].protocols) > 1
  BY <1>1, Zenon DEF SavePendingResponse, XcallTypeOK
<1>3. Len(callRequests[c][res.sn].protocols) > 1 =>
        k \in Range(callRequests[c][res.sn].protocols)
  <2> SUFFICES ASSUME Len(callRequests[c][res.sn].protocols) > 1
               PROVE  k \in Range(callRequests[c][res.sn].protocols)
    BY Zenon
  <2>1. callRequests[c][res.sn].protocols # <<>>
    OBVIOUS
  <2> QED
    BY <2>1, Zenon DEF ResultAccepted, IsValidSource, Confirmed
<1>4. calls[c][res.sn] # None
  BY ResultFacts, XcallAssumption, ZenonT(30)
<1>5. /\ calls[c][res.sn].protocols = callRequests[c][res.sn].protocols
      /\ HeardGrows /\ <<CSResult(res), k>> \in heard'[c]
  BY ResultFacts, Zenon
<1>6. ASSUME NEW d \in Chain, NEW p \in pendingResponses'[d]
      PROVE  /\ calls[d][p[1].sn] # None
             /\ p[2] \in Range(calls[d][p[1].sn].protocols)
             /\ <<CSResult(p[1]), p[2]>> \in heard'[d]
  <2>1. CASE p \in pendingResponses[d]
    BY <1>1, <1>5, <2>1, Zenon DEF PendingHeard, HeardGrows
  <2>2. CASE p \notin pendingResponses[d]
    <3>1. d = c /\ p[1] = res /\ p[2] = k
            /\ Len(callRequests[c][res.sn].protocols) > 1
      BY <1>2, <2>2
    <3> QED
      BY <1>3, <1>4, <1>5, <3>1, Zenon
  <2> QED
    BY <2>1, <2>2, Zenon
<1> QED
  BY <1>1, <1>5, <1>6, Zenon DEF PendingHeard, HeardGrows

\* A complete result was delivered by every connection of the call.
LEMMA ResultEndorsed ==
  ASSUME XcallInv, NEW c \in Chain, NEW k \in Conn, NEW res \in Result,
         ResultAccepted(c, k, res), ResultComplete(c, k, res),
         UNCHANGED calls
  PROVE  Endorsed(c, CSResult(res), calls[c][res.sn].protocols)'
<1> DEFINE p == callRequests[c][res.sn].protocols
<1>1. XcallTypeOK /\ PendingHeard
  BY Zenon DEF XcallInv
<1>2. /\ p \in Protocols
      /\ calls[c][res.sn].protocols = p
  BY ResultFacts, ZenonT(30) DEF Rollback
<1>3. \A q \in Conn : <<res, q>> \in pendingResponses[c] =>
        q \in Range(p) /\ <<CSResult(res), q>> \in heard[c]
  BY <1>1, <1>2, Zenon DEF PendingHeard
<1>4. p # <<>> => k \in Range(p)
  BY Zenon DEF ResultAccepted, IsValidSource, Confirmed
<1>5. heard'[c] = heard[c] \cup {<<CSResult(res), k>>}
  BY <1>1, Zenon DEF ResultAccepted, Hear, XcallTypeOK
<1>6. Complete(pendingResponses[c], res, k, p)
  BY Zenon DEF ResultComplete
<1> HIDE DEF p
<1>7. ASSUME p # <<>>
      PROVE  \A q \in Range(p) : <<CSResult(res), q>> \in heard'[c]
  <2>1. Range(p) \subseteq Registered(pendingResponses[c], res, k)
    BY <1>2, <1>3, <1>4, <1>6, <1>7, CompleteMeansAll, ZenonT(30)
  <2> QED
    BY <1>3, <1>5, <2>1, Zenon DEF Registered
<1>8. <<CSResult(res), k>> \in heard'[c]
  BY <1>5, Zenon
<1>9. calls'[c][res.sn].protocols = p
  BY <1>2, Zenon
<1> QED
  BY <1>7, <1>8, <1>9, Zenon DEF Endorsed

\* handle_result, other protocols still to deliver, only collects.
LEMMA ResultPendingPreserves ==
  ASSUME XcallInv, XcallTypeOK', NEW c \in Chain, NEW k \in Conn,
         NEW res \in Result, HandleResultPending(c, k, res)
  PROVE  XcallInv'
<1>1. /\ ResultAccepted(c, k, res)
      /\ SavePendingResponse(c, k, res)
      /\ UNCHANGED <<sn, lastRequestId, callRequests, proxyRequest,
                     pendingRequests, successfulResponses, executeRequestId,
                     admitted, executed, calls, rolledBack>>
  BY Zenon DEF HandleResultPending
<1>2. HeardGrows
  BY <1>1, ResultFacts, Zenon
<1>3. PendingHeard'
  BY <1>1, ResultPendingHeard, Zenon
<1> QED
  BY <1>1, <1>2, <1>3, RollbacksOfCallsFrame, CallsBySnFrame,
     RequestsByIdFrame, RequestsEndorsedFrame, SettlementEndorsedFrame,
     SettledOnceFrame, ExecutedOnceFrame, Zenon
  DEF XcallInv

\* handle_result, last delivery of a failure: the rollback that it enables
\* has an endorsed failure.
LEMMA ResultFailurePreserves ==
  ASSUME XcallInv, XcallTypeOK', NEW c \in Chain, NEW k \in Conn,
         NEW res \in Result, HandleResultFailure(c, k, res)
  PROVE  XcallInv'
<1>1. /\ ResultAccepted(c, k, res)
      /\ ResultComplete(c, k, res)
      /\ res.code # Success
      /\ SavePendingResponse(c, k, res)
      /\ callRequests' = [callRequests EXCEPT ![c][res.sn].enabled = TRUE]
      /\ UNCHANGED <<sn, lastRequestId, proxyRequest, pendingRequests,
                     successfulResponses, executeRequestId, admitted,
                     executed, calls, rolledBack>>
  BY Zenon DEF HandleResultFailure, IsSuccess
<1>2. HeardGrows /\ res.sn \in Sns /\ callRequests[c][res.sn] \in Rollback
  BY <1>1, ResultFacts, Zenon
<1>3. PendingHeard'
  BY <1>1, ResultPendingHeard, Zenon
<1>4. callRequests \in [Chain -> [Sns -> Rollback \cup {None}]]
  BY Zenon DEF XcallInv, XcallTypeOK
<1>5. \A d \in Chain : \A t \in Sns : (d # c \/ t # res.sn) =>
        callRequests'[d][t] = callRequests[d][t]
  BY <1>1, <1>4, Zenon
<1>6. callRequests'[c][res.sn] = [callRequests[c][res.sn] EXCEPT !.enabled = TRUE]
  BY <1>1, <1>2, <1>4, ZenonT(30)
<1>7. RollbacksOfCalls'
  <2>1. RollbacksOfCalls
    BY Zenon DEF XcallInv
  <2> SUFFICES ASSUME NEW d \in Chain, NEW t \in Sns,
                      callRequests'[d][t] # None
               PROVE  /\ calls'[d][t] # None
                      /\ callRequests'[d][t].to = calls'[d][t].to
                      /\ callRequests'[d][t].protocols = calls'[d][t].protocols
                      /\ callRequests'[d][t].enabled =>
                           \E reply \in Request \cup {None} :
                             Endorsed(d, CSResult(FailureResult(t, reply)),
                                      calls[d][t].protocols)'
    BY Zenon DEF RollbacksOfCalls
  <2>2. CASE d = c /\ t = res.sn
    <3>1. callRequests[c][res.sn] # None
      BY <1>1, Zenon DEF ResultAccepted
    <3>2. /\ calls[c][res.sn] # None
          /\ callRequests[c][res.sn].to = calls[c][res.sn].to
          /\ callRequests[c][res.sn].protocols = calls[c][res.sn].protocols
      BY <1>2, <2>1, <3>1, Zenon DEF RollbacksOfCalls
    <3>3. /\ callRequests'[c][res.sn].to = callRequests[c][res.sn].to
          /\ callRequests'[c][res.sn].protocols =
               callRequests[c][res.sn].protocols
      BY <1>2, <1>6, Zenon DEF Rollback
    <3>4. res = FailureResult(res.sn, res.reply) /\ res.reply \in Request \cup {None}
      BY <1>1, Zenon DEF Result, Code, Success, Failure, FailureResult
    <3>5. Endorsed(c, CSResult(res), calls[c][res.sn].protocols)'
      BY <1>1, ResultEndorsed, Zenon
    <3>6. \E reply \in Request \cup {None} :
            Endorsed(c, CSResult(FailureResult(res.sn, reply)),
                     calls[c][res.sn].protocols)'
      BY <3>4, <3>5, Zenon
    <3> QED
      BY <1>1, <2>2, <3>2, <3>3, <3>6, Zenon
  <2>3. CASE d # c \/ t # res.sn
    <3>1. /\ callRequests'[d][t] = callRequests[d][t]
          /\ calls'[d][t] = calls[d][t]
      BY <1>1, <1>5, <2>3, Zenon
    <3>2. /\ calls[d][t] # None
          /\ callRequests[d][t].to = calls[d][t].to
          /\ callRequests[d][t].protocols = calls[d][t].protocols
          /\ callRequests[d][t].enabled =>
               \E reply \in Request \cup {None} :
                 Endorsed(d, CSResult(FailureResult(t, reply)),
                          calls[d][t].protocols)
      BY <2>1, <3>1, Zenon DEF RollbacksOfCalls
    <3> QED
      BY <1>2, <3>1, <3>2, Zenon DEF Endorsed, HeardGrows
  <2> QED
    BY <2>2, <2>3, Zenon
<1>8. SettledOnce'
  <2>1. SettledOnce /\ XcallTypeOK
    BY Zenon DEF XcallInv
  <2>2. callRequests[c][res.sn] # None
    BY <1>1, Zenon DEF ResultAccepted
  <2>3. \A d \in Chain : \A t \in successfulResponses[d] \cup rolledBack[d] :
          t \in Sns /\ callRequests[d][t] = None
    BY <2>1, Zenon DEF SettledOnce, XcallTypeOK
  <2>4. \A d \in Chain : \A t \in successfulResponses[d] \cup rolledBack[d] :
          callRequests'[d][t] = None
    BY <1>5, <2>2, <2>3
  <2> QED
    BY <1>1, <2>1, <2>4, Zenon DEF SettledOnce
<1> QED
  BY <1>1, <1>2, <1>3, <1>7, <1>8, CallsBySnFrame, RequestsByIdFrame,
     RequestsEndorsedFrame, SettlementEndorsedFrame, ExecutedOnceFrame, Zenon
  DEF XcallInv

-----------------------------------------------------------------------------
(***************************************************************************)
(* The steps that settle a call or execute a request.                      *)
(***************************************************************************)
\* A settled call: its rollback is removed and its number recorded once.
Settles(c, s) ==
  /\ callRequests' = [callRequests EXCEPT ![c][s] = None]
  /\ \/ /\ successfulResponses' =
             [successfulResponses EXCEPT ![c] = @ \cup {s}]
        /\ UNCHANGED rolledBack
     \/ /\ rolledBack' = [rolledBack EXCEPT ![c] = @ \cup {s}]
        /\ UNCHANGED successfulResponses

\* Settling a stored call (a success in handle_result, or execute_rollback)
\* keeps what the invariant says of rollbacks and of sequence numbers.
LEMMA SettlePreserves ==
  ASSUME XcallInv, NEW c \in Chain, NEW s \in Sns, callRequests[c][s] # None,
         Settles(c, s), HeardGrows, UNCHANGED <<sn, calls>>
  PROVE  RollbacksOfCalls' /\ CallsBySn' /\ SettledOnce'
<1>1. /\ callRequests \in [Chain -> [Sns -> Rollback \cup {None}]]
      /\ successfulResponses \in [Chain -> SUBSET Sns]
      /\ rolledBack \in [Chain -> SUBSET Sns]
      /\ RollbacksOfCalls /\ CallsBySn /\ SettledOnce
  BY Zenon DEF XcallInv, XcallTypeOK
<1>2. \A d \in Chain : \A t \in Sns :
        /\ (d # c \/ t # s) => callRequests'[d][t] = callRequests[d][t]
        /\ (d = c /\ t = s) => callRequests'[d][t] = None
  BY <1>1, Zenon DEF Settles
<1>3. \A d \in Chain :
        /\ successfulResponses'[d] \subseteq Sns
        /\ rolledBack'[d] \subseteq Sns
        /\ \A t \in successfulResponses'[d] :
             t \in successfulResponses[d] \/ (d = c /\ t = s)
        /\ \A t \in rolledBack'[d] :
             t \in rolledBack[d] \/ (d = c /\ t = s)
        /\ \/ successfulResponses'[d] = successfulResponses[d]
           \/ rolledBack'[d] = rolledBack[d]
  <2>1. CASE successfulResponses' = [successfulResponses EXCEPT ![c] = @ \cup {s}]
             /\ UNCHANGED rolledBack
    BY <1>1, <2>1, Zenon
  <2>2. CASE rolledBack' = [rolledBack EXCEPT ![c] = @ \cup {s}]
             /\ UNCHANGED successfulResponses
    BY <1>1, <2>2, Zenon
  <2> QED
    BY <2>1, <2>2, Zenon DEF Settles
<1>4. s \notin successfulResponses[c] \cup rolledBack[c]
  BY <1>1, Zenon DEF SettledOnce
<1>5. RollbacksOfCalls'
  <2> SUFFICES ASSUME NEW d \in Chain, NEW t \in Sns,
                      callRequests'[d][t] # None
               PROVE  /\ calls'[d][t] # None
                      /\ callRequests'[d][t].to = calls'[d][t].to
                      /\ callRequests'[d][t].protocols = calls'[d][t].protocols
                      /\ callRequests'[d][t].enabled =>
                           \E reply \in Request \cup {None} :
                             Endorsed(d, CSResult(FailureResult(t, reply)),
                                      calls[d][t].protocols)'
    BY Zenon DEF RollbacksOfCalls
  <2>1. /\ callRequests'[d][t] = callRequests[d][t]
        /\ calls'[d][t] = calls[d][t]
    BY <1>2, Zenon
  <2>2. /\ calls[d][t] # None
        /\ callRequests[d][t].to = calls[d][t].to
        /\ callRequests[d][t].protocols = calls[d][t].protocols
        /\ callRequests[d][t].enabled =>
             \E reply \in Request \cup {None} :
               Endorsed(d, CSResult(FailureResult(t, reply)),
                        calls[d][t].protocols)
    BY <1>1, <2>1, Zenon DEF RollbacksOfCalls
  <2> QED
    BY <2>1, <2>2, ZenonT(30) DEF Endorsed, HeardGrows
<1>6. CallsBySn'
  <2>1. calls[c][s] # None
    BY <1>1, Zenon DEF RollbacksOfCalls
  <2> SUFFICES ASSUME NEW d \in Chain, NEW t \in Sns
               PROVE  /\ calls'[d][t] # None => t <= sn'[d]
                      /\ t \in successfulResponses'[d] \cup rolledBack'[d] =>
                           calls'[d][t] # None
    BY Zenon DEF CallsBySn
  <2> QED
    BY <1>1, <1>3, <2>1, Zenon DEF CallsBySn
<1>7. SettledOnce'
  <2> SUFFICES ASSUME NEW d \in Chain
               PROVE  /\ successfulResponses'[d] \cap rolledBack'[d] = {}
                      /\ \A t \in successfulResponses'[d] \cup rolledBack'[d] :
                           callRequests'[d][t] = None
    BY Zenon DEF SettledOnce
  <2>1. successfulResponses[d] \cap rolledBack[d] = {}
    BY <1>1, Zenon DEF SettledOnce
  <2>2. successfulResponses'[d] \cap rolledBack'[d] = {}
    BY <1>3, <1>4, <2>1
  <2>3. \A t \in successfulResponses[d] \cup rolledBack[d] :
          t \in Sns /\ callRequests[d][t] = None
    BY <1>1, Zenon DEF SettledOnce
  <2>4. ASSUME NEW t \in successfulResponses'[d] \cup rolledBack'[d]
        PROVE  callRequests'[d][t] = None
    <3>1. t \in Sns
      BY <1>3, Zenon
    <3>2. t \in successfulResponses[d] \cup rolledBack[d] \/ (d = c /\ t = s)
      BY <1>3, Zenon
    <3> QED
      BY <1>2, <2>3, <3>1, <3>2, Zenon
  <2> QED
    BY <2>2, <2>4, Zenon
<1> QED
  BY <1>5, <1>6, <1>7, Zenon

\* The reply that a success carries was delivered with it by every
\* connection of the call.
LEMMA ReplyEndorsed ==
  ASSUME XcallInv, NEW c \in Chain, NEW k \in Conn, NEW res \in Result,
         HandleResultSuccess(c, k, res), res.reply # None
  PROVE  RequestsEndorsed' /\ RequestsById' /\ ExecutedOnce'
<1>1. /\ ResultAccepted(c, k, res)
      /\ ResultComplete(c, k, res)
      /\ res.code = Success
      /\ StoreProxyRequest(c, [res.reply EXCEPT !.protocols =
                                 callRequests[c][res.sn].protocols])
      /\ UNCHANGED <<executeRequestId, executed, calls>>
  BY Zenon DEF HandleResultSuccess, HandleReply, IsSuccess
<1>2. /\ HeardGrows /\ res.sn \in Sns
      /\ callRequests[c][res.sn].protocols \in Protocols
      /\ calls[c][res.sn].protocols = callRequests[c][res.sn].protocols
  BY <1>1, ResultFacts, Zenon DEF Rollback
<1>3. PICK p \in Protocols : p = callRequests[c][res.sn].protocols
  BY <1>2, Zenon
<1>4. res.reply \in Request
  BY Zenon DEF Result
<1>5. PICK r \in Request :
        /\ StoreProxyRequest(c, r)
        /\ r.protocols = p
        /\ res.reply.protocols \in Protocols
        /\ [r EXCEPT !.protocols = res.reply.protocols] = res.reply
  <2>1. /\ [res.reply EXCEPT !.protocols = p] \in Request
        /\ [res.reply EXCEPT !.protocols = p].protocols = p
        /\ res.reply.protocols \in Protocols
        /\ [[res.reply EXCEPT !.protocols = p]
              EXCEPT !.protocols = res.reply.protocols] = res.reply
    BY <1>4, Zenon DEF Request
  <2>2. StoreProxyRequest(c, [res.reply EXCEPT !.protocols = p])
    BY <1>1, <1>3, Zenon
  <2> QED
    BY <2>1, <2>2, Zenon
<1>6. res = SuccessResult(res.sn, res.reply)
  BY <1>1, Zenon DEF Result, SuccessResult
<1>7. \A d \in Chain : \A a \in admitted'[d] :
        a \in admitted[d] \/ (d = c /\ a[2] = r)
  BY <1>5 DEF StoreProxyRequest, XcallInv, XcallTypeOK
<1>8. Endorsed(c, CSResult(SuccessResult(res.sn,
                    [r EXCEPT !.protocols = res.reply.protocols])),
               r.protocols)'
  <2>1. calls'[c][res.sn].protocols = p
    BY <1>1, <1>2, <1>3, Zenon
  <2>2. Endorsed(c, CSResult(res), calls[c][res.sn].protocols)'
    BY <1>1, ResultEndorsed, Zenon
  <2>3. Endorsed(c, CSResult(res), p)'
    BY <2>1, <2>2, Zenon DEF Endorsed
  <2> QED
    BY <1>5, <1>6, <2>3, Zenon
<1>9. RequestsEndorsed'
  <2>1. RequestsEndorsed
    BY Zenon DEF XcallInv
  <2> SUFFICES ASSUME NEW d \in Chain, NEW a \in admitted'[d]
               PROVE  \/ Endorsed(d, CSRequest(a[2]), a[2].protocols)'
                      \/ \E s \in Sns, dst \in Protocols :
                           Endorsed(d, CSResult(SuccessResult(s,
                                     [a[2] EXCEPT !.protocols = dst])),
                                    a[2].protocols)'
    BY Zenon DEF RequestsEndorsed
  <2>2. CASE a \in admitted[d]
    BY <1>2, <2>1, <2>2, Zenon DEF RequestsEndorsed, Endorsed, HeardGrows
  <2>3. CASE d = c /\ a[2] = r
    BY <1>2, <1>5, <1>8, <2>3, Zenon
  <2> QED
    BY <1>7, <2>2, <2>3, Zenon
<1>10. RequestsById' /\ ExecutedOnce'
  BY <1>1, <1>5, StoreProxyRequestPreserves, Zenon
<1> QED
  BY <1>9, <1>10, Zenon

\* handle_result, last delivery of a success: the call settles, endorsed.
LEMMA ResultSuccessPreserves ==
  ASSUME XcallInv, XcallTypeOK', NEW c \in Chain, NEW k \in Conn,
         NEW res \in Result, HandleResultSuccess(c, k, res)
  PROVE  XcallInv'
<1>1. /\ ResultAccepted(c, k, res)
      /\ ResultComplete(c, k, res)
      /\ res.code = Success
      /\ SavePendingResponse(c, k, res)
      /\ Settles(c, res.sn)
      /\ callRequests[c][res.sn] # None
      /\ successfulResponses' = [successfulResponses EXCEPT ![c] =
                                   @ \cup {res.sn}]
      /\ UNCHANGED <<sn, pendingRequests, executeRequestId, executed, calls,
                     rolledBack>>
  BY Zenon
     DEF HandleResultSuccess, ResultAccepted, Settles, CleanupRequest, IsSuccess
<1>2. HeardGrows /\ res.sn \in Sns
  BY <1>1, ResultFacts, Zenon
<1>3. PendingHeard'
  BY <1>1, ResultPendingHeard, Zenon
<1>4. RollbacksOfCalls' /\ CallsBySn' /\ SettledOnce'
  BY <1>1, <1>2, SettlePreserves, Zenon
<1>5. SettlementEndorsed'
  <2>1. SettlementEndorsed
    BY Zenon DEF XcallInv
  <2>2. \A d \in Chain : \A t \in successfulResponses'[d] :
          t \in successfulResponses[d] \/ (d = c /\ t = res.sn)
    BY <1>1 DEF XcallInv, XcallTypeOK
  <2>3. Endorsed(c, CSResult(SuccessResult(res.sn, res.reply)),
                 calls[c][res.sn].protocols)'
    <3>1. res = SuccessResult(res.sn, res.reply)
      BY <1>1, ZenonT(30) DEF Result, SuccessResult
    <3>2. Endorsed(c, CSResult(res), calls[c][res.sn].protocols)'
      BY <1>1, ResultEndorsed, Zenon
    <3> QED
      BY <3>1, <3>2, Zenon
  <2>4. res.reply \in Request \cup {None}
    BY Zenon DEF Result
  <2> SUFFICES ASSUME NEW d \in Chain, NEW t \in Sns
               PROVE  /\ t \in successfulResponses'[d] =>
                           \E reply \in Request \cup {None} :
                             Endorsed(d, CSResult(SuccessResult(t, reply)),
                                      calls[d][t].protocols)'
                      /\ t \in rolledBack'[d] =>
                           \E reply \in Request \cup {None} :
                             Endorsed(d, CSResult(FailureResult(t, reply)),
                                      calls[d][t].protocols)'
    BY Zenon DEF SettlementEndorsed
  <2>5. t \in successfulResponses[d] =>
          \E reply \in Request \cup {None} :
            Endorsed(d, CSResult(SuccessResult(t, reply)),
                     calls[d][t].protocols)'
    BY <1>1, <1>2, <2>1, Zenon DEF SettlementEndorsed, Endorsed, HeardGrows
  <2>6. t \in rolledBack'[d] =>
          \E reply \in Request \cup {None} :
            Endorsed(d, CSResult(FailureResult(t, reply)),
                     calls[d][t].protocols)'
    BY <1>1, <1>2, <2>1, Zenon DEF SettlementEndorsed, Endorsed, HeardGrows
  <2> QED
    BY <2>2, <2>3, <2>4, <2>5, <2>6, Zenon
<1>6. RequestsEndorsed' /\ RequestsById' /\ ExecutedOnce'
  <2>1. CASE res.reply = None
    <3>1. UNCHANGED <<lastRequestId, proxyRequest, admitted>>
      BY <2>1, Zenon DEF HandleResultSuccess
    <3> QED
      BY <1>1, <1>2, <3>1, RequestsByIdFrame, RequestsEndorsedFrame,
         ExecutedOnceFrame, Zenon
      DEF XcallInv
  <2>2. CASE res.reply # None
    BY <2>2, ReplyEndorsed, Zenon
  <2> QED
    BY <2>1, <2>2, Zenon
<1> QED
  BY <1>3, <1>4, <1>5, <1>6, Zenon DEF XcallInv

\* execute_rollback runs the rollback of a call whose failure is endorsed.
LEMMA RollbackPreserves ==
  ASSUME XcallInv, XcallTypeOK', NEW c \in Chain, NEW s \in Sns,
         ExecuteRollback(c, s)
  PROVE  XcallInv'
<1>1. /\ callRequests[c][s] # None
      /\ callRequests[c][s].enabled
      /\ Settles(c, s)
      /\ rolledBack' = [rolledBack EXCEPT ![c] = @ \cup {s}]
      /\ UNCHANGED <<sn, lastRequestId, proxyRequest, pendingRequests,
                     pendingResponses, successfulResponses, executeRequestId,
                     heard, admitted, executed, calls>>
  BY Zenon DEF ExecuteRollback, Settles, CleanupRequest, RollbackEnabled
<1>2. HeardGrows
  BY <1>1, Zenon DEF HeardGrows
<1>3. RollbacksOfCalls' /\ CallsBySn' /\ SettledOnce'
  BY <1>1, <1>2, SettlePreserves, Zenon
<1>4. SettlementEndorsed'
  <2>1. SettlementEndorsed /\ RollbacksOfCalls
    BY Zenon DEF XcallInv
  <2>2. \A d \in Chain : \A t \in rolledBack'[d] :
          t \in rolledBack[d] \/ (d = c /\ t = s)
    BY <1>1 DEF XcallInv, XcallTypeOK
  <2>3. \E reply \in Request \cup {None} :
          Endorsed(c, CSResult(FailureResult(s, reply)), calls[c][s].protocols)
    BY <1>1, <2>1, Zenon DEF RollbacksOfCalls
  <2> QED
    BY <1>1, <2>1, <2>2, <2>3, ZenonT(30) DEF SettlementEndorsed, Endorsed
<1> QED
  BY <1>1, <1>2, <1>3, <1>4, PendingHeardFrame, RequestsByIdFrame,
     RequestsEndorsedFrame, ExecutedOnceFrame, Zenon
  DEF XcallInv

\* execute_call starts the execution of a request that is stored.
LEMMA ExecutePreserves ==
  ASSUME XcallInv, XcallTypeOK', NEW c \in Chain, NEW id \in ReqIds,
         ExecuteCall(c, id)
  PROVE  XcallInv'
<1>1. /\ proxyRequest[c][id] # None
      /\ executeRequestId' = [executeRequestId EXCEPT ![c] = id]
      /\ UNCHANGED <<sn, lastRequestId, callRequests, proxyRequest,
                     pendingRequests, pendingResponses, successfulResponses,
                     heard, admitted, executed, calls, rolledBack>>
  BY Zenon DEF ExecuteCall, history
<1>2. HeardGrows
  BY <1>1, Zenon DEF HeardGrows
<1>3. RequestsById'
  <2>1. RequestsById /\ executeRequestId \in [Chain -> 0..MaxReqId]
    BY Zenon DEF XcallInv, XcallTypeOK
  <2> QED
    BY <1>1, <2>1, Zenon DEF RequestsById
<1> QED
  BY <1>1, <1>2, <1>3, RollbacksOfCallsFrame, CallsBySnFrame,
     PendingHeardFrame, RequestsEndorsedFrame, SettlementEndorsedFrame,
     SettledOnceFrame, ExecutedOnceFrame, Zenon
  DEF XcallInv

\* execute_call_reply removes the request it executed.
LEMMA FinishPreserves ==
  ASSUME XcallInv, XcallTypeOK', NEW c \in Chain, NEW id \in ReqIds,
         NEW code \in Code, proxyRequest[c][id] # None, FinishCall(c, id, code)
  PROVE  XcallInv'
<1>1. /\ executeRequestId' = [executeRequestId EXCEPT ![c] = 0]
      /\ proxyRequest' = [proxyRequest EXCEPT ![c][id] = None]
      /\ executed' = [executed EXCEPT ![c] =
                                 @ \cup {<<id, proxyRequest[c][id], code>>}]
      /\ UNCHANGED <<sn, lastRequestId, callRequests, pendingRequests,
                     pendingResponses, successfulResponses, heard, admitted,
                     calls, rolledBack>>
  BY Zenon DEF FinishCall, RemoveProxyRequest, PopCallReply
<1>2. /\ executeRequestId \in [Chain -> 0..MaxReqId]
      /\ proxyRequest \in [Chain -> [ReqIds -> Request \cup {None}]]
      /\ executed \in [Chain -> SUBSET (ReqIds \X Request \X Code)]
      /\ RequestsById /\ ExecutedOnce
  BY Zenon DEF XcallInv, XcallTypeOK
<1>3. HeardGrows
  BY <1>1, Zenon DEF HeardGrows
<1>4. \A d \in Chain :
        /\ executeRequestId'[d] = IF d = c THEN 0 ELSE executeRequestId[d]
        /\ d # c => proxyRequest'[d] = proxyRequest[d]
        /\ d # c => executed'[d] = executed[d]
  BY <1>1, <1>2, Zenon
<1>5. /\ proxyRequest'[c][id] = None
      /\ \A i \in ReqIds \ {id} : proxyRequest'[c][i] = proxyRequest[c][i]
  BY <1>1, <1>2, Zenon
<1>6. \A x \in executed'[c] :
        x \in executed[c] \/ x = <<id, proxyRequest[c][id], code>>
  BY <1>1, <1>2, Zenon
<1>7. RequestsById'
  <2> SUFFICES ASSUME NEW d \in Chain
               PROVE  /\ \A i \in ReqIds : proxyRequest'[d][i] # None =>
                                             i <= lastRequestId'[d]
                      /\ \A x \in executed'[d] : x[1] <= lastRequestId'[d]
                      /\ executeRequestId'[d] # 0 =>
                           proxyRequest'[d][executeRequestId'[d]] # None
    BY Zenon DEF RequestsById
  <2>1. id <= lastRequestId[c]
    BY <1>2, Zenon DEF RequestsById
  <2>2. CASE d = c
    <3>1. \A i \in ReqIds : proxyRequest'[c][i] # None => i <= lastRequestId'[c]
      BY <1>1, <1>2, <1>5, Zenon DEF RequestsById
    <3>2. \A x \in executed'[c] : x[1] <= lastRequestId'[c]
      BY <1>1, <1>2, <1>6, <2>1 DEF RequestsById
    <3> QED
      BY <1>4, <2>2, <3>1, <3>2, Zenon
  <2>3. CASE d # c
    BY <1>1, <1>2, <1>4, <2>3, Zenon DEF RequestsById
  <2> QED
    BY <2>2, <2>3, Zenon
<1>8. ExecutedOnce'
  <2> SUFFICES ASSUME NEW d \in Chain, NEW x \in executed'[d]
               PROVE  /\ proxyRequest'[d][x[1]] = None
                      /\ \A y \in executed'[d] : x[1] = y[1] => x = y
    BY Zenon DEF ExecutedOnce
  <2>1. CASE d = c
    <3>1. \A y \in executed[c] : /\ y[1] \in ReqIds \ {id}
                                 /\ proxyRequest[c][y[1]] = None
      BY <1>2 DEF ExecutedOnce
    <3>2. proxyRequest'[c][x[1]] = None
      BY <1>5, <1>6, <2>1, <3>1
    <3>3. \A y \in executed'[c] : x[1] = y[1] => x = y
      BY <1>2, <1>6, <2>1, <3>1 DEF ExecutedOnce
    <3> QED
      BY <2>1, <3>2, <3>3, Zenon
  <2>2. CASE d # c
    BY <1>2, <1>4, <2>2 DEF ExecutedOnce
  <2> QED
    BY <2>1, <2>2, Zenon
<1> QED
  BY <1>1, <1>3, <1>7, <1>8, RollbacksOfCallsFrame, CallsBySnFrame,
     PendingHeardFrame, RequestsEndorsedFrame, SettlementEndorsedFrame,
     SettledOnceFrame, Zenon
  DEF XcallInv

\* A step that leaves all but the default connections and callReply alone.
LEMMA IdlePreserves ==
  ASSUME XcallInv, XcallTypeOK',
         UNCHANGED <<sn, lastRequestId, callRequests, proxyRequest,
                     pendingRequests, pendingResponses, successfulResponses,
                     executeRequestId, heard, admitted, executed, calls,
                     rolledBack>>
  PROVE  XcallInv'
<1>1. HeardGrows
  BY Zenon DEF HeardGrows
<1> QED
  BY <1>1, RollbacksOfCallsFrame, CallsBySnFrame, PendingHeardFrame,
     RequestsByIdFrame, RequestsEndorsedFrame, SettlementEndorsedFrame,
     SettledOnceFrame, ExecutedOnceFrame, Zenon
  DEF XcallInv

-----------------------------------------------------------------------------
(***************************************************************************)
(* The invariant and what follows from it                                  *)
(***************************************************************************)

\* A freshly instantiated contract satisfies the invariant.
LEMMA InvInit == XcallInit => XcallInv
<1> SUFFICES ASSUME XcallInit
             PROVE  XcallInv
  BY Zenon
<1>1. XcallTypeOK
  BY TypingInit, Zenon
<1>2. RollbacksOfCalls /\ CallsBySn /\ SettlementEndorsed /\ SettledOnce
  BY Zenon DEF XcallInit, RollbacksOfCalls, CallsBySn, SettlementEndorsed,
         SettledOnce
<1>3. PendingHeard /\ RequestsEndorsed /\ ExecutedOnce
  BY Zenon DEF XcallInit, PendingHeard, RequestsEndorsed, ExecutedOnce
<1>4. RequestsById
  BY Zenon DEF XcallInit, RequestsById
<1> QED
  BY <1>1, <1>2, <1>3, <1>4, Zenon DEF XcallInv

\* Every entry point of the contract preserves the invariant, whatever the
\* connections deliver and whatever the dapps do.
LEMMA InvStep ==
  ASSUME XcallInv, [XcallNext]_xcallVars
  PROVE  XcallInv'
<1>1. XcallTypeOK'
  BY TypingStep, Zenon DEF XcallInv
<1>2. CASE UNCHANGED xcallVars
  BY <1>1, <1>2, IdlePreserves, Zenon DEF xcallVars, stateVars, history
<1>3. CASE XcallNext
  <2>1. PICK c \in Chain :
           \/ \E to \in Chain, type \in MsgType, src, dst \in Protocols :
                SendStep(c, to, type, src, dst)
           \/ \E src \in Chain, k \in Conn, req \in Request :
                \/ HandleRequestPending(c, src, k, req)
                \/ HandleRequest(c, src, k, req)
           \/ \E k \in Conn, res \in Result :
                \/ HandleResultPending(c, k, res)
                \/ HandleResultSuccess(c, k, res)
                \/ HandleResultFailure(c, k, res)
           \/ \E id \in ReqIds : ExecuteCall(c, id)
           \/ ExecuteCallReplyOk(c)
           \/ \E id \in ReqIds : ExecuteCallReplyErr(c, id)
           \/ \E s \in Sns : ExecuteRollback(c, s)
           \/ \E nid \in Chain, k \in Conn : SetDefaultConnection(c, nid, k)
    BY <1>3, Actions, Zenon
  <2>2. CASE \E to \in Chain, type \in MsgType, src, dst \in Protocols :
               SendStep(c, to, type, src, dst)
    BY <1>1, <2>2, SendPreserves, Zenon
  <2>3. CASE \E src \in Chain, k \in Conn, req \in Request :
               \/ HandleRequestPending(c, src, k, req)
               \/ HandleRequest(c, src, k, req)
    BY <1>1, <2>3, RequestPendingPreserves, RequestPreserves, Zenon
  <2>4. CASE \E k \in Conn, res \in Result :
               \/ HandleResultPending(c, k, res)
               \/ HandleResultSuccess(c, k, res)
               \/ HandleResultFailure(c, k, res)
    BY <1>1, <2>4, ResultPendingPreserves, ResultSuccessPreserves,
       ResultFailurePreserves, Zenon
  <2>5. CASE \E id \in ReqIds : ExecuteCall(c, id)
    BY <1>1, <2>5, ExecutePreserves, Zenon
  <2>6. CASE ExecuteCallReplyOk(c)
    <3>1. executeRequestId[c] \in ReqIds /\ Success \in Code
      <4>1. executeRequestId[c] \in 0..MaxReqId /\ executeRequestId[c] # 0
        BY <2>6, Zenon DEF ExecuteCallReplyOk, XcallInv, XcallTypeOK
      <4> QED
        BY <4>1, XcallAssumption DEF ReqIds, Code, Success
    <3>2. PICK id \in ReqIds : id = executeRequestId[c]
      BY <3>1, Zenon
    <3>3. proxyRequest[c][id] # None /\ FinishCall(c, id, Success)
      BY <2>6, <3>2, Zenon DEF ExecuteCallReplyOk, XcallInv, RequestsById
    <3> QED
      BY <1>1, <3>1, <3>3, FinishPreserves, Zenon
  <2>7. CASE \E id \in ReqIds : ExecuteCallReplyErr(c, id)
    <3>1. Failure \in Code
      BY Zenon DEF Code, Failure
    <3>2. PICK id \in ReqIds : ExecuteCallReplyErr(c, id)
      BY <2>7, Zenon
    <3>3. proxyRequest[c][id] # None /\ FinishCall(c, id, Failure)
      BY <3>2, Zenon DEF ExecuteCallReplyErr
    <3> QED
      BY <1>1, <3>1, <3>3, FinishPreserves, Zenon
  <2>8. CASE \E s \in Sns : ExecuteRollback(c, s)
    BY <1>1, <2>8, RollbackPreserves, Zenon
  <2>9. CASE \E nid \in Chain, k \in Conn : SetDefaultConnection(c, nid, k)
    BY <1>1, <2>9, IdlePreserves, Zenon DEF SetDefaultConnection, history
  <2> QED
    BY <2>1, <2>2, <2>3, <2>4, <2>5, <2>6, <2>7, <2>8, <2>9, Zenon
<1> QED
  BY <1>2, <1>3, Zenon

\* The invariant holds in every state of the contract on every chain, for
\* any chains, connections and protocol lists and any bounds.
THEOREM XcallInvariance == XcallSpec => []XcallInv
<1>1. XcallInit => XcallInv
  BY InvInit, Zenon
<1>2. XcallInv /\ [XcallNext]_xcallVars => XcallInv'
  BY InvStep, Zenon
<1> QED
  BY <1>1, <1>2, PTL DEF XcallSpec

\* The contract's state is well typed: in particular execute_call_reply
\* always finds the request whose execution it ends.
THEOREM XcallTyping == XcallSpec => []XcallTypeOK
<1>1. XcallInv => XcallTypeOK
  BY Zenon DEF XcallInv
<1> QED
  BY <1>1, XcallInvariance, PTL

\* handle_request and handle_result admit a request only when every protocol
\* of its list delivered it.
THEOREM RequestsAreEndorsed == XcallSpec => []RequestsEndorsed
<1>1. XcallInv => RequestsEndorsed
  BY Zenon DEF XcallInv
<1> QED
  BY <1>1, XcallInvariance, PTL

\* handle_result marks a call successful, and execute_rollback runs, only on
\* one result that every connection of the call delivered.
THEOREM SettlementIsEndorsed == XcallSpec => []SettlementEndorsed
<1>1. XcallInv => SettlementEndorsed
  BY Zenon DEF XcallInv
<1> QED
  BY <1>1, XcallInvariance, PTL

\* A call is marked successful or rolled back, once, and never both.
THEOREM CallsSettleOnce == XcallSpec => []SettledOnce
<1>1. XcallInv => SettledOnce
  BY Zenon DEF XcallInv
<1> QED
  BY <1>1, XcallInvariance, PTL

\* No request id is executed twice.
THEOREM RequestsExecuteOnce == XcallSpec => []ExecutedOnce
<1>1. XcallInv => ExecutedOnce
  BY Zenon DEF XcallInv
<1> QED
  BY <1>1, XcallInvariance, PTL



-----------------------------------------------------------------------------
(***************************************************************************)
(* Second part: the system                                                 *)
(***************************************************************************)
\* A two-way request at c, or on its way there, is that of a call to c.
Called(c, req) ==
  req.type = TwoWay =>
    calls[req.from][req.sn] # None /\ calls[req.from][req.sn].to = c

\* The call was sent and ran with the given code.
Ran(c, s, code) == calls[c][s] # None /\ ExecutedWith(c, s, code)

\* Requests under way were sent by the chain that they come from.
TrueRequest(e) ==
  /\ e.msg.payload.from = e.src
  /\ e.msg.payload.sn <= sn[e.src]
  /\ Called(e.dst, e.msg.payload)

RequestEvents ==
  \A e \in messages : e.msg.type = "CSMessageRequest" => TrueRequest(e)

\* Results under way tell what happened; replies are never two-way.
TrueResult(e) ==
  /\ Ran(e.dst, e.msg.payload.sn, e.msg.payload.code)
  /\ e.msg.payload.reply # None => e.msg.payload.reply.type # TwoWay

ResultEvents ==
  \A e \in messages : e.msg.type = "CSMessageResult" => TrueResult(e)

\* The same of the requests and the reply that a chain stores.
StoredRequests ==
  \A c \in Chain :
    /\ \A id \in ReqIds :
         proxyRequest[c][id] # None => Called(c, proxyRequest[c][id])
    /\ callReply[c] # None => callReply[c].type # TwoWay

\* While c executes a request, the result can be sent: nobody takes away the
\* default connection meanwhile.
RouteKept ==
  \A c \in Chain : executeRequestId[c] # 0 =>
    CanRespond(c, proxyRequest[c][executeRequestId[c]])

\* A result that a chain heard tells what happened, or is the error that the
\* admin of the connection reported.
TrueHeard(c, m, k) ==
  \/ Ran(c, m.payload.sn, m.payload.code)
  \/ m.payload.code = Failure /\ <<k, m.payload.sn>> \in reverted[c]

HeardResults ==
  \A c \in Chain : \A m \in CSMessage, k \in Conn :
    <<m, k>> \in heard[c] /\ m.type = "CSMessageResult" => TrueHeard(c, m, k)

\* The inductive invariant.
SysInv ==
  /\ XcallInv
  /\ TypeOK
  /\ RequestEvents
  /\ ResultEvents
  /\ StoredRequests
  /\ RouteKept
  /\ HeardResults

-----------------------------------------------------------------------------
(***************************************************************************)
(* The system is an instance of the open call service                      *)
(***************************************************************************)

\* Every step of the system is a step of the call services.
LEMMA StepSimulates ==
  ASSUME TypeOK, [Next]_sysVars
  PROVE  [XcallNext]_xcallVars
<1>1. CASE UNCHANGED sysVars
  BY <1>1, Zenon DEF sysVars
<1>2. CASE Next
  <2>1. PICK c \in Chain :
          \/ \E to \in Chain \ {c}, type \in MsgType, src, dst \in Protocols :
               \/ Send(c, to, type, src, dst)
               \/ Reply(c, to, type, src, dst)
          \/ \E e \in messages : Deliver(c, e)
          \/ \E k \in Reverters, s \in Sns : RevertMessage(c, k, s)
          \/ \E id \in ReqIds : Execute(c, id)
          \/ ExecutionOk(c)
          \/ \E id \in ReqIds : ExecutionErr(c, id)
          \/ \E s \in Sns : RunRollback(c, s)
          \/ \E nid \in Chain \ {c}, k \in DefaultConns : SetDefault(c, nid, k)
    BY <1>2, Zenon DEF Next
  <2>2. CASE \E to \in Chain \ {c}, type \in MsgType, src, dst \in Protocols :
               \/ Send(c, to, type, src, dst)
               \/ Reply(c, to, type, src, dst)
    BY <2>2, Zenon DEF Send, Reply, XcallNext
  <2>3. CASE \E e \in messages : Deliver(c, e)
    <3>1. PICK e \in messages : Deliver(c, e)
      BY <2>3, Zenon
    <3>2. e.src \in Chain /\ e.conn \in Conn /\ e.msg \in CSMessage
      BY Zenon DEF TypeOK, ConnTypeOK, Event
    <3>3. HandleMessage(c, e.src, e.conn, e.msg)
      BY <3>1, Zenon DEF Deliver
    <3> QED
      BY <3>2, <3>3, Zenon DEF XcallNext
  <2>4. CASE \E k \in Reverters, s \in Sns : RevertMessage(c, k, s)
    <3>1. PICK k \in Reverters, s \in Sns : RevertMessage(c, k, s)
      BY <2>4, Zenon
    <3>2. k \in Conn /\ HandleError(c, k, s)
      BY <3>1, SystemAssumption, Zenon DEF RevertMessage
    <3> QED
      BY <3>2, Zenon DEF XcallNext
  <2>5. CASE \/ \E id \in ReqIds : Execute(c, id)
             \/ ExecutionOk(c)
             \/ \E id \in ReqIds : ExecutionErr(c, id)
             \/ \E s \in Sns : RunRollback(c, s)
    BY <2>5, Zenon
       DEF Execute, ExecutionOk, ExecutionErr, RunRollback, XcallNext
  <2>6. CASE \E nid \in Chain \ {c}, k \in DefaultConns : SetDefault(c, nid, k)
    <3>1. PICK nid \in Chain \ {c}, k \in DefaultConns : SetDefault(c, nid, k)
      BY <2>6, Zenon
    <3>2. nid \in Chain /\ k \in Conn /\ SetDefaultConnection(c, nid, k)
      BY <3>1, SystemAssumption, Zenon DEF SetDefault
    <3> QED
      BY <3>2, Zenon DEF XcallNext
  <2> QED
    BY <2>1, <2>2, <2>3, <2>4, <2>5, <2>6, Zenon
<1> QED
  BY <1>1, <1>2, Zenon

-----------------------------------------------------------------------------
(***************************************************************************)
(* What holds of a call keeps holding                                      *)
(***************************************************************************)

\* A step keeps what was sent, executed and reverted.
Grows ==
  /\ \A c \in Chain : \A s \in Sns :
       calls[c][s] # None => calls'[c][s] = calls[c][s]
  /\ \A c \in Chain : executed[c] \subseteq executed'[c]
  /\ \A c \in Chain : reverted[c] \subseteq reverted'[c]
  /\ \A c \in Chain : sn[c] \in Nat /\ sn'[c] \in Nat /\ sn[c] <= sn'[c]

\* A two-way request stays one of its call.
LEMMA CalledKept ==
  ASSUME Grows, NEW c, NEW req \in Request, Called(c, req)
  PROVE  Called(c, req)'
<1>1. req.from \in Chain /\ req.sn \in Sns
  BY Zenon DEF Request
<1> QED
  BY <1>1, Zenon DEF Called, Grows

\* A call that ran stays a call that ran.
LEMMA RanKept ==
  ASSUME TypeOK, Grows, NEW c \in Chain, NEW s \in Sns, NEW code,
         Ran(c, s, code)
  PROVE  Ran(c, s, code)'
<1>1. calls[c][s] # None /\ calls[c][s] \in Call
  BY DEF TypeOK, XcallTypeOK, Ran
<1>2. calls[c][s].to \in Chain /\ calls'[c][s] = calls[c][s]
  BY <1>1, Zenon DEF Call, Grows
<1>3. PICK x \in executed[calls[c][s].to] :
        x[2].from = c /\ x[2].sn = s /\ x[3] = code
  BY Zenon DEF Ran, ExecutedWith
<1>4. x \in executed'[calls'[c][s].to]
  BY <1>2, <1>3, Zenon DEF Grows
<1> QED
  BY <1>1, <1>2, <1>3, <1>4, Zenon DEF Ran, ExecutedWith

\* Events stay as the invariant says if the new ones are.
LEMMA RequestEventsKept ==
  ASSUME TypeOK, RequestEvents, Grows,
         \A e \in messages' : \/ e \in messages
                              \/ e.msg.type # "CSMessageRequest"
                              \/ TrueRequest(e)'
  PROVE  RequestEvents'
<1> SUFFICES ASSUME NEW e \in messages, e.msg.type = "CSMessageRequest"
             PROVE  TrueRequest(e)'
  BY Zenon DEF RequestEvents
<1>1. e.src \in Chain /\ e.msg \in CSMessage
  BY Zenon DEF TypeOK, ConnTypeOK, Event
<1>2. e.msg.payload \in Request
  BY <1>1, Payloads, Zenon
<1>3. /\ e.msg.payload.from = e.src
      /\ e.msg.payload.sn <= sn[e.src]
      /\ Called(e.dst, e.msg.payload)
  BY Zenon DEF RequestEvents, TrueRequest
<1>4. Called(e.dst, e.msg.payload)'
  BY <1>2, <1>3, CalledKept, Zenon
<1>5. e.msg.payload.sn \in Nat
  BY <1>2, XcallAssumption DEF Request, Sns
<1>6. e.msg.payload.sn <= sn'[e.src]
  BY <1>1, <1>3, <1>5 DEF Grows
<1> QED
  BY <1>3, <1>4, <1>6, Zenon DEF TrueRequest

LEMMA ResultEventsKept ==
  ASSUME TypeOK, ResultEvents, Grows,
         \A e \in messages' : \/ e \in messages
                              \/ e.msg.type # "CSMessageResult"
                              \/ TrueResult(e)'
  PROVE  ResultEvents'
<1> SUFFICES ASSUME NEW e \in messages, e.msg.type = "CSMessageResult"
             PROVE  TrueResult(e)'
  BY Zenon DEF ResultEvents
<1>1. e.dst \in Chain /\ e.msg \in CSMessage
  BY Zenon DEF TypeOK, ConnTypeOK, Event
<1>2. e.msg.payload.sn \in Sns
  BY <1>1, Payloads, Zenon DEF Result
<1>3. /\ Ran(e.dst, e.msg.payload.sn, e.msg.payload.code)
      /\ e.msg.payload.reply # None => e.msg.payload.reply.type # TwoWay
  BY Zenon DEF ResultEvents, TrueResult
<1>4. Ran(e.dst, e.msg.payload.sn, e.msg.payload.code)'
  BY <1>1, <1>2, <1>3, RanKept, Zenon
<1> QED
  BY <1>3, <1>4, Zenon DEF TrueResult

\* So do stored requests and the reply.
LEMMA StoredRequestsKept ==
  ASSUME TypeOK, StoredRequests, Grows,
         \A c \in Chain : \A id \in ReqIds :
           \/ proxyRequest'[c][id] \in {None, proxyRequest[c][id]}
           \/ Called(c, proxyRequest[c][id])',
         \A c \in Chain : \/ callReply'[c] \in {None, callReply[c]}
                          \/ callReply'[c].type # TwoWay
  PROVE  StoredRequests'
<1> SUFFICES ASSUME NEW c \in Chain
             PROVE  /\ \A id \in ReqIds : proxyRequest'[c][id] # None =>
                         Called(c, proxyRequest[c][id])'
                    /\ callReply'[c] # None => callReply'[c].type # TwoWay
  BY Zenon DEF StoredRequests
<1>1. callReply'[c] # None => callReply'[c].type # TwoWay
  BY Zenon DEF StoredRequests
<1>2. ASSUME NEW id \in ReqIds, proxyRequest'[c][id] # None,
             ~Called(c, proxyRequest[c][id])'
      PROVE  FALSE
  <2>1. /\ proxyRequest'[c][id] = proxyRequest[c][id]
        /\ proxyRequest[c][id] \in Request
        /\ Called(c, proxyRequest[c][id])
    BY <1>2 DEF TypeOK, XcallTypeOK, StoredRequests
  <2>2. PICK req \in Request : req = proxyRequest[c][id]
    BY <2>1, Zenon
  <2>3. Called(c, req)'
    BY <2>1, <2>2, CalledKept, Zenon
  <2> QED
    BY <1>2, <2>1, <2>2, <2>3, Zenon
<1> QED
  BY <1>1, <1>2, Zenon

\* The route of an execution stays while it and the default connections do.
LEMMA RouteKeptFrame ==
  ASSUME RouteKept,
         \A c \in Chain : executeRequestId'[c] # 0 =>
           /\ executeRequestId'[c] = executeRequestId[c]
           /\ proxyRequest'[c] = proxyRequest[c]
           /\ defaultConnections'[c] = defaultConnections[c]
  PROVE  RouteKept'
BY Zenon DEF RouteKept, CanRespond, HasRoute, Confirmed

\* What was heard stays true if what is new is.
LEMMA HeardResultsKept ==
  ASSUME TypeOK, HeardResults, Grows,
         \A c \in Chain : \A m \in CSMessage, k \in Conn :
           <<m, k>> \in heard'[c] =>
             \/ <<m, k>> \in heard[c]
             \/ m.type # "CSMessageResult"
             \/ TrueHeard(c, m, k)'
  PROVE  HeardResults'
<1> SUFFICES ASSUME NEW c \in Chain, NEW m \in CSMessage, NEW k \in Conn,
                    <<m, k>> \in heard[c], m.type = "CSMessageResult"
             PROVE  TrueHeard(c, m, k)'
  BY Zenon DEF HeardResults
<1>1. m.payload.sn \in Sns
  BY Payloads, Zenon DEF Result
<1>2. \/ Ran(c, m.payload.sn, m.payload.code)
      \/ m.payload.code = Failure /\ <<k, m.payload.sn>> \in reverted[c]
  BY Zenon DEF HeardResults, TrueHeard
<1>3. Ran(c, m.payload.sn, m.payload.code) =>
        Ran(c, m.payload.sn, m.payload.code)'
  BY <1>1, RanKept, Zenon
<1> QED
  BY <1>2, <1>3, Zenon DEF Grows, TrueHeard

-----------------------------------------------------------------------------
(***************************************************************************)
(* Sending                                                                 *)
(***************************************************************************)

LEMMA RouteIsList ==
  ASSUME NEW p \in Routes
  PROVE  p \in Seq(Conn)
<1>1. Protocols \subseteq Seq(Conn)
  BY XcallAssumption, Zenon
<1>2. \A k \in Conn : <<k>> \in Seq(Conn)
  OBVIOUS
<1> QED
  BY <1>1, <1>2, Zenon DEF Routes

\* A list with a route is one of connections, or the default one.
LEMMA ConfirmedList ==
  ASSUME XcallTypeOK, NEW c \in Chain, NEW nid \in Chain,
         NEW p \in Protocols, HasRoute(c, nid, p)
  PROVE  Confirmed(c, nid, p) \in Routes
<1>1. CASE p = <<>>
  <2>1. defaultConnections[c][nid] \in Conn \cup {None}
    BY DEF XcallTypeOK
  <2>2. Confirmed(c, nid, p) = <<defaultConnections[c][nid]>>
    BY <1>1, Zenon DEF Confirmed
  <2>3. defaultConnections[c][nid] # None
    BY <2>2 DEF HasRoute, Range
  <2> QED
    BY <2>1, <2>2, <2>3, Zenon DEF Routes
<1>2. CASE p # <<>>
  BY <1>2, Zenon DEF Confirmed, Routes
<1> QED
  BY <1>1, <1>2, Zenon

\* How often a message goes over a connection is a number.
LEMMA UsesNat ==
  ASSUME NEW conns \in Routes, NEW k, NEW n \in 0..Len(conns)
  PROVE  Uses(k, conns, n) \in Nat
<1>1. conns \in Seq(Conn)
  BY RouteIsList, Zenon
<1>2. {i \in 1..n : conns[i] = k} \in SUBSET (DOMAIN conns)
  BY <1>1
<1> QED
  BY <1>2, CountingAssumption, Zenon DEF Countable, Uses

\* send_message emits the message on connections of the list.
LEMMA SendMessageEvents ==
  ASSUME ConnTypeOK, NEW c \in Chain, NEW to \in Chain, NEW conns \in Routes,
         NEW m \in CSMessage, SendMessage(c, to, conns, m)
  PROVE  /\ ConnTypeOK'
         /\ \A e \in messages' : \/ e \in messages
                                 \/ e.src = c /\ e.dst = to /\ e.msg = m
<1>1. /\ conns \in [1..Len(conns) -> Conn]
      /\ Len(conns) \in Nat
      /\ DOMAIN conns = 1..Len(conns)
  BY RouteIsList
<1>2. \A k \in Conn : Uses(k, conns, Len(conns)) \in Nat
  BY <1>1, UsesNat
<1>3. \A i \in DOMAIN conns : Uses(conns[i], conns, i) \in Nat
  BY <1>1, UsesNat
<1>4. connSn' \in [Chain -> [Conn -> Nat]]
  BY <1>2 DEF ConnTypeOK, SendMessage
<1> DEFINE event(i) ==
      [conn |-> conns[i], src |-> c, dst |-> to, msg |-> m,
       connSn |-> connSn[c][conns[i]] + Uses(conns[i], conns, i)]
<1>5. messages' = messages \cup {event(i) : i \in DOMAIN conns}
  BY Zenon DEF SendMessage
<1>6. \A i \in DOMAIN conns : event(i) \in Event
  BY <1>1, <1>3 DEF Event, ConnTypeOK
<1>7. ConnTypeOK'
  BY <1>4, <1>5, <1>6, Zenon DEF ConnTypeOK, SendMessage
<1>8. \A i \in DOMAIN conns :
        event(i).src = c /\ event(i).dst = to /\ event(i).msg = m
  BY Zenon
<1> HIDE DEF event
<1> QED
  BY <1>5, <1>7, <1>8, Zenon

\* What the actions may disturb, beside the invariant of the call services.
SysRest ==
  /\ ConnTypeOK
  /\ reverted \in [Chain -> SUBSET (Conn \X Sns)]
  /\ RequestEvents
  /\ ResultEvents
  /\ StoredRequests
  /\ RouteKept
  /\ HeardResults

\* send_call numbers its message anew, so that it changes no other call.
LEMMA StoreCallGrows ==
  ASSUME XcallInv, XcallTypeOK', NEW c \in Chain, NEW to \in Chain,
         NEW type \in MsgType, NEW src \in Protocols,
         StoreCall(c, to, type, src), UNCHANGED reverted
  PROVE  Grows /\ sn'[c] = NextSn(c) /\ NextSn(c) \in Sns
<1>1. /\ XcallTypeOK /\ CallsBySn
      /\ NextSn(c) \in Sns
      /\ sn' = [sn EXCEPT ![c] = NextSn(c)]
      /\ UNCHANGED executed
      /\ \/ UNCHANGED calls
         \/ calls' = [calls EXCEPT ![c][NextSn(c)] =
                        [to |-> to, protocols |-> src]]
  BY Zenon DEF XcallInv, StoreCall
<1>2. /\ \A d \in Chain : sn[d] \in Nat /\ sn'[d] \in Nat
      /\ sn'[c] = sn[c] + 1
      /\ \A d \in Chain : d # c => sn'[d] = sn[d]
  BY <1>1, XcallAssumption DEF XcallTypeOK, NextSn
<1>3. \A d \in Chain : \A s \in Sns :
        calls[d][s] # None => s <= sn[d] /\ s \in Nat
  BY <1>1, XcallAssumption DEF CallsBySn, Sns
<1>4. \A d \in Chain : \A s \in Sns :
        calls[d][s] # None => ~(d = c /\ s = NextSn(c))
  BY <1>2, <1>3 DEF NextSn
<1>5. calls \in [Chain -> [Sns -> Call \cup {None}]]
  BY <1>1, Zenon DEF XcallTypeOK
<1>6. \A d \in Chain : \A s \in Sns :
        calls[d][s] # None => calls'[d][s] = calls[d][s]
  BY <1>1, <1>4, <1>5
<1> QED
  BY <1>1, <1>2, <1>6 DEF Grows

\* A user or a dapp sends a message.
LEMMA SendKeeps ==
  ASSUME SysInv, XcallTypeOK', NEW c \in Chain, NEW to \in Chain,
         NEW type \in MsgType, NEW src \in Protocols, NEW dst \in Protocols,
         Send(c, to, type, src, dst)
  PROVE  SysRest'
<1> DEFINE req == CallRequest(c, type, dst)
<1>1. /\ HasRoute(c, to, src)
      /\ StoreCall(c, to, type, src)
      /\ SendMessage(c, to, Confirmed(c, to, src), CSRequest(req))
      /\ UNCHANGED <<callReply, proxyRequest, executeRequestId,
                     defaultConnections, heard, reverted>>
  BY Zenon DEF Send, SendCall, StoreCall
<1>2. XcallInv /\ TypeOK /\ XcallTypeOK /\ ConnTypeOK
  BY Zenon DEF SysInv, TypeOK
<1>3. Grows /\ sn'[c] = NextSn(c) /\ NextSn(c) \in Sns
  BY <1>1, <1>2, StoreCallGrows, Zenon
<1>4. req \in Request /\ CSRequest(req) \in CSMessage
  BY <1>3, MessageTypes, Zenon DEF CallRequest, Request
<1>5. Confirmed(c, to, src) \in Routes
  BY <1>1, <1>2, ConfirmedList, Zenon
<1>6. /\ ConnTypeOK'
      /\ \A e \in messages' :
           \/ e \in messages
           \/ e.src = c /\ e.dst = to /\ e.msg = CSRequest(req)
  BY <1>1, <1>2, <1>4, <1>5, SendMessageEvents, Zenon
<1>7. PICK r \in Request : r = req
  BY <1>4, Zenon
<1>8. r.from = c /\ r.sn = NextSn(c) /\ r.type = type
  BY <1>7, Zenon DEF CallRequest
<1>9. Called(to, r)'
  <2>1. SUFFICES ASSUME type = TwoWay
                 PROVE  calls'[c][NextSn(c)] # None /\ calls'[c][NextSn(c)].to = to
    BY <1>8, Zenon DEF Called
  <2>2. calls' = [calls EXCEPT ![c][NextSn(c)] = [to |-> to, protocols |-> src]]
    BY <1>1, <2>1, Zenon DEF StoreCall
  <2>3. calls'[c][NextSn(c)] = [to |-> to, protocols |-> src]
    BY <1>2, <1>3, <2>2 DEF XcallTypeOK
  <2> QED
    BY <2>3, XcallAssumption DEF Call
<1>10. \A e : e.src = c /\ e.dst = to /\ e.msg = CSRequest(r) =>
         TrueRequest(e)' /\ e.msg.type = "CSMessageRequest"
  BY <1>3, <1>8, <1>9, XcallAssumption DEF TrueRequest, CSRequest, Sns
<1>11. RequestEvents'
  BY <1>2, <1>3, <1>6, <1>7, <1>10, RequestEventsKept, Zenon DEF SysInv
<1>12. ResultEvents'
  BY <1>2, <1>3, <1>6, <1>7, <1>10, ResultEventsKept, Zenon DEF SysInv
<1>13. StoredRequests' /\ RouteKept' /\ HeardResults'
  BY <1>1, <1>2, <1>3, StoredRequestsKept, RouteKeptFrame,
     HeardResultsKept, Zenon
     DEF SysInv
<1> QED
  BY <1>1, <1>6, <1>11, <1>12, <1>13, Zenon DEF SysRest, SysInv, TypeOK

\* The dapp that is being executed sends its reply.
LEMMA ReplyKeeps ==
  ASSUME SysInv, XcallTypeOK', NEW c \in Chain, NEW to \in Chain,
         NEW type \in MsgType, NEW src \in Protocols, NEW dst \in Protocols,
         Reply(c, to, type, src, dst)
  PROVE  SysRest'
<1>1. /\ type # TwoWay
      /\ StoreCall(c, to, type, src)
      /\ callReply' = [callReply EXCEPT ![c] = CallRequest(c, type, dst)]
      /\ UNCHANGED <<proxyRequest, executeRequestId, defaultConnections, heard,
                     connVars, reverted>>
  BY Zenon DEF Reply, SendReply, StoreCall
<1>2. XcallInv /\ TypeOK /\ XcallTypeOK
  BY Zenon DEF SysInv, TypeOK
<1>3. Grows
  BY <1>1, <1>2, StoreCallGrows, Zenon
<1>4. \A d \in Chain : \/ callReply'[d] \in {None, callReply[d]}
                       \/ callReply'[d].type # TwoWay
  BY <1>1, <1>2, ZenonT(20) DEF XcallTypeOK, CallRequest
<1>5. StoredRequests' /\ RouteKept' /\ HeardResults'
  BY <1>1, <1>2, <1>3, <1>4, StoredRequestsKept, RouteKeptFrame,
     HeardResultsKept, Zenon DEF SysInv
<1>6. RequestEvents' /\ ResultEvents'
  BY <1>1, <1>2, <1>3, RequestEventsKept, ResultEventsKept, Zenon
     DEF SysInv, connVars
<1> QED
  BY <1>1, <1>5, <1>6, Zenon DEF SysRest, SysInv, TypeOK, ConnTypeOK, connVars

-----------------------------------------------------------------------------
(***************************************************************************)
(* Receiving                                                               *)
(***************************************************************************)

\* Steps that send no message and execute none keep all that was.
LEMMA QuietGrows ==
  ASSUME TypeOK, UNCHANGED <<sn, calls, executed>>,
         \A c \in Chain : reverted[c] \subseteq reverted'[c]
  PROVE  Grows
BY XcallAssumption DEF Grows, TypeOK, XcallTypeOK

\* One delivery more is heard.
LEMMA HearNew ==
  ASSUME XcallTypeOK, NEW c \in Chain, NEW k, NEW m, Hear(c, k, m)
  PROVE  \A d \in Chain : \A n, q :
           <<n, q>> \in heard'[d] =>
             <<n, q>> \in heard[d] \/ (d = c /\ n = m /\ q = k)
BY Zenon DEF XcallTypeOK, Hear

\* A new proxy request that is that of a call, or not two-way.
LEMMA StoreProxyRequestCalled ==
  ASSUME XcallTypeOK, NEW c \in Chain, NEW req \in Request,
         StoreProxyRequest(c, req), Called(c, req)'
  PROVE  /\ \A d \in Chain : \A id \in ReqIds :
              \/ proxyRequest'[d][id] \in {None, proxyRequest[d][id]}
              \/ Called(d, proxyRequest[d][id])'
         /\ \A d \in Chain : d # c => proxyRequest'[d] = proxyRequest[d]
<1>1. PICK id \in ReqIds :
        proxyRequest' = [proxyRequest EXCEPT ![c][id] = req]
  BY Zenon DEF StoreProxyRequest
<1>2. proxyRequest \in [Chain -> [ReqIds -> Request \cup {None}]]
  BY Zenon DEF XcallTypeOK
<1>3. /\ proxyRequest'[c][id] = req
      /\ \A d \in Chain : d # c => proxyRequest'[d] = proxyRequest[d]
      /\ \A i \in ReqIds : i # id => proxyRequest'[c][i] = proxyRequest[c][i]
  BY <1>1, <1>2, Zenon
<1>4. Called(c, proxyRequest[c][id])'
  BY <1>3, Zenon
<1> QED
  BY <1>3, <1>4, Zenon

\* A new proxy request is another than the one being executed, whose route
\* stays.
LEMMA RouteKeptStore ==
  ASSUME XcallInv, RouteKept, NEW c \in Chain, NEW req,
         StoreProxyRequest(c, req),
         UNCHANGED <<executeRequestId, defaultConnections>>
  PROVE  RouteKept'
<1>1. PICK id \in ReqIds :
        /\ id = lastRequestId[c] + 1
        /\ proxyRequest' = [proxyRequest EXCEPT ![c][id] = req]
  BY Zenon DEF StoreProxyRequest
<1>2. /\ proxyRequest \in [Chain -> [ReqIds -> Request \cup {None}]]
      /\ lastRequestId \in [Chain -> 0..MaxReqId]
      /\ RequestsById
  BY Zenon DEF XcallInv, XcallTypeOK
<1>3. proxyRequest[c][id] = None
  <2>1. ~(id <= lastRequestId[c])
    BY <1>1, <1>2, XcallAssumption
  <2> QED
    BY <1>2, <2>1, Zenon DEF RequestsById
<1>4. ASSUME NEW d \in Chain, executeRequestId[d] # 0
      PROVE  proxyRequest'[d][executeRequestId[d]]
               = proxyRequest[d][executeRequestId[d]]
  <2>1. proxyRequest[d][executeRequestId[d]] # None
    BY <1>2, <1>4, Zenon DEF RequestsById
  <2>2. CASE d = c
    BY <1>1, <1>2, <1>3, <2>1, <2>2
  <2>3. CASE d # c
    BY <1>1, <1>2, <2>3
  <2> QED
    BY <2>2, <2>3
<1> QED
  BY <1>4, Zenon DEF RouteKept, CanRespond, HasRoute, Confirmed

\* recv_message stores a receipt and sends nothing.
LEMMA RecvMessageType ==
  ASSUME ConnTypeOK, NEW c \in Chain, NEW e \in messages, RecvMessage(c, e)
  PROVE  ConnTypeOK' /\ UNCHANGED <<connSn, messages>> /\ e.dst = c
<1>1. e \in Event
  BY Zenon DEF ConnTypeOK
<1> QED
  BY <1>1 DEF ConnTypeOK, RecvMessage, Event

\* The relayer delivers a request.
LEMMA DeliverRequestKeeps ==
  ASSUME SysInv, XcallTypeOK', NEW c \in Chain, NEW e \in messages,
         Deliver(c, e), e.msg.type = "CSMessageRequest"
  PROVE  SysRest'
<1>1. XcallInv /\ TypeOK /\ XcallTypeOK /\ ConnTypeOK
  BY Zenon DEF SysInv, TypeOK
<1>2. e.msg \in CSMessage
  BY <1>1, Zenon DEF ConnTypeOK, Event
<1>3. PICK req \in Request : req = e.msg.payload
  BY <1>2, Payloads, Zenon
<1>4. ConnTypeOK' /\ UNCHANGED <<connSn, messages, reverted>> /\ e.dst = c
  BY <1>1, RecvMessageType, Zenon DEF Deliver
<1>5. \/ HandleRequestPending(c, e.src, e.conn, req)
      \/ HandleRequest(c, e.src, e.conn, req)
  BY <1>3, Zenon DEF Deliver, HandleMessage
<1>6. /\ Hear(c, e.conn, CSRequest(req))
      /\ UNCHANGED <<sn, executeRequestId, callReply, defaultConnections,
                     executed, calls>>
      /\ UNCHANGED proxyRequest \/ StoreProxyRequest(c, req)
  BY <1>5, ZenonT(30) DEF HandleRequestPending, HandleRequest, RequestAccepted
<1>7. Grows
  BY <1>1, <1>4, <1>6, QuietGrows, Zenon
<1>8. Called(c, req)'
  BY <1>3, <1>4, <1>7, CalledKept, Zenon
     DEF SysInv, RequestEvents, TrueRequest
<1>9. /\ \A d \in Chain : \A id \in ReqIds :
           \/ proxyRequest'[d][id] \in {None, proxyRequest[d][id]}
           \/ Called(d, proxyRequest[d][id])'
      /\ \A d \in Chain : d # c => proxyRequest'[d] = proxyRequest[d]
  <2>1. CASE UNCHANGED proxyRequest
    BY <2>1, Zenon
  <2>2. CASE StoreProxyRequest(c, req)
    BY <1>1, <1>8, <2>2, StoreProxyRequestCalled, Zenon
  <2> QED
    BY <1>6, <2>1, <2>2, Zenon
<1>10. StoredRequests'
  BY <1>1, <1>6, <1>7, <1>9, StoredRequestsKept, Zenon DEF SysInv
<1>11. RouteKept'
  <2>1. CASE UNCHANGED proxyRequest
    BY <1>6, <2>1, RouteKeptFrame, Zenon DEF SysInv
  <2>2. CASE StoreProxyRequest(c, req)
    BY <1>6, <2>2, RouteKeptStore, Zenon DEF SysInv
  <2> QED
    BY <1>6, <2>1, <2>2, Zenon
<1>12. HeardResults'
  <2>1. \A d \in Chain : \A m \in CSMessage, k \in Conn :
          <<m, k>> \in heard'[d] =>
            <<m, k>> \in heard[d] \/ m.type # "CSMessageResult"
    BY <1>1, <1>6, HearNew DEF CSRequest
  <2> QED
    BY <1>1, <1>7, <2>1, HeardResultsKept, Zenon DEF SysInv
<1>13. RequestEvents' /\ ResultEvents'
  BY <1>1, <1>4, <1>7, RequestEventsKept, ResultEventsKept, Zenon DEF SysInv
<1> QED
  BY <1>4, <1>10, <1>11, <1>12, <1>13, Zenon DEF SysRest, SysInv, TypeOK

\* The cases of handle_result: what they hear and what they leave alone.
LEMMA ResultSteps ==
  ASSUME NEW c \in Chain, NEW k \in Conn, NEW res \in Result,
         HandleResult(c, k, res)
  PROVE  /\ Hear(c, k, CSResult(res))
         /\ UNCHANGED <<sn, executeRequestId, callReply, defaultConnections,
                        executed, calls>>
         /\ \/ UNCHANGED proxyRequest
            \/ /\ res.reply # None
               /\ HandleResultSuccess(c, k, res)
               /\ HandleReply(c, callRequests[c][res.sn], res.reply)
BY Zenon DEF HandleResult, HandleResultPending, HandleResultSuccess,
       HandleResultFailure, ResultAccepted

\* What a result leaves to be shown once what it says is true.
LEMMA ResultKeeps ==
  ASSUME SysInv, NEW c \in Chain, NEW k \in Conn, NEW res \in Result,
         HandleResult(c, k, res), TrueHeard(c, CSResult(res), k)',
         res.reply # None => res.reply.type # TwoWay,
         \A d \in Chain : reverted[d] \subseteq reverted'[d],
         UNCHANGED messages
  PROVE  /\ StoredRequests' /\ RouteKept' /\ HeardResults'
         /\ RequestEvents' /\ ResultEvents'
<1>1. XcallInv /\ TypeOK /\ XcallTypeOK
  BY Zenon DEF SysInv, TypeOK
<1>2. /\ Hear(c, k, CSResult(res))
      /\ UNCHANGED <<sn, executeRequestId, callReply, defaultConnections,
                     executed, calls>>
      /\ \/ UNCHANGED proxyRequest
         \/ /\ res.reply # None
            /\ HandleResultSuccess(c, k, res)
            /\ HandleReply(c, callRequests[c][res.sn], res.reply)
  BY ResultSteps, Zenon
<1>3. Grows
  BY <1>1, <1>2, QuietGrows, Zenon
<1>4. /\ \A d \in Chain : \A id \in ReqIds :
           \/ proxyRequest'[d][id] \in {None, proxyRequest[d][id]}
           \/ Called(d, proxyRequest[d][id])'
      /\ \A d \in Chain : d # c => proxyRequest'[d] = proxyRequest[d]
  <2>1. CASE UNCHANGED proxyRequest
    BY <2>1, Zenon
  <2>2. CASE /\ res.reply # None
             /\ HandleResultSuccess(c, k, res)
             /\ HandleReply(c, callRequests[c][res.sn], res.reply)
    <3>1. callRequests[c][res.sn] \in Rollback
      BY <1>1, <2>2, ResultFacts, Zenon DEF HandleResultSuccess
    <3>2. res.reply \in Request
      BY <2>2, Zenon DEF Result
    <3>3. PICK req \in Request :
            req = [res.reply EXCEPT !.protocols =
                     callRequests[c][res.sn].protocols]
      BY <3>1, <3>2, Zenon DEF Request, Rollback
    <3>4. req.type # TwoWay
      BY <2>2, <3>2, <3>3, Zenon DEF Request
    <3>5. StoreProxyRequest(c, req)
      BY <2>2, <3>3, Zenon DEF HandleReply
    <3>6. Called(c, req)'
      BY <3>4, Zenon DEF Called
    <3> QED
      BY <1>1, <3>5, <3>6, StoreProxyRequestCalled, Zenon
  <2> QED
    BY <1>2, <2>1, <2>2, Zenon
<1>5. StoredRequests'
  BY <1>1, <1>2, <1>3, <1>4, StoredRequestsKept, ZenonT(30) DEF SysInv
<1>6. RouteKept'
  <2>1. CASE UNCHANGED proxyRequest
    BY <1>2, <2>1, RouteKeptFrame, Zenon DEF SysInv
  <2>2. CASE HandleReply(c, callRequests[c][res.sn], res.reply)
    <3>1. PICK req : StoreProxyRequest(c, req)
      BY <2>2, Zenon DEF HandleReply
    <3> QED
      BY <1>2, <3>1, RouteKeptStore, Zenon DEF SysInv
  <2> QED
    BY <1>2, <2>1, <2>2, Zenon
<1>7. HeardResults'
  <2>1. \A d \in Chain : \A m \in CSMessage, q \in Conn :
          <<m, q>> \in heard'[d] =>
            <<m, q>> \in heard[d] \/ TrueHeard(d, m, q)'
    <3>1. Hear(c, k, CSResult(res))
      BY <1>2, Zenon
    <3>2. \A d \in Chain : \A n, q :
            <<n, q>> \in heard'[d] =>
              <<n, q>> \in heard[d] \/ (d = c /\ n = CSResult(res) /\ q = k)
      BY <1>1, <3>1, HearNew, SMTT(30)
    <3> QED
      BY <3>2, Zenon
  <2> QED
    BY <1>1, <1>3, <2>1, HeardResultsKept, Zenon DEF SysInv
<1>8. RequestEvents' /\ ResultEvents'
  BY <1>1, <1>3, RequestEventsKept, ResultEventsKept, Zenon DEF SysInv
<1> QED
  BY <1>5, <1>6, <1>7, <1>8, Zenon

\* The relayer delivers a result.
LEMMA DeliverResultKeeps ==
  ASSUME SysInv, XcallTypeOK', NEW c \in Chain, NEW e \in messages,
         Deliver(c, e), e.msg.type = "CSMessageResult"
  PROVE  SysRest'
<1>1. XcallInv /\ TypeOK /\ XcallTypeOK /\ ConnTypeOK
  BY Zenon DEF SysInv, TypeOK
<1>2. e.msg \in CSMessage /\ e.conn \in Conn
  BY <1>1, Zenon DEF ConnTypeOK, Event
<1>3. PICK res \in Result : res = e.msg.payload
  BY <1>2, Payloads, Zenon
<1>4. ConnTypeOK' /\ UNCHANGED <<connSn, messages, reverted>> /\ e.dst = c
  BY <1>1, RecvMessageType, Zenon DEF Deliver
<1>5. HandleResult(c, e.conn, res)
  BY <1>3, Zenon DEF Deliver, HandleMessage
<1>6. UNCHANGED <<sn, calls, executed>>
  BY <1>2, <1>5, ResultSteps, Zenon
<1>7. Grows
  BY <1>1, <1>4, <1>6, QuietGrows, Zenon
<1>8. /\ Ran(c, res.sn, res.code)
      /\ res.reply # None => res.reply.type # TwoWay
      /\ res.sn \in Sns
  BY <1>3, <1>4, Zenon DEF SysInv, ResultEvents, TrueResult, Result
<1>9. Ran(c, res.sn, res.code)'
  BY <1>1, <1>7, <1>8, RanKept, Zenon
<1>10. TrueHeard(c, CSResult(res), e.conn)'
  BY <1>9, Zenon DEF TrueHeard, CSResult
<1>11. /\ StoredRequests' /\ RouteKept' /\ HeardResults'
       /\ RequestEvents' /\ ResultEvents'
  BY <1>2, <1>4, <1>5, <1>8, <1>10, ResultKeeps, Zenon
<1> QED
  BY <1>4, <1>11, Zenon DEF SysRest, SysInv, TypeOK

\* The admin of a connection gives a message up.
LEMMA RevertKeeps ==
  ASSUME SysInv, XcallTypeOK', NEW c \in Chain, NEW k \in Conn, NEW s \in Sns,
         RevertMessage(c, k, s)
  PROVE  SysRest'
<1>1. XcallInv /\ TypeOK /\ XcallTypeOK /\ ConnTypeOK
  BY Zenon DEF SysInv, TypeOK
<1>2. PICK res \in Result : res = ErrorResult(s)
  BY MessageTypes, Zenon
<1>3. HandleResult(c, k, res)
  BY <1>2, Zenon DEF RevertMessage, HandleError, HandleResult
<1>4. /\ reverted' = [reverted EXCEPT ![c] = @ \cup {<<k, s>>}]
      /\ UNCHANGED connVars
  BY Zenon DEF RevertMessage
<1>5. /\ reverted' \in [Chain -> SUBSET (Conn \X Sns)]
      /\ \A d \in Chain : reverted[d] \subseteq reverted'[d]
      /\ <<k, s>> \in reverted'[c]
  BY <1>1, <1>4 DEF TypeOK
<1>6. TrueHeard(c, CSResult(res), k)' /\ res.reply = None
  BY <1>2, <1>5, Zenon DEF TrueHeard, CSResult, ErrorResult
<1>7. /\ StoredRequests' /\ RouteKept' /\ HeardResults'
      /\ RequestEvents' /\ ResultEvents'
  BY <1>3, <1>4, <1>5, <1>6, ResultKeeps, Zenon DEF connVars
<1> QED
  BY <1>1, <1>4, <1>5, <1>7, Zenon DEF SysRest, ConnTypeOK, connVars

-----------------------------------------------------------------------------
(***************************************************************************)
(* Executing                                                               *)
(***************************************************************************)

\* An execution ends and, for a two-way request, its outcome is sent back.
LEMMA FinishKeeps ==
  ASSUME SysInv, XcallTypeOK', NEW c \in Chain, NEW id \in ReqIds,
         NEW code \in Code, NEW reply \in Request \cup {None},
         proxyRequest[c][id] # None, FinishCall(c, id, code),
         CanRespond(c, proxyRequest[c][id]),
         reply # None => reply.type # TwoWay,
         Respond(c, proxyRequest[c][id],
                 [sn |-> proxyRequest[c][id].sn, code |-> code,
                  reply |-> reply]),
         UNCHANGED reverted
  PROVE  SysRest'
<1>1. XcallInv /\ TypeOK /\ XcallTypeOK /\ ConnTypeOK
  BY Zenon DEF SysInv, TypeOK
<1>2. PICK req \in Request : req = proxyRequest[c][id]
  BY <1>1, SMTT(30) DEF XcallTypeOK
<1>3. /\ req.from \in Chain /\ req.sn \in Sns /\ req.protocols \in Protocols
      /\ Called(c, req)
  BY <1>2, Zenon DEF Request, SysInv, StoredRequests
<1> DEFINE res == [sn |-> req.sn, code |-> code, reply |-> reply]
<1>4. res \in Result /\ CSResult(res) \in CSMessage
  BY <1>3, MessageTypes, Zenon DEF Result
<1>5. /\ executeRequestId' = [executeRequestId EXCEPT ![c] = 0]
      /\ proxyRequest' = [proxyRequest EXCEPT ![c][id] = None]
      /\ callReply' = [callReply EXCEPT ![c] = None]
      /\ executed' = [executed EXCEPT ![c] = @ \cup {<<id, req, code>>}]
      /\ UNCHANGED <<sn, calls, heard, defaultConnections>>
  BY <1>2, Zenon DEF FinishCall, RemoveProxyRequest, PopCallReply
<1>6. /\ \A d \in Chain : executed[d] \subseteq executed'[d]
      /\ <<id, req, code>> \in executed'[c]
  BY <1>1, <1>5 DEF XcallTypeOK
<1>7. Grows
  <2>1. \A d \in Chain : sn[d] \in Nat
    BY <1>1, XcallAssumption DEF XcallTypeOK
  <2> QED
    BY <1>5, <1>6, <2>1, SMTT(30) DEF Grows
<1>8. ASSUME NeedResponse(req)
      PROVE  /\ ConnTypeOK'
             /\ \A e \in messages' :
                  \/ e \in messages
                  \/ e.src = c /\ e.dst = req.from /\ e.msg = CSResult(res)
  <2>1. HasRoute(c, req.from, req.protocols)
    BY <1>2, <1>8, Zenon DEF CanRespond
  <2>2. Confirmed(c, req.from, req.protocols) \in Routes
    BY <1>1, <1>3, <2>1, ConfirmedList, Zenon
  <2>3. SendMessage(c, req.from, Confirmed(c, req.from, req.protocols),
                    CSResult(res))
    BY <1>2, <1>8, Zenon DEF Respond
  <2>4. PICK m \in CSMessage : m = CSResult(res)
    BY <1>4, Zenon
  <2> HIDE DEF res
  <2>5. PICK conns \in Routes : conns = Confirmed(c, req.from, req.protocols)
    BY <2>2, Zenon
  <2>6. PICK to \in Chain : to = req.from
    BY <1>3, Zenon
  <2>7. SendMessage(c, to, conns, m)
    BY <2>3, <2>4, <2>5, <2>6, Zenon
  <2>8. /\ ConnTypeOK'
        /\ \A e \in messages' : \/ e \in messages
                                \/ e.src = c /\ e.dst = to /\ e.msg = m
    BY <1>1, <2>7, SendMessageEvents, ZenonT(30)
  <2> QED
    BY <2>4, <2>6, <2>8, Zenon
<1>9. ASSUME ~NeedResponse(req)
      PROVE  UNCHANGED connVars
  BY <1>2, <1>9, Zenon DEF Respond
<1>10. ASSUME NeedResponse(req)
       PROVE  Ran(req.from, req.sn, code)'
  <2>1. calls'[req.from][req.sn] # None /\ calls'[req.from][req.sn].to = c
    BY <1>3, <1>5, <1>10, Zenon DEF Called, NeedResponse
  <2> QED
    BY <1>6, <2>1, Zenon DEF Ran, ExecutedWith
<1>11. \A e \in messages' :
         \/ e \in messages
         \/ TrueResult(e)' /\ e.msg.type = "CSMessageResult"
  <2>1. CASE NeedResponse(req)
    <3>1. /\ CSResult(res).type = "CSMessageResult"
          /\ CSResult(res).payload = res
          /\ res.sn = req.sn /\ res.code = code /\ res.reply = reply
      BY Zenon DEF CSResult
    <3> HIDE DEF res
    <3>2. \A e : e.dst = req.from /\ e.msg = CSResult(res) =>
            TrueResult(e)' /\ e.msg.type = "CSMessageResult"
      BY <1>10, <2>1, <3>1, Zenon DEF TrueResult
    <3> QED
      BY <1>8, <2>1, <3>2, Zenon
  <2>2. CASE ~NeedResponse(req)
    BY <1>9, <2>2, ZenonT(30) DEF connVars
  <2> QED
    BY <2>1, <2>2, Zenon
<1>12. RequestEvents' /\ ResultEvents'
  <2>1. "CSMessageResult" # "CSMessageRequest"
    BY Zenon
  <2>2. RequestEvents /\ ResultEvents
    BY Zenon DEF SysInv
  <2>3. RequestEvents'
    BY <1>1, <1>7, <1>11, <2>1, <2>2, RequestEventsKept, ZenonT(20)
  <2>4. ResultEvents'
    BY <1>1, <1>7, <1>11, <2>2, ResultEventsKept, ZenonT(20)
  <2> QED
    BY <2>3, <2>4, Zenon
<1>13. StoredRequests'
  <2>1. /\ \A d \in Chain : \A i \in ReqIds :
             proxyRequest'[d][i] \in {None, proxyRequest[d][i]}
        /\ \A d \in Chain : callReply'[d] \in {None, callReply[d]}
    BY <1>1, <1>5 DEF XcallTypeOK
  <2> QED
    BY <1>1, <1>7, <2>1, StoredRequestsKept, ZenonT(30) DEF SysInv
<1>14. RouteKept'
  <2>1. \A d \in Chain : executeRequestId'[d] # 0 =>
          /\ executeRequestId'[d] = executeRequestId[d]
          /\ proxyRequest'[d] = proxyRequest[d]
    BY <1>1, <1>5, Zenon DEF XcallTypeOK
  <2> QED
    BY <1>5, <2>1, RouteKeptFrame, Zenon DEF SysInv
<1>15. HeardResults'
  BY <1>1, <1>5, <1>7, HeardResultsKept, Zenon DEF SysInv
<1>16. ConnTypeOK'
  <2>1. CASE NeedResponse(req)
    BY <1>8, <2>1, Zenon
  <2>2. CASE ~NeedResponse(req)
    BY <1>1, <1>9, <2>2, Zenon DEF connVars, ConnTypeOK
  <2> QED
    BY <2>1, <2>2, Zenon
<1> QED
  BY <1>1, <1>12, <1>13, <1>14, <1>15, <1>16, Zenon DEF SysRest, TypeOK

\* The dapp returned.
LEMMA ExecutionOkKeeps ==
  ASSUME SysInv, XcallTypeOK', NEW c \in Chain, ExecutionOk(c)
  PROVE  SysRest'
<1>1. XcallInv /\ TypeOK /\ XcallTypeOK
  BY Zenon DEF SysInv, TypeOK
<1>2. executeRequestId[c] \in ReqIds /\ Success \in Code
  <2>1. executeRequestId[c] \in 0..MaxReqId /\ executeRequestId[c] # 0
    BY <1>1, Zenon DEF ExecutionOk, ExecuteCallReplyOk, XcallTypeOK
  <2> QED
    BY <2>1, XcallAssumption DEF ReqIds, Code, Success
<1>3. PICK id \in ReqIds : id = executeRequestId[c]
  BY <1>2, Zenon
<1>4. /\ proxyRequest[c][id] # None
      /\ FinishCall(c, id, Success)
      /\ CanRespond(c, proxyRequest[c][id])
  BY <1>1, <1>3, ZenonT(30)
     DEF ExecutionOk, ExecuteCallReplyOk, XcallInv, RequestsById, SysInv,
         RouteKept
<1>5. PICK reply \in Request \cup {None} : reply = callReply[c]
  BY <1>1, Zenon DEF XcallTypeOK
<1>6. reply # None => reply.type # TwoWay
  BY <1>5, ZenonT(30) DEF SysInv, StoredRequests
<1>7. /\ Respond(c, proxyRequest[c][id],
                 [sn |-> proxyRequest[c][id].sn, code |-> Success,
                  reply |-> reply])
      /\ UNCHANGED reverted
  BY <1>3, <1>5, Zenon DEF ExecutionOk, OkResult
<1> QED
  BY <1>2, <1>4, <1>6, <1>7, FinishKeeps, Zenon

\* The dapp failed.
LEMMA ExecutionErrKeeps ==
  ASSUME SysInv, XcallTypeOK', NEW c \in Chain, NEW id \in ReqIds,
         ExecutionErr(c, id)
  PROVE  SysRest'
<1>1. /\ proxyRequest[c][id] # None
      /\ FinishCall(c, id, Failure)
      /\ CanRespond(c, proxyRequest[c][id])
  BY Zenon DEF ExecutionErr, ExecuteCallReplyErr
<1>2. PICK reply \in Request \cup {None} : reply = None
  BY Zenon
<1>3. /\ Respond(c, proxyRequest[c][id],
                 [sn |-> proxyRequest[c][id].sn, code |-> Failure,
                  reply |-> reply])
      /\ UNCHANGED reverted
  BY <1>2, Zenon DEF ExecutionErr, ErrResult
<1>4. Failure \in Code
  BY Zenon DEF Code, Failure
<1> QED
  BY <1>1, <1>2, <1>3, <1>4, FinishKeeps, Zenon

\* Steps that neither send, hear nor execute.
LEMMA IdleKeeps ==
  ASSUME SysInv,
         UNCHANGED <<sn, calls, executed, heard, proxyRequest, callReply,
                     connVars, reverted>>,
         RouteKept'
  PROVE  SysRest'
<1>1. XcallInv /\ TypeOK /\ XcallTypeOK
  BY Zenon DEF SysInv, TypeOK
<1>2. Grows
  BY <1>1, QuietGrows, Zenon
<1>3. StoredRequests' /\ HeardResults'
  BY <1>1, <1>2, StoredRequestsKept, HeardResultsKept, Zenon DEF SysInv
<1>4. RequestEvents' /\ ResultEvents'
  BY <1>1, <1>2, RequestEventsKept, ResultEventsKept, Zenon
     DEF SysInv, connVars
<1> QED
  BY <1>1, <1>3, <1>4, Zenon DEF SysRest, TypeOK, ConnTypeOK, connVars

\* An execution starts when its result can be sent.
LEMMA ExecuteKeeps ==
  ASSUME SysInv, NEW c \in Chain, NEW id \in ReqIds, Execute(c, id)
  PROVE  SysRest'
<1>1. /\ CanRespond(c, proxyRequest[c][id])
      /\ executeRequestId' = [executeRequestId EXCEPT ![c] = id]
      /\ UNCHANGED <<sn, calls, executed, heard, proxyRequest, callReply,
                     defaultConnections, connVars, reverted>>
  BY Zenon DEF Execute, ExecuteCall, history
<1>2. executeRequestId \in [Chain -> 0..MaxReqId]
  BY Zenon DEF SysInv, TypeOK, XcallTypeOK
<1>3. RouteKept'
  BY <1>1, <1>2, Zenon
     DEF SysInv, RouteKept, CanRespond, HasRoute, Confirmed
<1> QED
  BY <1>1, <1>3, IdleKeeps, Zenon

LEMMA RunRollbackKeeps ==
  ASSUME SysInv, NEW c \in Chain, NEW s \in Sns, RunRollback(c, s)
  PROVE  SysRest'
<1>1. UNCHANGED <<sn, calls, executed, heard, proxyRequest, callReply,
                  executeRequestId, defaultConnections, connVars, reverted>>
  BY Zenon DEF RunRollback, ExecuteRollback
<1>2. RouteKept'
  BY <1>1, RouteKeptFrame, Zenon DEF SysInv
<1> QED
  BY <1>1, <1>2, IdleKeeps, Zenon

\* The admin replaces default connections but never removes one.
LEMMA SetDefaultKeeps ==
  ASSUME SysInv, NEW c \in Chain, NEW nid \in Chain, NEW k \in Conn,
         SetDefault(c, nid, k)
  PROVE  SysRest'
<1>1. /\ defaultConnections' = [defaultConnections EXCEPT ![c][nid] = k]
      /\ UNCHANGED <<sn, calls, executed, heard, proxyRequest, callReply,
                     executeRequestId, connVars, reverted>>
  BY Zenon DEF SetDefault, SetDefaultConnection, history
<1>2. /\ defaultConnections \in [Chain -> [Chain -> Conn \cup {None}]]
      /\ proxyRequest \in [Chain -> [ReqIds -> Request \cup {None}]]
      /\ executeRequestId \in [Chain -> 0..MaxReqId]
      /\ RequestsById
  BY Zenon DEF SysInv, TypeOK, XcallTypeOK, XcallInv
<1>3. ASSUME NEW d \in Chain, NEW n \in Chain, NEW protocols,
             HasRoute(d, n, protocols)
      PROVE  HasRoute(d, n, protocols)'
  <2>1. CASE protocols # <<>>
    BY <1>3, <2>1, Zenon DEF HasRoute, Confirmed
  <2>2. CASE protocols = <<>>
    <3>1. defaultConnections[d][n] # None
      BY <1>3, <2>2 DEF HasRoute, Confirmed, Range
    <3>2. defaultConnections'[d][n] # None
      BY <1>1, <1>2, <3>1, XcallAssumption
    <3> QED
      BY <2>2, <3>2 DEF HasRoute, Confirmed, Range
  <2> QED
    BY <2>1, <2>2, Zenon
<1>4. RouteKept'
  <2>1. ASSUME NEW d \in Chain, executeRequestId[d] # 0
        PROVE  proxyRequest[d][executeRequestId[d]].from \in Chain
    <3>1. executeRequestId[d] \in ReqIds
      BY <1>2, <2>1, XcallAssumption DEF ReqIds
    <3>2. proxyRequest[d][executeRequestId[d]] # None
      BY <1>2, <2>1, Zenon DEF RequestsById
    <3>3. proxyRequest[d][executeRequestId[d]] \in Request
      BY <1>2, <3>1, <3>2
    <3> QED
      BY <3>3, Zenon DEF Request
  <2> QED
    BY <1>1, <1>3, <2>1, Zenon DEF SysInv, RouteKept, CanRespond
<1> QED
  BY <1>1, <1>4, IdleKeeps, Zenon

-----------------------------------------------------------------------------
(***************************************************************************)
(* The theorems                                                            *)
(***************************************************************************)
LEMMA SysInvInit == Init => SysInv
<1> SUFFICES ASSUME Init
             PROVE  SysInv
  BY Zenon
<1>1. XcallInv /\ XcallTypeOK
  BY InvInit, Zenon DEF Init, XcallInv
<1>2. /\ messages = {} /\ receipts = [c \in Chain |-> {}]
      /\ connSn = [c \in Chain |-> [k \in Conn |-> 0]]
      /\ reverted = [c \in Chain |-> {}]
      /\ heard = [c \in Chain |-> {}]
      /\ proxyRequest = [c \in Chain |-> [i \in ReqIds |-> None]]
      /\ callReply = [c \in Chain |-> None]
      /\ executeRequestId = [c \in Chain |-> 0]
  BY Zenon DEF Init, XcallInit, ConnInit
<1>3. TypeOK
  BY <1>1, <1>2, Zenon DEF TypeOK, ConnTypeOK
<1>4. RequestEvents /\ ResultEvents
  BY <1>2, Zenon DEF RequestEvents, ResultEvents
<1>5. StoredRequests /\ RouteKept /\ HeardResults
  BY <1>2, Zenon DEF StoredRequests, RouteKept, HeardResults
<1> QED
  BY <1>1, <1>3, <1>4, <1>5, Zenon DEF SysInv

\* Every transaction of the system preserves the invariant.
LEMMA SysInvStep ==
  ASSUME SysInv, [Next]_sysVars
  PROVE  SysInv'
<1>1. [XcallNext]_xcallVars
  BY StepSimulates, Zenon DEF SysInv
<1>2. XcallInv' /\ XcallTypeOK'
  BY <1>1, InvStep, Zenon DEF SysInv, XcallInv
<1>3. SysRest'
  <2>1. CASE UNCHANGED sysVars
    <3>1. RouteKept'
      BY <2>1, Zenon DEF SysInv, sysVars, xcallVars, stateVars, RouteKept,
                  CanRespond, HasRoute, Confirmed
    <3> QED
      BY <2>1, <3>1, IdleKeeps, Zenon
         DEF sysVars, xcallVars, stateVars, history
  <2>2. CASE Next
    <3>1. PICK c \in Chain :
            \/ \E to \in Chain \ {c}, type \in MsgType, src, dst \in Protocols :
                 \/ Send(c, to, type, src, dst)
                 \/ Reply(c, to, type, src, dst)
            \/ \E e \in messages : Deliver(c, e)
            \/ \E k \in Reverters, s \in Sns : RevertMessage(c, k, s)
            \/ \E id \in ReqIds : Execute(c, id)
            \/ ExecutionOk(c)
            \/ \E id \in ReqIds : ExecutionErr(c, id)
            \/ \E s \in Sns : RunRollback(c, s)
            \/ \E nid \in Chain \ {c}, k \in DefaultConns : SetDefault(c, nid, k)
      BY <2>2, Zenon DEF Next
    <3>2. CASE \E to \in Chain \ {c}, type \in MsgType, src, dst \in Protocols :
                 \/ Send(c, to, type, src, dst)
                 \/ Reply(c, to, type, src, dst)
      BY <1>2, <3>2, SendKeeps, ReplyKeeps, Zenon
    <3>3. CASE \E e \in messages : Deliver(c, e)
      BY <1>2, <3>3, DeliverRequestKeeps, DeliverResultKeeps, Zenon
         DEF Deliver, HandleMessage
    <3>4. CASE \E k \in Reverters, s \in Sns : RevertMessage(c, k, s)
      BY <1>2, <3>4, RevertKeeps, SystemAssumption, Zenon
    <3>5. CASE \E id \in ReqIds : Execute(c, id) \/ ExecutionErr(c, id)
      BY <1>2, <3>5, ExecuteKeeps, ExecutionErrKeeps, Zenon
    <3>6. CASE ExecutionOk(c)
      BY <1>2, <3>6, ExecutionOkKeeps, Zenon
    <3>7. CASE \E s \in Sns : RunRollback(c, s)
      BY <3>7, RunRollbackKeeps, Zenon
    <3>8. CASE \E nid \in Chain \ {c}, k \in DefaultConns : SetDefault(c, nid, k)
      BY <3>8, SetDefaultKeeps, SystemAssumption, Zenon
    <3> QED
      BY <3>1, <3>2, <3>3, <3>4, <3>5, <3>6, <3>7, <3>8, Zenon
  <2> QED
    BY <2>1, <2>2, Zenon
<1> QED
  BY <1>2, <1>3, Zenon DEF SysInv, SysRest, TypeOK

\* The invariant holds in every state of the system, for any chains,
\* connections, lists of protocols, relayers that repeat, delay, reorder and
\* lose, and admins who revert.
THEOREM SystemInvariance == Spec => []SysInv
<1>1. Init => SysInv
  BY SysInvInit, Zenon
<1>2. SysInv /\ [Next]_sysVars => SysInv'
  BY SysInvStep, Zenon
<1> QED
  BY <1>1, <1>2, PTL DEF Spec

\* The composed contracts are well typed: in particular no connection is
\* ever asked to send over a missing default connection.
THEOREM SystemTyping == Spec => []TypeOK
<1>1. SysInv => TypeOK
  BY Zenon DEF SysInv
<1> QED
  BY <1>1, SystemInvariance, PTL

\* The system is an instance of the open call service, so that all theorems
\* about XcallSpec hold of it too.
THEOREM SystemImplementsXcall == Spec => XcallSpec
<1>1. Init => XcallInit
  BY Zenon DEF Init
<1>2. SysInv /\ [Next]_sysVars => [XcallNext]_xcallVars
  BY StepSimulates, Zenon DEF SysInv
<1> QED
  BY <1>1, <1>2, SystemInvariance, PTL DEF Spec, XcallSpec

\* An endorsed result of a call is one that some connection delivered, and
\* every connection of its list.
LEMMA EndorsedHeard ==
  ASSUME TypeOK, NEW c \in Chain, NEW m, NEW p \in Protocols,
         Endorsed(c, m, p)
  PROVE  /\ \E k \in Conn : <<m, k>> \in heard[c]
         /\ p # <<>> => \A k \in Range(p) : k \in Conn /\ <<m, k>> \in heard[c]
<1>1. CASE p = <<>>
  BY <1>1, Zenon DEF Endorsed
<1>2. CASE p # <<>>
  <2>1. p \in Seq(Conn) /\ 1 \in DOMAIN p
    BY <1>2, XcallAssumption
  <2>2. p[1] \in Range(p) /\ Range(p) \subseteq Conn
    BY <2>1 DEF Range
  <2> QED
    BY <1>2, <2>2, Zenon DEF Endorsed
<1> QED
  BY <1>1, <1>2, Zenon

\* handle_result marks a call successful only if the dapp of the chain that
\* it was sent to executed it and returned, whoever delivers what and when.
THEOREM SuccessMeansExecutedAlways == Spec => []SuccessMeansExecuted
<1>1. SysInv => SuccessMeansExecuted
  <2> SUFFICES ASSUME SysInv, NEW c \in Chain, NEW s \in successfulResponses[c]
               PROVE  ExecutedWith(c, s, Success)
    BY Zenon DEF SuccessMeansExecuted
  <2>1. XcallInv /\ TypeOK /\ XcallTypeOK
    BY Zenon DEF SysInv, TypeOK
  <2>2. s \in Sns /\ calls[c][s] # None
    BY <2>1, Zenon DEF XcallTypeOK, XcallInv, CallsBySn
  <2>3. calls[c][s].protocols \in Protocols
    <3>1. calls[c][s] \in Call
      BY <2>1, <2>2, SMTT(30) DEF XcallTypeOK
    <3> QED
      BY <3>1, Zenon DEF Call
  <2>4. PICK reply \in Request \cup {None} :
          Endorsed(c, CSResult(SuccessResult(s, reply)), calls[c][s].protocols)
    BY <2>1, <2>2, Zenon DEF XcallInv, SettlementEndorsed
  <2>5. PICK m \in CSMessage : m = CSResult(SuccessResult(s, reply))
    BY <2>2, MessageTypes, Zenon DEF SuccessResult, Result, Code, Success
  <2>6. PICK k \in Conn : <<m, k>> \in heard[c]
    BY <2>1, <2>3, <2>4, <2>5, EndorsedHeard, Zenon
  <2>7. /\ m.type = "CSMessageResult"
        /\ m.payload.sn = s /\ m.payload.code = Success
    BY <2>5, Zenon DEF CSResult, SuccessResult
  <2>8. TrueHeard(c, m, k)
    BY <2>6, <2>7, Zenon DEF SysInv, HeardResults
  <2> QED
    BY <2>7, <2>8, Zenon DEF TrueHeard, Ran, Success, Failure
<1> QED
  BY <1>1, SystemInvariance, PTL

\* execute_rollback runs only for a call that the target's dapp failed on or
\* that all its connections gave up: one connection that reverts never undoes
\* a call that the others report as executed.
THEOREM RollbackMeansFailedAlways == Spec => []RollbackMeansFailed
<1>1. SysInv => RollbackMeansFailed
  <2> SUFFICES ASSUME SysInv, NEW c \in Chain, NEW s \in rolledBack[c],
                      ~ExecutedWith(c, s, Failure)
               PROVE  AllReverted(c, s)
    BY Zenon DEF RollbackMeansFailed
  <2>1. XcallInv /\ TypeOK /\ XcallTypeOK
    BY Zenon DEF SysInv, TypeOK
  <2>2. s \in Sns /\ calls[c][s] # None
    BY <2>1, Zenon DEF XcallTypeOK, XcallInv, CallsBySn
  <2>3. calls[c][s].protocols \in Protocols
    <3>1. calls[c][s] \in Call
      BY <2>1, <2>2 DEF XcallTypeOK
    <3> QED
      BY <3>1, Zenon DEF Call
  <2>4. PICK reply \in Request \cup {None} :
          Endorsed(c, CSResult(FailureResult(s, reply)), calls[c][s].protocols)
    BY <2>1, <2>2, Zenon DEF XcallInv, SettlementEndorsed
  <2>5. PICK m \in CSMessage : m = CSResult(FailureResult(s, reply))
    BY <2>2, MessageTypes, Zenon DEF FailureResult, Result, Code, Failure
  <2>6. /\ m.type = "CSMessageResult"
        /\ m.payload.sn = s /\ m.payload.code = Failure
    BY <2>5, Zenon DEF CSResult, FailureResult
  <2>7. ASSUME NEW k \in Conn, <<m, k>> \in heard[c]
        PROVE  <<k, s>> \in reverted[c]
    <3>1. TrueHeard(c, m, k)
      BY <2>6, <2>7, Zenon DEF SysInv, HeardResults
    <3> QED
      BY <2>6, <3>1, Zenon DEF TrueHeard, Ran
  <2>8. /\ \E k \in Conn : <<m, k>> \in heard[c]
        /\ calls[c][s].protocols # <<>> =>
             \A k \in Range(calls[c][s].protocols) :
               k \in Conn /\ <<m, k>> \in heard[c]
    BY <2>1, <2>3, <2>4, <2>5, EndorsedHeard, Zenon
  <2> QED
    BY <2>7, <2>8, Zenon DEF AllReverted
<1> QED
  BY <1>1, SystemInvariance, PTL

-----------------------------------------------------------------------------
(***************************************************************************)
(* Third part: each message is used once                                   *)
(***************************************************************************)
\* Message m takes the number s of the chain that sends it.
Carries(m, s) ==
  \/ m.type = "CSMessageRequest" /\ m.payload.sn = s
  \/ /\ m.type = "CSMessageResult"
     /\ m.payload.reply # None
     /\ m.payload.reply.sn = s

\* A number is on its way in one message, to one chain.
NumbersApart ==
  \A e, f \in messages, s \in Sns :
    (e.src = f.src /\ Carries(e.msg, s) /\ Carries(f.msg, s)) =>
      e.dst = f.dst /\ e.msg = f.msg

\* It was handed out before, and to the chain that sends it.
NumbersHandedOut ==
  \A e \in messages :
    /\ \A s \in Sns : Carries(e.msg, s) => s <= sn[e.src]
    /\ (e.msg.type = "CSMessageResult" /\ e.msg.payload.reply # None) =>
         e.msg.payload.reply.from = e.src

\* So was the number of the reply that an execution keeps; it is not sent yet.
ReplyKeptBack ==
  \A c \in Chain : callReply[c] # None =>
    /\ callReply[c].from = c
    /\ callReply[c].sn <= sn[c]
    /\ \A e \in messages : e.src = c => ~Carries(e.msg, callReply[c].sn)

\* The inductive invariant behind ReplyOfOneCall, on top of SysInv.
NumberInv == NumbersApart /\ NumbersHandedOut /\ ReplyKeptBack

-----------------------------------------------------------------------------
\* Lists name their connections, each once: then what is delivered does not
\* depend on the default connections of the moment.
NamedLists ==
  \A p \in Protocols :
    p # <<>> /\ \A i, j \in DOMAIN p : p[i] = p[j] => i = j

\* A connection carries a number once.
SentOverOnce ==
  \A e, f \in messages, s \in Sns :
    (e.src = f.src /\ e.conn = f.conn /\ Carries(e.msg, s) /\ Carries(f.msg, s))
      => e = f

\* What connection k had of request req is received at c.
Received(c, req, k) ==
  \A f \in messages :
    (f.src = req.from /\ f.conn = k /\ Carries(f.msg, req.sn)) =>
      <<f.conn, f.src, f.connSn>> \in receipts[c]

\* Request req was sent to c.
RequestSent(c, req) ==
  \E e \in messages :
    e.src = req.from /\ e.dst = c /\ e.msg = CSRequest(req)

\* Request req was sent to c as the reply of a call that is settled.
ReplySent(c, req) ==
  \E e \in messages :
    /\ e.src = req.from /\ e.dst = c
    /\ e.msg.type = "CSMessageResult" /\ e.msg.payload.reply # None
    /\ e.msg.payload.reply.sn = req.sn
    /\ e.msg.payload.sn \in successfulResponses[c]

\* Deliveries that are collected, and those of admitted requests, are spent.
PendingSpent ==
  \A c \in Chain : \A p \in pendingRequests[c] :
    RequestSent(c, p[1]) /\ Received(c, p[1], p[2])

RequestSpent(c, req) ==
  RequestSent(c, req) /\ \A k \in Range(req.protocols) : Received(c, req, k)

AdmittedSpent ==
  \A c \in Chain : \A x \in admitted[c] :
    RequestSpent(c, x[2]) \/ ReplySent(c, x[2])

\* The inductive invariant behind AtMostOnce, on top of the others.
OnceInv == SentOverOnce /\ PendingSpent /\ AdmittedSpent /\ AtMostOnce

-----------------------------------------------------------------------------
(***************************************************************************)
(* What a step sends                                                       *)
(***************************************************************************)

\* A step of c sends m to chain to, over any number of connections.
Emits(c, to, m) ==
  /\ messages \subseteq messages'
  /\ \A e \in messages' : \/ e \in messages
                          \/ e.src = c /\ e.dst = to /\ e.msg = m

\* It uses each connection once.
EmitsOnce ==
  \A e, f \in messages' :
    (e \notin messages /\ f \notin messages /\ e.conn = f.conn) => e = f

\* Its number, if it takes one, was handed out and never sent.
Fresh(c, m) ==
  \A s \in Sns : Carries(m, s) =>
    s <= sn'[c] /\ \A e \in messages : e.src = c => ~Carries(e.msg, s)

LEMMA SendMessageEmits ==
  ASSUME TypeOK, NEW c \in Chain, NEW to \in Chain, NEW p \in Protocols,
         HasRoute(c, to, p), NEW m \in CSMessage,
         SendMessage(c, to, Confirmed(c, to, p), m)
  PROVE  Emits(c, to, m) /\ (NamedLists => EmitsOnce) /\ UNCHANGED receipts
<1>1. Confirmed(c, to, p) \in Routes
  BY ConfirmedList, Zenon DEF TypeOK
<1>2. Emits(c, to, m)
  BY <1>1, SendMessageEvents DEF TypeOK, Emits, SendMessage
<1>3. ASSUME NamedLists
      PROVE  EmitsOnce
  <2>1. Confirmed(c, to, p) = p
    BY <1>3, Zenon DEF NamedLists, Confirmed
  <2> DEFINE event(i) ==
        [conn |-> p[i], src |-> c, dst |-> to, msg |-> m,
         connSn |-> connSn[c][p[i]] + Uses(p[i], p, i)]
  <2>2. messages' = messages \cup {event(i) : i \in DOMAIN p}
    BY <2>1, Zenon DEF SendMessage
  <2>3. \A i \in DOMAIN p : event(i).conn = p[i]
    BY Zenon
  <2> HIDE DEF event
  <2> SUFFICES ASSUME NEW e \in messages', NEW f \in messages',
                      e \notin messages, f \notin messages, e.conn = f.conn
               PROVE  e = f
    BY Zenon DEF EmitsOnce
  <2>4. PICK i \in DOMAIN p : e = event(i)
    BY <2>2, Zenon
  <2>5. PICK j \in DOMAIN p : f = event(j)
    BY <2>2, Zenon
  <2>6. i = j
    BY <1>3, <2>3, <2>4, <2>5, Zenon DEF NamedLists
  <2> QED
    BY <2>4, <2>5, <2>6, Zenon
<1> QED
  BY <1>2, <1>3, Zenon DEF SendMessage

\* send_call sends its request under a new number.
LEMMA SendEmits ==
  ASSUME SysInv, NumberInv, XcallTypeOK', NEW c \in Chain, NEW to \in Chain,
         NEW type \in MsgType, NEW src \in Protocols, NEW dst \in Protocols,
         Send(c, to, type, src, dst)
  PROVE  \E req \in Request :
           /\ req.from = c /\ req.sn = NextSn(c)
           /\ Emits(c, to, CSRequest(req)) /\ (NamedLists => EmitsOnce)
           /\ Fresh(c, CSRequest(req))
           /\ Grows /\ sn'[c] = NextSn(c)
           /\ UNCHANGED <<receipts, callReply>>
<1> DEFINE req == CallRequest(c, type, dst)
<1>1. /\ HasRoute(c, to, src)
      /\ StoreCall(c, to, type, src)
      /\ SendMessage(c, to, Confirmed(c, to, src), CSRequest(req))
      /\ UNCHANGED <<callReply, reverted>>
  BY Zenon DEF Send, SendCall
<1>2. XcallInv /\ TypeOK /\ XcallTypeOK
  BY Zenon DEF SysInv, TypeOK
<1>3. Grows /\ sn'[c] = NextSn(c) /\ NextSn(c) \in Sns
  BY <1>1, <1>2, StoreCallGrows, Zenon
<1>4. /\ req \in Request /\ CSRequest(req) \in CSMessage
      /\ req.from = c /\ req.sn = NextSn(c)
  BY <1>3, MessageTypes, Zenon DEF CallRequest, Request
<1>5. /\ Emits(c, to, CSRequest(req)) /\ (NamedLists => EmitsOnce)
      /\ UNCHANGED receipts
  BY <1>1, <1>2, <1>4, SendMessageEmits, Zenon
<1>6. Fresh(c, CSRequest(req))
  <2> SUFFICES ASSUME NEW s \in Sns, Carries(CSRequest(req), s)
               PROVE  /\ s <= sn'[c]
                      /\ \A e \in messages : e.src = c => ~Carries(e.msg, s)
    BY Zenon DEF Fresh
  <2>1. s = NextSn(c) /\ s \in Nat
    BY <1>4, XcallAssumption DEF Carries, CSRequest, Sns
  <2>2. \A e \in messages : e.src = c /\ Carries(e.msg, s) => s <= sn[c]
    BY Zenon DEF NumberInv, NumbersHandedOut
  <2>3. sn[c] \in Nat
    BY <1>3, Zenon DEF Grows
  <2> QED
    BY <1>3, <2>1, <2>2, <2>3 DEF NextSn
<1> QED
  BY <1>1, <1>3, <1>4, <1>5, <1>6, Zenon

\* An execution that ends sends nothing, or a result with the reply kept.
LEMMA FinishEmits ==
  ASSUME SysInv, NumberInv, NEW c \in Chain, NEW id \in ReqIds,
         NEW code \in Code, NEW reply \in {None, callReply[c]},
         proxyRequest[c][id] # None, FinishCall(c, id, code),
         CanRespond(c, proxyRequest[c][id]),
         Respond(c, proxyRequest[c][id],
                 [sn |-> proxyRequest[c][id].sn, code |-> code,
                  reply |-> reply])
  PROVE  /\ \E to \in Chain, res \in Result :
              /\ res.reply = reply
              /\ Emits(c, to, CSResult(res)) /\ (NamedLists => EmitsOnce)
              /\ Fresh(c, CSResult(res))
         /\ callReply' = [callReply EXCEPT ![c] = None]
         /\ UNCHANGED <<sn, receipts, pendingRequests, admitted,
                        successfulResponses>>
<1>1. XcallInv /\ TypeOK /\ XcallTypeOK
  BY Zenon DEF SysInv, TypeOK
<1>2. PICK req \in Request : req = proxyRequest[c][id]
  BY <1>1 DEF XcallTypeOK
<1>3. req.from \in Chain /\ req.sn \in Sns /\ req.protocols \in Protocols
  BY Zenon DEF Request
<1>4. reply \in Request \cup {None}
  BY <1>1, Zenon DEF XcallTypeOK
<1>5. PICK res \in Result :
        res = [sn |-> req.sn, code |-> code, reply |-> reply]
  BY <1>3, <1>4, Zenon DEF Result
<1>6. CSResult(res) \in CSMessage /\ res.reply = reply
  BY <1>5, MessageTypes, Zenon
<1>7. /\ callReply' = [callReply EXCEPT ![c] = None]
      /\ UNCHANGED <<sn, pendingRequests, admitted, successfulResponses>>
  BY Zenon DEF FinishCall, PopCallReply
<1>8. /\ Emits(c, req.from, CSResult(res)) /\ (NamedLists => EmitsOnce)
      /\ UNCHANGED receipts
  <2>1. CASE NeedResponse(req)
    <3>1. HasRoute(c, req.from, req.protocols)
      BY <1>2, <2>1, Zenon DEF CanRespond
    <3>2. SendMessage(c, req.from, Confirmed(c, req.from, req.protocols),
                      CSResult(res))
      BY <1>2, <1>5, <2>1, Zenon DEF Respond
    <3> QED
      BY <1>1, <1>3, <1>6, <3>1, <3>2, SendMessageEmits, Zenon
  <2>2. CASE ~NeedResponse(req)
    BY <1>2, <2>2, Zenon DEF Respond, connVars, Emits, EmitsOnce
  <2> QED
    BY <2>1, <2>2, Zenon
<1>9. Fresh(c, CSResult(res))
  <2> SUFFICES ASSUME NEW s \in Sns, Carries(CSResult(res), s)
               PROVE  /\ s <= sn'[c]
                      /\ \A e \in messages : e.src = c => ~Carries(e.msg, s)
    BY Zenon DEF Fresh
  <2>1. reply # None /\ reply.sn = s
    BY <1>6, Zenon DEF Carries, CSResult
  <2>2. callReply[c] # None /\ callReply[c].sn = s
    BY <2>1, Zenon
  <2> QED
    BY <1>7, <2>2, Zenon DEF NumberInv, ReplyKeptBack
<1> QED
  BY <1>3, <1>6, <1>7, <1>8, <1>9, Zenon

-----------------------------------------------------------------------------
(***************************************************************************)
(* Numbers                                                                 *)
(***************************************************************************)

\* Sending a fresh message keeps numbers apart.
LEMMA EmitKeepsNumbers ==
  ASSUME TypeOK, NumberInv, NEW c \in Chain, NEW to \in Chain,
         NEW m \in CSMessage, Emits(c, to, m), Fresh(c, m),
         (m.type = "CSMessageResult" /\ m.payload.reply # None) =>
           m.payload.reply.from = c,
         \A d \in Chain : sn[d] \in Nat /\ sn'[d] \in Nat /\ sn[d] <= sn'[d]
  PROVE  NumbersApart' /\ NumbersHandedOut'
<1>1. Sns \subseteq Nat
  BY XcallAssumption DEF Sns
<1>2. \A e \in messages : e.src \in Chain
  BY Zenon DEF TypeOK, ConnTypeOK, Event
<1>3. NumbersApart'
  BY Zenon DEF NumberInv, NumbersApart, Emits, Fresh
<1>4. NumbersHandedOut'
  <2> SUFFICES ASSUME NEW e \in messages'
               PROVE  /\ \A s \in Sns : Carries(e.msg, s) => s <= sn'[e.src]
                      /\ (e.msg.type = "CSMessageResult"
                            /\ e.msg.payload.reply # None) =>
                           e.msg.payload.reply.from = e.src
    BY Zenon DEF NumbersHandedOut
  <2>1. CASE e \in messages
    <3>1. ASSUME NEW s \in Sns, Carries(e.msg, s)
          PROVE  s <= sn'[e.src]
      <4>1. s <= sn[e.src]
        BY <2>1, <3>1, Zenon DEF NumberInv, NumbersHandedOut
      <4> QED
        BY <1>1, <1>2, <2>1, <4>1
    <3> QED
      BY <2>1, <3>1, Zenon DEF NumberInv, NumbersHandedOut
  <2>2. CASE e \notin messages
    BY <2>2, Zenon DEF Emits, Fresh
  <2> QED
    BY <2>1, <2>2, Zenon
<1> QED
  BY <1>3, <1>4, Zenon

LEMMA NumberInvInit == Init => NumberInv
BY Zenon
   DEF Init, XcallInit, ConnInit, NumberInv, NumbersApart, NumbersHandedOut,
       ReplyKeptBack

LEMMA NumberInvSend ==
  ASSUME SysInv, NumberInv, XcallTypeOK', NEW c \in Chain, NEW to \in Chain,
         NEW type \in MsgType, NEW src \in Protocols, NEW dst \in Protocols,
         Send(c, to, type, src, dst)
  PROVE  NumberInv'
<1>1. PICK req \in Request :
        /\ req.from = c /\ req.sn = NextSn(c)
        /\ Emits(c, to, CSRequest(req))
        /\ Fresh(c, CSRequest(req))
        /\ Grows /\ sn'[c] = NextSn(c)
        /\ UNCHANGED callReply
  BY SendEmits, Zenon
<1>2. TypeOK /\ XcallTypeOK /\ CSRequest(req) \in CSMessage
  BY MessageTypes, Zenon DEF SysInv, TypeOK
<1>3. \A d \in Chain : sn[d] \in Nat /\ sn'[d] \in Nat /\ sn[d] <= sn'[d]
  BY <1>1, Zenon DEF Grows
<1>4. NumbersApart' /\ NumbersHandedOut'
  BY <1>1, <1>2, <1>3, EmitKeepsNumbers, Zenon DEF CSRequest
<1>5. ReplyKeptBack'
  <2> SUFFICES ASSUME NEW d \in Chain, callReply[d] # None
               PROVE  /\ callReply[d].from = d
                      /\ callReply[d].sn <= sn'[d]
                      /\ \A e \in messages' : e.src = d =>
                           ~Carries(e.msg, callReply[d].sn)
    BY <1>1, Zenon DEF ReplyKeptBack
  <2>1. /\ callReply[d].from = d
        /\ callReply[d].sn <= sn[d]
        /\ \A e \in messages : e.src = d => ~Carries(e.msg, callReply[d].sn)
    BY Zenon DEF NumberInv, ReplyKeptBack
  <2>2. callReply[d].sn \in Nat
    <3>1. callReply[d] \in Request
      BY <1>2, Zenon DEF XcallTypeOK
    <3> QED
      BY <3>1, XcallAssumption DEF Request, Sns
  <2>3. callReply[d].sn <= sn'[d]
    BY <1>3, <2>1, <2>2
  <2>4. ASSUME NEW e \in messages', e.src = d, e \notin messages
        PROVE  ~Carries(e.msg, callReply[d].sn)
    <3>1. d = c /\ e.msg = CSRequest(req)
      BY <1>1, <2>4, Zenon DEF Emits
    <3>2. callReply[d].sn # NextSn(c)
      BY <1>3, <2>1, <2>2, <3>1 DEF NextSn
    <3> QED
      BY <1>1, <3>1, <3>2 DEF Carries, CSRequest
  <2> QED
    BY <2>1, <2>3, <2>4, Zenon
<1> QED
  BY <1>4, <1>5, Zenon DEF NumberInv

LEMMA NumberInvReply ==
  ASSUME SysInv, NumberInv, XcallTypeOK', NEW c \in Chain, NEW to \in Chain,
         NEW type \in MsgType, NEW src \in Protocols, NEW dst \in Protocols,
         Reply(c, to, type, src, dst)
  PROVE  NumberInv'
<1>1. /\ StoreCall(c, to, type, src)
      /\ callReply' = [callReply EXCEPT ![c] = CallRequest(c, type, dst)]
      /\ UNCHANGED <<messages, reverted>>
  BY Zenon DEF Reply, SendReply, connVars
<1>2. XcallInv /\ TypeOK /\ XcallTypeOK
  BY Zenon DEF SysInv, TypeOK
<1>3. Grows /\ sn'[c] = NextSn(c) /\ NextSn(c) \in Sns
  BY <1>1, <1>2, StoreCallGrows, Zenon
<1>4. /\ \A d \in Chain : sn[d] \in Nat /\ sn'[d] \in Nat /\ sn[d] <= sn'[d]
      /\ Sns \subseteq Nat
      /\ \A e \in messages : e.src \in Chain
  BY <1>2, <1>3, XcallAssumption DEF Grows, Sns, TypeOK, ConnTypeOK, Event
<1>5. NumbersApart'
  BY <1>1, Zenon DEF NumberInv, NumbersApart
<1>6. NumbersHandedOut'
  <2>1. ASSUME NEW e \in messages, NEW s \in Sns, Carries(e.msg, s)
        PROVE  s <= sn'[e.src]
    <3>1. s <= sn[e.src]
      BY <2>1, Zenon DEF NumberInv, NumbersHandedOut
    <3> QED
      BY <1>4, <3>1
  <2> QED
    BY <1>1, <2>1, Zenon DEF NumberInv, NumbersHandedOut
<1>7. ReplyKeptBack'
  <2> SUFFICES ASSUME NEW d \in Chain, callReply'[d] # None
               PROVE  /\ callReply'[d].from = d
                      /\ callReply'[d].sn <= sn'[d]
                      /\ \A e \in messages : e.src = d =>
                           ~Carries(e.msg, callReply'[d].sn)
    BY <1>1, Zenon DEF ReplyKeptBack
  <2>1. CASE d = c
    <3>1. callReply'[d] = CallRequest(c, type, dst)
      BY <1>1, <1>2, <2>1, Zenon DEF XcallTypeOK
    <3>2. callReply'[d].from = c /\ callReply'[d].sn = NextSn(c)
      BY <3>1 DEF CallRequest
    <3>3. \A e \in messages : e.src = c => ~Carries(e.msg, NextSn(c))
      <4>1. \A e \in messages :
              e.src = c /\ Carries(e.msg, NextSn(c)) => NextSn(c) <= sn[c]
        BY <1>3, Zenon DEF NumberInv, NumbersHandedOut
      <4> QED
        BY <1>4, <4>1 DEF NextSn
    <3>4. NextSn(c) <= sn'[c]
      BY <1>3, <1>4
    <3> QED
      BY <2>1, <3>2, <3>3, <3>4, Zenon
  <2>2. CASE d # c
    <3>1. callReply'[d] = callReply[d]
      BY <1>1, <1>2, <2>2, Zenon DEF XcallTypeOK
    <3>2. callReply[d].sn \in Nat
      <4>1. callReply[d] \in Request
        BY <1>2, <3>1, Zenon DEF XcallTypeOK
      <4> QED
        BY <4>1, XcallAssumption DEF Request, Sns
    <3> QED
      BY <1>4, <3>1, <3>2 DEF NumberInv, ReplyKeptBack
  <2> QED
    BY <2>1, <2>2, Zenon
<1> QED
  BY <1>5, <1>6, <1>7, Zenon DEF NumberInv

LEMMA NumberInvFinish ==
  ASSUME SysInv, NumberInv, NEW c \in Chain, NEW to \in Chain,
         NEW res \in Result, res.reply \in {None, callReply[c]},
         Emits(c, to, CSResult(res)), Fresh(c, CSResult(res)),
         callReply' = [callReply EXCEPT ![c] = None], UNCHANGED sn
  PROVE  NumberInv'
<1>1. TypeOK /\ XcallTypeOK /\ CSResult(res) \in CSMessage
  BY MessageTypes, Zenon DEF SysInv, TypeOK
<1>2. \A d \in Chain : sn[d] \in Nat /\ sn'[d] \in Nat /\ sn[d] <= sn'[d]
  BY <1>1, XcallAssumption DEF XcallTypeOK
<1>3. res.reply # None => res.reply.from = c
  BY Zenon DEF NumberInv, ReplyKeptBack
<1>4. NumbersApart' /\ NumbersHandedOut'
  BY <1>1, <1>2, <1>3, EmitKeepsNumbers, Zenon DEF CSResult
<1>5. ReplyKeptBack'
  <2> SUFFICES ASSUME NEW d \in Chain, callReply'[d] # None
               PROVE  /\ callReply'[d].from = d
                      /\ callReply'[d].sn <= sn'[d]
                      /\ \A e \in messages' : e.src = d =>
                           ~Carries(e.msg, callReply'[d].sn)
    BY Zenon DEF ReplyKeptBack
  <2>1. d # c /\ callReply'[d] = callReply[d]
    BY <1>1, Zenon DEF XcallTypeOK
  <2> QED
    BY <2>1, Zenon DEF NumberInv, ReplyKeptBack, Emits
<1> QED
  BY <1>4, <1>5, Zenon DEF NumberInv

LEMMA NumberInvQuiet ==
  ASSUME NumberInv, UNCHANGED <<messages, sn, callReply>>
  PROVE  NumberInv'
BY Zenon DEF NumberInv, NumbersApart, NumbersHandedOut, ReplyKeptBack

-----------------------------------------------------------------------------
(***************************************************************************)
(* The kinds of steps                                                      *)
(***************************************************************************)
Sends ==
  /\ \E c, to \in Chain, m \in CSMessage :
       Emits(c, to, m) /\ Fresh(c, m) /\ (NamedLists => EmitsOnce)
  /\ UNCHANGED <<receipts, pendingRequests, admitted, successfulResponses>>

Idles ==
  UNCHANGED <<messages, receipts, pendingRequests, admitted,
              successfulResponses>>

Delivers == \E c \in Chain : \E e \in messages : Deliver(c, e)

LEMMA SendKind ==
  ASSUME SysInv, NumberInv, XcallTypeOK', NEW c \in Chain, NEW to \in Chain,
         NEW type \in MsgType, NEW src \in Protocols, NEW dst \in Protocols,
         Send(c, to, type, src, dst)
  PROVE  NumberInv' /\ Sends
<1>1. NumberInv'
  BY NumberInvSend, Zenon
<1>2. UNCHANGED <<pendingRequests, admitted, successfulResponses>>
  BY Zenon DEF Send, SendCall, StoreCall
<1>3. PICK req \in Request :
        /\ Emits(c, to, CSRequest(req)) /\ (NamedLists => EmitsOnce)
        /\ Fresh(c, CSRequest(req))
        /\ UNCHANGED receipts
  BY SendEmits, Zenon
<1>4. PICK m \in CSMessage : m = CSRequest(req)
  BY MessageTypes, Zenon
<1> QED
  BY <1>1, <1>2, <1>3, <1>4, Zenon DEF Sends

LEMMA ReplyKind ==
  ASSUME SysInv, NumberInv, XcallTypeOK', NEW c \in Chain, NEW to \in Chain,
         NEW type \in MsgType, NEW src \in Protocols, NEW dst \in Protocols,
         Reply(c, to, type, src, dst)
  PROVE  NumberInv' /\ Idles
<1>1. NumberInv'
  BY NumberInvReply, Zenon
<1> QED
  BY <1>1, Zenon DEF Idles, Reply, SendReply, StoreCall, connVars

LEMMA FinishKind ==
  ASSUME SysInv, NumberInv, NEW c \in Chain, NEW id \in ReqIds,
         NEW code \in Code, NEW reply \in {None, callReply[c]},
         proxyRequest[c][id] # None, FinishCall(c, id, code),
         CanRespond(c, proxyRequest[c][id]),
         Respond(c, proxyRequest[c][id],
                 [sn |-> proxyRequest[c][id].sn, code |-> code,
                  reply |-> reply])
  PROVE  NumberInv' /\ Sends
<1>1. /\ \E to \in Chain, res \in Result :
           /\ res.reply = reply
           /\ Emits(c, to, CSResult(res)) /\ (NamedLists => EmitsOnce)
           /\ Fresh(c, CSResult(res))
      /\ callReply' = [callReply EXCEPT ![c] = None]
      /\ UNCHANGED <<sn, receipts, pendingRequests, admitted,
                     successfulResponses>>
  BY FinishEmits, Zenon
<1>2. PICK to \in Chain, res \in Result :
        /\ res.reply = reply
        /\ Emits(c, to, CSResult(res)) /\ (NamedLists => EmitsOnce)
        /\ Fresh(c, CSResult(res))
  BY <1>1, Zenon
<1>3. NumberInv'
  BY <1>1, <1>2, NumberInvFinish, Zenon
<1>4. PICK m \in CSMessage : m = CSResult(res)
  BY MessageTypes, Zenon
<1> QED
  BY <1>1, <1>2, <1>3, <1>4, Zenon DEF Sends

LEMMA ExecutionOkKind ==
  ASSUME SysInv, NumberInv, NEW c \in Chain, ExecutionOk(c)
  PROVE  NumberInv' /\ Sends
<1>1. XcallInv /\ TypeOK /\ XcallTypeOK
  BY Zenon DEF SysInv, TypeOK
<1>2. executeRequestId[c] \in ReqIds /\ Success \in Code
  <2>1. executeRequestId[c] \in 0..MaxReqId /\ executeRequestId[c] # 0
    BY <1>1, Zenon DEF ExecutionOk, ExecuteCallReplyOk, XcallTypeOK
  <2> QED
    BY <2>1, XcallAssumption DEF ReqIds, Code, Success
<1>3. PICK id \in ReqIds : id = executeRequestId[c]
  BY <1>2, Zenon
<1>4. /\ proxyRequest[c][id] # None
      /\ FinishCall(c, id, Success)
      /\ CanRespond(c, proxyRequest[c][id])
  BY <1>1, <1>3, Zenon
     DEF ExecutionOk, ExecuteCallReplyOk, XcallInv, RequestsById, SysInv,
         RouteKept
<1>5. PICK reply \in {None, callReply[c]} : reply = callReply[c]
  BY Zenon
<1>6. Respond(c, proxyRequest[c][id],
              [sn |-> proxyRequest[c][id].sn, code |-> Success,
               reply |-> reply])
  BY <1>3, <1>5, Zenon DEF ExecutionOk, OkResult
<1> QED
  BY <1>2, <1>4, <1>6, FinishKind, Zenon

LEMMA ExecutionErrKind ==
  ASSUME SysInv, NumberInv, NEW c \in Chain, NEW id \in ReqIds,
         ExecutionErr(c, id)
  PROVE  NumberInv' /\ Sends
<1>1. /\ proxyRequest[c][id] # None
      /\ FinishCall(c, id, Failure)
      /\ CanRespond(c, proxyRequest[c][id])
  BY Zenon DEF ExecutionErr, ExecuteCallReplyErr
<1>2. PICK reply \in {None, callReply[c]} : reply = None
  BY Zenon
<1>3. Respond(c, proxyRequest[c][id],
              [sn |-> proxyRequest[c][id].sn, code |-> Failure,
               reply |-> reply])
  BY <1>2, Zenon DEF ExecutionErr, ErrResult
<1>4. Failure \in Code
  BY Zenon DEF Code, Failure
<1> QED
  BY <1>1, <1>3, <1>4, FinishKind, Zenon

LEMMA DeliverKind ==
  ASSUME SysInv, NumberInv, NEW c \in Chain, NEW e \in messages, Deliver(c, e)
  PROVE  NumberInv' /\ Delivers
<1>1. UNCHANGED <<messages, sn, callReply>>
  BY Zenon DEF Deliver, RecvMessage, HandleMessage, HandleRequestPending,
         HandleRequest, HandleResult, HandleResultPending,
         HandleResultSuccess, HandleResultFailure
<1>2. NumberInv'
  BY <1>1, NumberInvQuiet, Zenon
<1> QED
  BY <1>2, Zenon DEF Delivers

LEMMA OtherKinds ==
  ASSUME NumberInv, NEW c \in Chain,
         \/ \E k \in Conn, s \in Sns : RevertMessage(c, k, s)
         \/ \E id \in ReqIds : Execute(c, id)
         \/ \E s \in Sns : RunRollback(c, s)
         \/ \E nid \in Chain, k \in Conn : SetDefault(c, nid, k)
  PROVE  NumberInv' /\ Idles
<1>1. UNCHANGED <<sn, callReply>> /\ Idles
  BY Zenon DEF RevertMessage, HandleError, HandleResultPending,
         HandleResultFailure, Execute, ExecuteCall, RunRollback,
         ExecuteRollback, SetDefault, SetDefaultConnection, history,
         connVars, Idles
<1>2. NumberInv'
  BY <1>1, NumberInvQuiet, Zenon DEF Idles
<1> QED
  BY <1>1, <1>2, Zenon

\* Every step keeps the numbers apart and is of one of the kinds.
LEMMA StepKinds ==
  ASSUME SysInv, NumberInv, [Next]_sysVars
  PROVE  NumberInv' /\ (Sends \/ Idles \/ Delivers)
<1>1. XcallTypeOK'
  BY SysInvStep, Zenon DEF SysInv, TypeOK
<1>2. CASE UNCHANGED sysVars
  <2>1. UNCHANGED <<sn, callReply>> /\ Idles
    BY <1>2, Zenon DEF sysVars, xcallVars, stateVars, history, connVars, Idles
  <2>2. NumberInv'
    BY <2>1, NumberInvQuiet, Zenon DEF Idles
  <2> QED
    BY <2>1, <2>2, Zenon
<1>3. CASE Next
  <2>1. PICK c \in Chain :
          \/ \E to \in Chain \ {c}, type \in MsgType, src, dst \in Protocols :
               \/ Send(c, to, type, src, dst)
               \/ Reply(c, to, type, src, dst)
          \/ \E e \in messages : Deliver(c, e)
          \/ \E k \in Reverters, s \in Sns : RevertMessage(c, k, s)
          \/ \E id \in ReqIds : Execute(c, id)
          \/ ExecutionOk(c)
          \/ \E id \in ReqIds : ExecutionErr(c, id)
          \/ \E s \in Sns : RunRollback(c, s)
          \/ \E nid \in Chain \ {c}, k \in DefaultConns : SetDefault(c, nid, k)
    BY <1>3, Zenon DEF Next
  <2>2. CASE \E to \in Chain \ {c}, type \in MsgType, src, dst \in Protocols :
               \/ Send(c, to, type, src, dst)
               \/ Reply(c, to, type, src, dst)
    BY <1>1, <2>2, SendKind, ReplyKind, Zenon
  <2>3. CASE \E e \in messages : Deliver(c, e)
    BY <2>3, DeliverKind, Zenon
  <2>4. CASE \/ \E k \in Reverters, s \in Sns : RevertMessage(c, k, s)
             \/ \E id \in ReqIds : Execute(c, id)
             \/ \E s \in Sns : RunRollback(c, s)
             \/ \E nid \in Chain \ {c}, k \in DefaultConns :
                  SetDefault(c, nid, k)
    BY <2>4, OtherKinds, SystemAssumption, Zenon
  <2>5. CASE ExecutionOk(c)
    BY <2>5, ExecutionOkKind, Zenon
  <2>6. CASE \E id \in ReqIds : ExecutionErr(c, id)
    BY <2>6, ExecutionErrKind, Zenon
  <2> QED
    BY <2>1, <2>2, <2>3, <2>4, <2>5, <2>6, Zenon
<1> QED
  BY <1>2, <1>3, Zenon

\* A number of a chain is on the wire in one message only, and the reply that
\* an execution keeps is in none.
THEOREM NumberInvariance == Spec => []NumberInv
<1>1. Init => NumberInv
  BY NumberInvInit, Zenon
<1>2. SysInv /\ NumberInv /\ [Next]_sysVars => NumberInv'
  BY StepKinds, Zenon
<1> QED
  BY <1>1, <1>2, SystemInvariance, PTL DEF Spec

\* A reply travels in the result of the one call that it answers, and is not
\* sent as a request as well: call_reply never leaks into another execution.
THEOREM ReplyOfOneCallAlways == Spec => []ReplyOfOneCall
<1>1. SysInv /\ NumberInv => ReplyOfOneCall
  <2> SUFFICES ASSUME SysInv, NumberInv, NEW e \in messages, NEW f \in messages,
                      e.msg.type = "CSMessageResult",
                      e.msg.payload.reply # None
               PROVE  /\ f.msg.type = "CSMessageResult" =>
                           (e.msg.payload.reply = f.msg.payload.reply
                              /\ e.src = f.src =>
                                e.dst = f.dst /\ e.msg = f.msg)
                      /\ f.msg.type = "CSMessageRequest" =>
                           f.msg.payload # e.msg.payload.reply
    BY Zenon DEF ReplyOfOneCall
  <2>1. e.msg \in CSMessage
    BY Zenon DEF SysInv, TypeOK, ConnTypeOK, Event
  <2>2. e.msg.payload.reply \in Request
    BY <2>1, Payloads, Zenon DEF Result
  <2>3. PICK s \in Sns : s = e.msg.payload.reply.sn
    BY <2>2, Zenon DEF Request
  <2>4. Carries(e.msg, s)
    BY <2>3, Zenon DEF Carries
  <2>5. ASSUME f.msg.type = "CSMessageResult",
               e.msg.payload.reply = f.msg.payload.reply, e.src = f.src
        PROVE  e.dst = f.dst /\ e.msg = f.msg
    <3>1. Carries(f.msg, s)
      BY <2>3, <2>5, Zenon DEF Carries
    <3> QED
      BY <2>4, <2>5, <3>1, Zenon DEF NumberInv, NumbersApart
  <2>6. ASSUME f.msg.type = "CSMessageRequest",
               f.msg.payload = e.msg.payload.reply
        PROVE  FALSE
    <3>1. Carries(f.msg, s)
      BY <2>3, <2>6, Zenon DEF Carries
    <3>2. f.src = f.msg.payload.from /\ e.src = e.msg.payload.reply.from
      BY <2>6, Zenon DEF SysInv, RequestEvents, TrueRequest, NumberInv,
                  NumbersHandedOut
    <3>3. e.msg = f.msg
      BY <2>4, <2>6, <3>1, <3>2, Zenon DEF NumberInv, NumbersApart
    <3> QED
      BY <2>6, <3>3, Zenon
  <2> QED
    BY <2>5, <2>6, Zenon
<1> QED
  BY <1>1, SystemInvariance, NumberInvariance, PTL

-----------------------------------------------------------------------------
(***************************************************************************)
(* At most once                                                            *)
(***************************************************************************)

\* A request that was sent takes a number.
LEMMA SentCarries ==
  ASSUME TypeOK, NEW c \in Chain, NEW req \in Request,
         RequestSent(c, req) \/ ReplySent(c, req)
  PROVE  /\ req.sn \in Sns
         /\ \E e \in messages :
              e.src = req.from /\ e.dst = c /\ Carries(e.msg, req.sn)
BY DEF RequestSent, ReplySent, Carries, CSRequest, Request

\* Sending a fresh message spends nothing and repeats nothing.
LEMMA OnceInvSends ==
  ASSUME NamedLists, TypeOK, OnceInv, Sends
  PROVE  OnceInv'
<1>1. PICK c \in Chain, to \in Chain, m \in CSMessage :
        Emits(c, to, m) /\ Fresh(c, m) /\ EmitsOnce
  BY Zenon DEF Sends
<1>2. UNCHANGED <<receipts, pendingRequests, admitted, successfulResponses>>
  BY Zenon DEF Sends
<1>3. SentOverOnce'
  BY <1>1, Zenon DEF OnceInv, SentOverOnce, Emits, EmitsOnce, Fresh
<1>4. ASSUME NEW d \in Chain, NEW req \in Request, RequestSent(d, req)
      PROVE  /\ RequestSent(d, req)'
             /\ \A k : Received(d, req, k) => Received(d, req, k)'
  <2>1. RequestSent(d, req)'
    BY <1>1, <1>4, Zenon DEF RequestSent, Emits
  <2>2. PICK e \in messages : e.src = req.from /\ Carries(e.msg, req.sn)
    BY <1>4, SentCarries, Zenon
  <2>3. req.sn \in Sns
    BY Zenon DEF Request
  <2>4. \A f \in messages' :
          f.src = req.from /\ Carries(f.msg, req.sn) => f \in messages
    BY <1>1, <2>2, <2>3, Zenon DEF Emits, Fresh
  <2> QED
    BY <1>2, <2>1, <2>4, Zenon DEF Received
<1>5. ASSUME NEW d \in Chain, NEW req, ReplySent(d, req)
      PROVE  ReplySent(d, req)'
  BY <1>1, <1>2, <1>5, Zenon DEF ReplySent, Emits
<1>6. PendingSpent'
  <2> SUFFICES ASSUME NEW d \in Chain, NEW p \in pendingRequests[d]
               PROVE  RequestSent(d, p[1])' /\ Received(d, p[1], p[2])'
    BY <1>2, Zenon DEF PendingSpent
  <2>1. PICK req \in Request : req = p[1]
    BY DEF TypeOK, XcallTypeOK
  <2>2. RequestSent(d, req) /\ Received(d, req, p[2])
    BY <2>1, Zenon DEF OnceInv, PendingSpent
  <2>3. PICK k : k = p[2]
    BY Zenon
  <2>4. RequestSent(d, req)' /\ Received(d, req, k)'
    BY <1>4, <2>2, <2>3, Zenon
  <2>5. UNCHANGED p
    BY Zenon
  <2> QED
    BY <2>1, <2>3, <2>4, <2>5, Zenon
<1>7. AdmittedSpent'
  <2> SUFFICES ASSUME NEW d \in Chain, NEW x \in admitted[d]
               PROVE  RequestSpent(d, x[2])' \/ ReplySent(d, x[2])'
    BY <1>2, Zenon DEF AdmittedSpent
  <2>1. PICK req \in Request : req = x[2]
    BY DEF TypeOK, XcallTypeOK
  <2>2. RequestSpent(d, req) \/ ReplySent(d, req)
    BY <2>1, Zenon DEF OnceInv, AdmittedSpent
  <2>3. RequestSpent(d, req)' \/ ReplySent(d, req)'
    BY <1>4, <1>5, <2>2, Zenon DEF RequestSpent
  <2> QED
    BY <2>1, <2>3, Zenon
<1>8. AtMostOnce'
  BY <1>2, SMTT(30) DEF OnceInv, AtMostOnce
<1> QED
  BY <1>3, <1>6, <1>7, <1>8, Zenon DEF OnceInv

\* What was spent stays spent.
LEMMA SpentKept ==
  ASSUME UNCHANGED messages, NEW d \in Chain, NEW req,
         receipts[d] \subseteq receipts'[d],
         successfulResponses[d] \subseteq successfulResponses'[d]
  PROVE  /\ RequestSent(d, req) => RequestSent(d, req)'
         /\ \A k : Received(d, req, k) => Received(d, req, k)'
         /\ RequestSpent(d, req) => RequestSpent(d, req)'
         /\ ReplySent(d, req) => ReplySent(d, req)'
<1>1. RequestSent(d, req) => RequestSent(d, req)'
  BY Zenon DEF RequestSent
<1>2. \A k : Received(d, req, k) => Received(d, req, k)'
  BY Zenon DEF Received
<1>3. ReplySent(d, req) => ReplySent(d, req)'
  BY Zenon DEF ReplySent
<1> QED
  BY <1>1, <1>2, <1>3, Zenon DEF RequestSpent

\* A step that sends nothing keeps the invariant if what it collects and
\* admits anew is spent, and what it admits was not admitted before.
LEMMA OnceInvKept ==
  ASSUME OnceInv, UNCHANGED messages,
         \A d \in Chain : receipts[d] \subseteq receipts'[d],
         \A d \in Chain : successfulResponses[d] \subseteq successfulResponses'[d],
         \A d \in Chain : \A p \in pendingRequests'[d] :
           \/ p \in pendingRequests[d]
           \/ RequestSent(d, p[1])' /\ Received(d, p[1], p[2])',
         \A d \in Chain : \A x \in admitted'[d] :
           \/ x \in admitted[d]
           \/ RequestSpent(d, x[2])' \/ ReplySent(d, x[2])',
         AtMostOnce'
  PROVE  OnceInv'
<1>1. SentOverOnce'
  BY Zenon DEF OnceInv, SentOverOnce
<1>2. PendingSpent'
  <2> SUFFICES ASSUME NEW d \in Chain, NEW p \in pendingRequests[d]
               PROVE  RequestSent(d, p[1])' /\ Received(d, p[1], p[2])'
    BY Zenon DEF PendingSpent
  <2>1. PICK req : req = p[1]
    BY Zenon
  <2>2. PICK k : k = p[2]
    BY Zenon
  <2>3. RequestSent(d, req) /\ Received(d, req, k)
    BY <2>1, <2>2, Zenon DEF OnceInv, PendingSpent
  <2>4. RequestSent(d, req)' /\ Received(d, req, k)'
    BY <2>3, SpentKept, Zenon
  <2> QED
    BY <2>1, <2>2, <2>4, Zenon
<1>3. AdmittedSpent'
  <2> SUFFICES ASSUME NEW d \in Chain, NEW x \in admitted[d]
               PROVE  RequestSpent(d, x[2])' \/ ReplySent(d, x[2])'
    BY Zenon DEF AdmittedSpent
  <2>1. PICK req : req = x[2]
    BY Zenon
  <2>2. RequestSpent(d, req) \/ ReplySent(d, req)
    BY <2>1, Zenon DEF OnceInv, AdmittedSpent
  <2>3. RequestSpent(d, req)' \/ ReplySent(d, req)'
    BY <2>2, SpentKept, Zenon
  <2> QED
    BY <2>1, <2>3, Zenon
<1> QED
  BY <1>1, <1>2, <1>3, Zenon DEF OnceInv

\* Admitting a request whose number was not admitted before.
LEMMA AdmitOnce ==
  ASSUME AtMostOnce, NEW c \in Chain, NEW id, NEW req,
         admitted \in [Chain -> SUBSET (ReqIds \X Request)],
         admitted' = [admitted EXCEPT ![c] = @ \cup {<<id, req>>}],
         \A d \in Chain : \A x \in admitted[d] :
           ~(x[2].from = req.from /\ x[2].sn = req.sn)
  PROVE  /\ AtMostOnce'
         /\ \A d \in Chain : \A x \in admitted'[d] :
              x \in admitted[d] \/ (d = c /\ x[2] = req)
<1>1. \A d \in Chain : \A x \in admitted'[d] :
        x \in admitted[d] \/ (d = c /\ x = <<id, req>>)
  BY Zenon
<1> QED
  BY <1>1 DEF AtMostOnce

LEMMA OnceInvIdles ==
  ASSUME OnceInv, Idles
  PROVE  OnceInv'
<1>1. UNCHANGED <<messages, receipts, pendingRequests, admitted,
                  successfulResponses>>
  BY Zenon DEF Idles
<1>2. SentOverOnce' /\ PendingSpent'
  BY <1>1, Zenon
     DEF OnceInv, SentOverOnce, PendingSpent, RequestSent, Received
<1>3. \A d, req : RequestSpent(d, req) => RequestSpent(d, req)'
  BY <1>1, Zenon DEF RequestSpent, RequestSent, Received
<1>4. \A d, req : ReplySent(d, req) => ReplySent(d, req)'
  BY <1>1, Zenon DEF ReplySent
<1>5. AdmittedSpent'
  BY <1>1, <1>3, <1>4, Zenon DEF OnceInv, AdmittedSpent
<1>6. AtMostOnce'
  BY <1>1, SMTT(30) DEF OnceInv, AtMostOnce
<1> QED
  BY <1>2, <1>5, <1>6, Zenon DEF OnceInv

\* Whoever was admitted under the number of event e came with the message of e.
LEMMA AdmittedBefore ==
  ASSUME TypeOK, NumberInv, OnceInv, NEW e \in messages, NEW s \in Sns,
         Carries(e.msg, s), NEW d \in Chain, NEW x \in admitted[d],
         x[2].from = e.src, x[2].sn = s
  PROVE  /\ e.dst = d
         /\ \/ RequestSpent(d, x[2]) /\ e.msg = CSRequest(x[2])
            \/ /\ e.msg.type = "CSMessageResult"
               /\ e.msg.payload.sn \in successfulResponses[d]
<1>1. CASE RequestSpent(d, x[2])
  <2>1. PICK f \in messages :
          f.src = e.src /\ f.dst = d /\ f.msg = CSRequest(x[2])
    BY <1>1, Zenon DEF RequestSpent, RequestSent
  <2>2. Carries(f.msg, s)
    BY <2>1 DEF Carries, CSRequest
  <2> QED
    BY <1>1, <2>1, <2>2, Zenon DEF NumberInv, NumbersApart
<1>2. CASE ReplySent(d, x[2])
  <2>1. PICK f \in messages :
          /\ f.src = e.src /\ f.dst = d
          /\ f.msg.type = "CSMessageResult" /\ f.msg.payload.reply # None
          /\ f.msg.payload.reply.sn = s
          /\ f.msg.payload.sn \in successfulResponses[d]
    BY <1>2, Zenon DEF ReplySent
  <2>2. Carries(f.msg, s)
    BY <2>1, Zenon DEF Carries
  <2> QED
    BY <2>1, <2>2, Zenon DEF NumberInv, NumbersApart
<1> QED
  BY <1>1, <1>2, ZenonT(30) DEF OnceInv, AdmittedSpent

\* The receipt of a delivery is new, and stays.
LEMMA DeliverReceipt ==
  ASSUME ConnTypeOK, NEW c \in Chain, NEW e \in messages, Deliver(c, e)
  PROVE  /\ e.dst = c /\ UNCHANGED messages
         /\ <<e.conn, e.src, e.connSn>> \notin receipts[c]
         /\ <<e.conn, e.src, e.connSn>> \in receipts'[c]
         /\ \A d \in Chain : receipts[d] \subseteq receipts'[d]
BY Zenon DEF Deliver, RecvMessage, ConnTypeOK

LEMMA OnceInvRequest ==
  ASSUME NamedLists, SysInv, NumberInv, OnceInv, NEW c \in Chain,
         NEW e \in messages, Deliver(c, e), e.msg.type = "CSMessageRequest"
  PROVE  OnceInv'
<1>1. TypeOK /\ XcallTypeOK /\ ConnTypeOK /\ XcallInv
  BY Zenon DEF SysInv, TypeOK
<1>2. /\ e.dst = c /\ UNCHANGED messages
      /\ <<e.conn, e.src, e.connSn>> \notin receipts[c]
      /\ <<e.conn, e.src, e.connSn>> \in receipts'[c]
      /\ \A d \in Chain : receipts[d] \subseteq receipts'[d]
  BY <1>1, DeliverReceipt, Zenon
<1>3. e.msg \in CSMessage /\ e.conn \in Conn
  BY <1>1, Zenon DEF ConnTypeOK, Event
<1>4. PICK req \in Request : e.msg = CSRequest(req)
  BY <1>3, Zenon DEF CSMessage, CSRequest
<1>5. \/ HandleRequestPending(c, e.src, e.conn, req)
      \/ HandleRequest(c, e.src, e.conn, req)
  BY <1>4 DEF Deliver, HandleMessage, CSRequest
<1>6. /\ req.from = e.src
      /\ req.sn \in Sns
      /\ req.protocols \in Protocols /\ req.protocols # <<>>
      /\ e.conn \in Range(req.protocols)
      /\ Carries(e.msg, req.sn)
      /\ UNCHANGED successfulResponses
  <2>1. /\ RequestAccepted(c, e.src, e.conn, req)
        /\ UNCHANGED successfulResponses
    BY <1>5, ZenonT(30) DEF HandleRequestPending, HandleRequest
  <2>2. req.sn \in Sns /\ req.protocols \in Protocols
    BY Zenon DEF Request
  <2>3. req.protocols # <<>>
    BY <2>2, Zenon DEF NamedLists
  <2>4. req.from = e.src /\ e.conn \in Range(req.protocols)
    BY <2>1, <2>3, Zenon DEF RequestAccepted, IsValidSource, Confirmed
  <2>5. Carries(e.msg, req.sn)
    BY <1>4 DEF Carries, CSRequest
  <2> QED
    BY <2>1, <2>2, <2>3, <2>4, <2>5, Zenon
<1>7. RequestSent(c, req)' /\ Received(c, req, e.conn)'
  <2>1. RequestSent(c, req)'
    BY <1>2, <1>4, <1>6, ZenonT(30) DEF RequestSent
  <2>2. \A f \in messages :
          (f.src = req.from /\ f.conn = e.conn /\ Carries(f.msg, req.sn)) => f = e
    BY <1>6, Zenon DEF OnceInv, SentOverOnce
  <2> QED
    BY <1>2, <2>1, <2>2, Zenon DEF Received
<1>8. CASE HandleRequestPending(c, e.src, e.conn, req)
  <2>1. /\ UNCHANGED admitted
        /\ pendingRequests' = [pendingRequests EXCEPT ![c] =
                                 @ \cup {<<req, e.conn>>}]
    BY <1>8, ZenonT(30) DEF HandleRequestPending
  <2>2. \A d \in Chain : \A p \in pendingRequests'[d] :
          \/ p \in pendingRequests[d]
          \/ d = c /\ p = <<req, e.conn>>
    BY <1>1, <2>1, Zenon DEF XcallTypeOK
  <2>3. \A d \in Chain : \A p \in pendingRequests'[d] :
          \/ p \in pendingRequests[d]
          \/ RequestSent(d, p[1])' /\ Received(d, p[1], p[2])'
    <3>1. ASSUME NEW p, p = <<req, e.conn>>
          PROVE  RequestSent(c, p[1])' /\ Received(c, p[1], p[2])'
      BY <1>7, <3>1, Zenon
    <3> QED
      BY <2>2, <3>1, Zenon
  <2>4. AtMostOnce'
    BY <2>1 DEF OnceInv, AtMostOnce
  <2> QED
    BY <1>2, <1>6, <2>1, <2>3, <2>4, OnceInvKept, Zenon
<1>9. CASE HandleRequest(c, e.src, e.conn, req)
  <2>1. PICK id \in ReqIds :
          admitted' = [admitted EXCEPT ![c] = @ \cup {<<id, req>>}]
    BY <1>9, ZenonT(30) DEF HandleRequest, StoreProxyRequest
  <2>3. \A d \in Chain : pendingRequests'[d] \subseteq pendingRequests[d]
    BY <1>1, <1>9, Zenon DEF HandleRequest, XcallTypeOK
  <2>4. \A k \in Range(req.protocols) : Received(c, req, k)'
    <3>1. \A q \in Conn : <<req, q>> \in pendingRequests[c] =>
            q \in Range(req.protocols)
      BY <1>1, Zenon DEF XcallInv, PendingHeard
    <3>2. Complete(pendingRequests[c], req, e.conn, req.protocols)
      BY <1>9, Zenon DEF HandleRequest
    <3>3. Range(req.protocols)
            \subseteq Registered(pendingRequests[c], req, e.conn)
      BY <1>3, <1>6, <3>1, <3>2, CompleteMeansAll, ZenonT(20)
    <3>4. ASSUME NEW k, <<req, k>> \in pendingRequests[c]
          PROVE  Received(c, req, k)'
      <4>1. Received(c, req, k)
        BY <3>4, Zenon DEF OnceInv, PendingSpent
      <4> QED
        BY <1>2, <1>6, <4>1, SpentKept, Zenon
    <3> QED
      BY <1>7, <3>3, <3>4, ZenonT(30) DEF Registered
  <2>5. RequestSpent(c, req)'
    BY <1>7, <2>4, Zenon DEF RequestSpent
  <2>6. ASSUME NEW d \in Chain, NEW x \in admitted[d],
               x[2].from = req.from, x[2].sn = req.sn
        PROVE  FALSE
    <3>1. e.dst = d /\ RequestSpent(d, x[2]) /\ e.msg = CSRequest(x[2])
      <4>1. e.msg.type # "CSMessageResult"
        BY <1>4, Zenon DEF CSRequest
      <4>2. PICK s \in Sns : s = req.sn
        BY <1>6, Zenon
      <4>3. Carries(e.msg, s) /\ x[2].from = e.src /\ x[2].sn = s
        BY <1>6, <2>6, <4>2, Zenon
      <4>4. /\ e.dst = d
            /\ \/ RequestSpent(d, x[2]) /\ e.msg = CSRequest(x[2])
               \/ e.msg.type = "CSMessageResult"
        BY <1>1, <4>3, AdmittedBefore
      <4> QED
        BY <4>1, <4>4, Zenon
    <3>2. x[2] = req
      BY <1>4, <3>1, SMTT(30) DEF CSRequest
    <3>3. Received(c, req, e.conn)
      BY <1>2, <1>6, <3>1, <3>2, Zenon DEF RequestSpent
    <3> QED
      BY <1>2, <1>6, <3>3, ZenonT(30) DEF Received
  <2>7. /\ AtMostOnce'
        /\ \A d \in Chain : \A x \in admitted'[d] :
             x \in admitted[d] \/ (d = c /\ x[2] = req)
    <3>1. /\ AtMostOnce
          /\ admitted \in [Chain -> SUBSET (ReqIds \X Request)]
      BY <1>1, Zenon DEF OnceInv, XcallTypeOK
    <3> QED
      BY <2>1, <2>6, <3>1, AdmitOnce, ZenonT(30)
  <2>8. ASSUME NEW d \in Chain, NEW x \in admitted'[d], x \notin admitted[d]
        PROVE  RequestSpent(d, x[2])'
    BY <2>5, <2>7, <2>8, Zenon
  <2> QED
    BY <1>2, <1>6, <2>3, <2>7, <2>8, OnceInvKept, Zenon
<1> QED
  BY <1>5, <1>8, <1>9, Zenon

LEMMA OnceInvResult ==
  ASSUME SysInv, NumberInv, OnceInv, NEW c \in Chain, NEW e \in messages,
         Deliver(c, e), e.msg.type = "CSMessageResult"
  PROVE  OnceInv'
<1>1. TypeOK /\ XcallTypeOK /\ ConnTypeOK /\ XcallInv
  BY Zenon DEF SysInv, TypeOK
<1>2. /\ e.dst = c /\ UNCHANGED messages
      /\ \A d \in Chain : receipts[d] \subseteq receipts'[d]
  BY <1>1, DeliverReceipt, ZenonT(30)
<1>3. e.msg \in CSMessage /\ e.conn \in Conn
  BY <1>1, Zenon DEF ConnTypeOK, Event
<1>4. PICK res \in Result : res = e.msg.payload
  BY <1>3, Payloads, Zenon
<1>5. HandleResult(c, e.conn, res)
  BY <1>4, Zenon DEF Deliver, HandleMessage
<1>6. UNCHANGED pendingRequests
  BY <1>5, Zenon DEF HandleResult, HandleResultPending, HandleResultSuccess,
              HandleResultFailure
<1>7. /\ \A d \in Chain :
           successfulResponses[d] \subseteq successfulResponses'[d]
      /\ HandleResultSuccess(c, e.conn, res) => res.sn \in successfulResponses'[c]
  <2>1. successfulResponses \in [Chain -> SUBSET Sns]
    BY <1>1, Zenon DEF XcallTypeOK
  <2>2. \/ /\ HandleResultSuccess(c, e.conn, res)
           /\ successfulResponses' =
                [successfulResponses EXCEPT ![c] = @ \cup {res.sn}]
        \/ UNCHANGED successfulResponses /\ ~HandleResultSuccess(c, e.conn, res)
    <3>1. HandleResultSuccess(c, e.conn, res) => successfulResponses' =
            [successfulResponses EXCEPT ![c] = @ \cup {res.sn}]
      BY Zenon DEF HandleResultSuccess
    <3>2. \/ HandleResultSuccess(c, e.conn, res)
          \/ UNCHANGED successfulResponses
      BY <1>5, Zenon
         DEF HandleResult, HandleResultPending, HandleResultFailure
    <3> QED
      BY <3>1, <3>2, Zenon
  <2> QED
    BY <2>1, <2>2, Zenon
<1>8. CASE UNCHANGED admitted
  <2>1. AtMostOnce'
    BY <1>8 DEF OnceInv, AtMostOnce
  <2> QED
    BY <1>2, <1>6, <1>7, <1>8, <2>1, OnceInvKept, ZenonT(30)
<1>9. CASE /\ HandleResultSuccess(c, e.conn, res)
           /\ res.reply # None
           /\ HandleReply(c, callRequests[c][res.sn], res.reply)
  <2>1. callRequests[c][res.sn] # None /\ res.sn \in Sns
    BY <1>9, ZenonT(30) DEF HandleResultSuccess, ResultAccepted, Result
  <2>2. res.reply \in Request /\ res.reply.sn \in Sns
    BY <1>9, Zenon DEF Result, Request
  <2>3. PICK req :
          req = [res.reply EXCEPT !.protocols = callRequests[c][res.sn].protocols]
    BY Zenon
  <2>4. req.from = res.reply.from /\ req.sn = res.reply.sn
    BY <2>2, <2>3, Zenon DEF Request
  <2>5. PICK id \in ReqIds :
          admitted' = [admitted EXCEPT ![c] = @ \cup {<<id, req>>}]
    BY <1>9, <2>3, Zenon DEF HandleReply, StoreProxyRequest
  <2>7. Carries(e.msg, req.sn) /\ e.src = req.from
    BY <1>4, <1>9, <2>4, Zenon DEF Carries, NumberInv, NumbersHandedOut
  <2>8. ReplySent(c, req)'
    BY <1>2, <1>4, <1>7, <1>9, <2>4, <2>7, Zenon DEF ReplySent
  <2>9. ASSUME NEW d \in Chain, NEW x \in admitted[d],
               x[2].from = req.from, x[2].sn = req.sn
        PROVE  FALSE
    <3>1. e.dst = d /\ e.msg.payload.sn \in successfulResponses[d]
      <4>1. \A r : e.msg # CSRequest(r)
        BY SMTT(30) DEF CSRequest
      <4> QED
        BY <1>1, <2>2, <2>4, <2>7, <2>9, <4>1, AdmittedBefore, ZenonT(30)
    <3> QED
      BY <1>1, <1>2, <1>4, <2>1, <3>1, ZenonT(30) DEF XcallInv, SettledOnce
  <2>10. /\ AtMostOnce'
         /\ \A d \in Chain : \A x \in admitted'[d] :
              x \in admitted[d] \/ (d = c /\ x[2] = req)
    <3>1. /\ AtMostOnce
          /\ admitted \in [Chain -> SUBSET (ReqIds \X Request)]
      BY <1>1, Zenon DEF OnceInv, XcallTypeOK
    <3> QED
      BY <2>5, <2>9, <3>1, AdmitOnce, ZenonT(30)
  <2>11. ASSUME NEW d \in Chain, NEW x \in admitted'[d], x \notin admitted[d]
         PROVE  ReplySent(d, x[2])'
    BY <2>8, <2>10, <2>11, Zenon
  <2> QED
    BY <1>2, <1>6, <1>7, <2>10, <2>11, OnceInvKept, Zenon
<1> QED
  BY <1>5, <1>8, <1>9, Zenon DEF HandleResult, HandleResultPending,
                          HandleResultSuccess, HandleResultFailure

LEMMA OnceInvInit == Init => OnceInv
BY Zenon DEF Init, XcallInit, ConnInit, OnceInv, SentOverOnce, PendingSpent,
       AdmittedSpent, AtMostOnce

LEMMA OnceInvStep ==
  ASSUME NamedLists, SysInv, NumberInv, OnceInv, [Next]_sysVars
  PROVE  OnceInv'
<1>1. Sends \/ Idles \/ Delivers
  BY StepKinds, Zenon
<1>2. CASE Sends
  BY <1>2, OnceInvSends, Zenon DEF SysInv
<1>3. CASE Idles
  BY <1>3, OnceInvIdles, Zenon
<1>4. CASE Delivers
  <2>1. PICK c \in Chain, e \in messages : Deliver(c, e)
    BY <1>4, Zenon DEF Delivers
  <2>2. e.msg.type \in {"CSMessageRequest", "CSMessageResult"}
    BY <2>1, Zenon DEF Deliver, HandleMessage
  <2> QED
    BY <2>1, <2>2, OnceInvRequest, OnceInvResult, Zenon
<1> QED
  BY <1>1, <1>2, <1>3, <1>4, Zenon

\* Where lists name their connections, each once, no message is admitted for
\* execution twice, on whatever chain and as whatever kind of message, while
\* relayers repeat and reorder deliveries and results carry replies.
THEOREM AtMostOnceAlways ==
  ASSUME NamedLists
  PROVE  Spec => []AtMostOnce
<1>1. Init => OnceInv
  BY OnceInvInit, Zenon
<1>2. SysInv /\ NumberInv /\ OnceInv /\ [Next]_sysVars => OnceInv'
  BY OnceInvStep, Zenon
<1>3. OnceInv => AtMostOnce
  BY Zenon DEF OnceInv
<1> QED
  BY <1>1, <1>2, <1>3, SystemInvariance, NumberInvariance, PTL DEF Spec

-----------------------------------------------------------------------------
(***************************************************************************)
(* The two-way calls of the system implement TwoWayCalls                   *)
(***************************************************************************)

\* What is stored for execution, and what was executed, was admitted.
ExecutedAdmitted ==
  \A c \in Chain :
    /\ \A id \in ReqIds : proxyRequest[c][id] # None =>
         <<id, proxyRequest[c][id]>> \in admitted[c]
    /\ \A x \in executed[c] : <<x[1], x[2]>> \in admitted[c]

\* The inductive invariant behind the refinement.
CallInv == SysInv /\ NumberInv /\ OnceInv /\ ExecutedAdmitted

\* Storing a request admits it under its id.
LEMMA StoreProxyRequestAdmits ==
  ASSUME XcallTypeOK, ExecutedAdmitted, NEW c \in Chain, NEW req,
         StoreProxyRequest(c, req), UNCHANGED executed
  PROVE  ExecutedAdmitted'
<1>1. PICK id \in ReqIds :
        /\ proxyRequest' = [proxyRequest EXCEPT ![c][id] = req]
        /\ admitted' = [admitted EXCEPT ![c] = @ \cup {<<id, req>>}]
  BY Zenon DEF StoreProxyRequest
<1>2. /\ proxyRequest \in [Chain -> [ReqIds -> Request \cup {None}]]
      /\ admitted \in [Chain -> SUBSET (ReqIds \X Request)]
  BY Zenon DEF XcallTypeOK
<1>3. /\ \A d \in Chain : admitted[d] \subseteq admitted'[d]
      /\ <<id, req>> \in admitted'[c]
  BY <1>1, <1>2, Zenon
<1>4. \A d \in Chain : \A i \in ReqIds :
        \/ proxyRequest'[d][i] = proxyRequest[d][i]
        \/ d = c /\ i = id /\ proxyRequest'[d][i] = req
  BY <1>1, <1>2, Zenon
<1> QED
  BY <1>3, <1>4, Zenon DEF ExecutedAdmitted

LEMMA ExecutedAdmittedStep ==
  ASSUME XcallTypeOK, XcallInv, ExecutedAdmitted, [XcallNext]_xcallVars
  PROVE  ExecutedAdmitted'
<1>1. CASE UNCHANGED <<proxyRequest, admitted, executed>>
  BY <1>1, Zenon DEF ExecutedAdmitted
<1>2. CASE \E c \in Chain : \E req :
             StoreProxyRequest(c, req) /\ UNCHANGED executed
  BY <1>2, StoreProxyRequestAdmits, Zenon
<1>3. CASE \E c \in Chain, id \in ReqIds, code \in Code :
             proxyRequest[c][id] # None /\ FinishCall(c, id, code)
  <2>1. PICK c \in Chain, id \in ReqIds, code \in Code :
          proxyRequest[c][id] # None /\ FinishCall(c, id, code)
    BY <1>3, Zenon
  <2>2. /\ proxyRequest' = [proxyRequest EXCEPT ![c][id] = None]
        /\ executed' = [executed EXCEPT ![c] =
                          @ \cup {<<id, proxyRequest[c][id], code>>}]
        /\ UNCHANGED admitted
    BY <2>1, Zenon DEF FinishCall, RemoveProxyRequest
  <2>3. /\ proxyRequest \in [Chain -> [ReqIds -> Request \cup {None}]]
        /\ executed \in [Chain -> SUBSET (ReqIds \X Request \X Code)]
    BY Zenon DEF XcallTypeOK
  <2>4. \A d \in Chain : \A i \in ReqIds :
          proxyRequest'[d][i] \in {None, proxyRequest[d][i]}
    BY <2>2, <2>3, Zenon
  <2>5. \A d \in Chain : \A x \in executed'[d] :
          \/ x \in executed[d]
          \/ d = c /\ x[1] = id /\ x[2] = proxyRequest[c][id]
    BY <2>2, <2>3
  <2>6. <<id, proxyRequest[c][id]>> \in admitted[c]
    BY <2>1, Zenon DEF ExecutedAdmitted
  <2> QED
    BY <2>2, <2>4, <2>5, <2>6 DEF ExecutedAdmitted
<1>4. CASE UNCHANGED xcallVars
  BY <1>1, <1>4, Zenon DEF xcallVars, stateVars, history
<1>5. CASE XcallNext
  <2>1. PICK c \in Chain :
          \/ \E to \in Chain, type \in MsgType, src, dst \in Protocols :
               SendStep(c, to, type, src, dst)
          \/ \E src \in Chain, k \in Conn, req \in Request :
               \/ HandleRequestPending(c, src, k, req)
               \/ HandleRequest(c, src, k, req)
          \/ \E k \in Conn, res \in Result :
               \/ HandleResultPending(c, k, res)
               \/ HandleResultSuccess(c, k, res)
               \/ HandleResultFailure(c, k, res)
          \/ \E id \in ReqIds : ExecuteCall(c, id)
          \/ ExecuteCallReplyOk(c)
          \/ \E id \in ReqIds : ExecuteCallReplyErr(c, id)
          \/ \E s \in Sns : ExecuteRollback(c, s)
          \/ \E nid \in Chain, k \in Conn : SetDefaultConnection(c, nid, k)
    BY <1>5, Actions, Zenon
  <2>2. CASE \E to \in Chain, type \in MsgType, src, dst \in Protocols :
               SendStep(c, to, type, src, dst)
    <3>1. UNCHANGED <<proxyRequest, admitted, executed>>
      BY <2>2, ZenonT(20) DEF SendStep, SendReply, SendCall, StoreCall
    <3> QED
      BY <1>1, <3>1, Zenon
  <2>3. CASE \E src \in Chain, k \in Conn, req \in Request :
               HandleRequestPending(c, src, k, req)
    <3>1. UNCHANGED <<proxyRequest, admitted, executed>>
      BY <2>3, Zenon DEF HandleRequestPending
    <3> QED
      BY <1>1, <3>1, Zenon
  <2>4. CASE \E src \in Chain, k \in Conn, req \in Request :
               HandleRequest(c, src, k, req)
    <3>1. \E req : StoreProxyRequest(c, req) /\ UNCHANGED executed
      BY <2>4, Zenon DEF HandleRequest
    <3> QED
      BY <1>2, <3>1, Zenon
  <2>5. CASE \E k \in Conn, res \in Result :
               \/ HandleResultPending(c, k, res)
               \/ HandleResultFailure(c, k, res)
    <3>1. UNCHANGED <<proxyRequest, admitted, executed>>
      BY <2>5, Zenon DEF HandleResultPending, HandleResultFailure
    <3> QED
      BY <1>1, <3>1, Zenon
  <2>6. CASE \E k \in Conn, res \in Result : HandleResultSuccess(c, k, res)
    <3>1. \/ UNCHANGED <<proxyRequest, admitted, executed>>
          \/ \E req : StoreProxyRequest(c, req) /\ UNCHANGED executed
      BY <2>6, Zenon DEF HandleResultSuccess, HandleReply
    <3> QED
      BY <1>1, <1>2, <3>1, Zenon
  <2>7. CASE \/ \E id \in ReqIds : ExecuteCall(c, id)
             \/ \E s \in Sns : ExecuteRollback(c, s)
             \/ \E nid \in Chain, k \in Conn : SetDefaultConnection(c, nid, k)
    <3>1. UNCHANGED <<proxyRequest, admitted, executed>>
      BY <2>7, Zenon
         DEF ExecuteCall, ExecuteRollback, SetDefaultConnection, history
    <3> QED
      BY <1>1, <3>1, Zenon
  <2>8. CASE ExecuteCallReplyOk(c)
    <3>1. executeRequestId[c] \in 0..MaxReqId /\ executeRequestId[c] # 0
      BY <2>8, Zenon DEF XcallTypeOK, ExecuteCallReplyOk
    <3>2. executeRequestId[c] \in ReqIds
      BY <3>1, XcallAssumption, SMTT(30) DEF ReqIds
    <3>3. /\ proxyRequest[c][executeRequestId[c]] # None
          /\ FinishCall(c, executeRequestId[c], Success)
      BY <2>8, <3>1, Zenon DEF ExecuteCallReplyOk, XcallInv, RequestsById
    <3>4. Success \in Code
      BY Zenon DEF Success, Code
    <3> QED
      BY <1>3, <3>2, <3>3, <3>4, ZenonT(20)
  <2>9. CASE \E id \in ReqIds : ExecuteCallReplyErr(c, id)
    <3>1. \E id \in ReqIds :
            proxyRequest[c][id] # None /\ FinishCall(c, id, Failure)
      BY <2>9, Zenon DEF ExecuteCallReplyErr
    <3>2. Failure \in Code
      BY Zenon DEF Failure, Code
    <3> QED
      BY <1>3, <3>1, <3>2, Zenon
  <2> QED
    BY <2>1, <2>2, <2>3, <2>4, <2>5, <2>6, <2>7, <2>8, <2>9, Zenon
<1> QED
  BY <1>4, <1>5, Zenon

LEMMA CallInvInit == Init => CallInv
<1>1. Init => ExecutedAdmitted
  BY DEF Init, XcallInit, ExecutedAdmitted
<1> QED
  BY <1>1, SysInvInit, NumberInvInit, OnceInvInit, Zenon DEF CallInv

LEMMA CallInvStep ==
  ASSUME NamedLists, CallInv, [Next]_sysVars
  PROVE  CallInv'
<1>1. SysInv' /\ NumberInv' /\ OnceInv'
  BY SysInvStep, StepKinds, OnceInvStep, Zenon DEF CallInv
<1>2. ExecutedAdmitted'
  BY StepSimulates, ExecutedAdmittedStep, Zenon DEF CallInv, SysInv, TypeOK
<1> QED
  BY <1>1, <1>2, Zenon DEF CallInv

\* Numbers of admitted requests were handed out.
LEMMA AdmittedNumbers ==
  ASSUME CallInv, NEW d \in Chain, NEW x \in admitted[d]
  PROVE  x[2].from \in Chain /\ x[2].sn \in Sns /\ x[2].sn <= sn[x[2].from]
<1>1. PICK req \in Request : req = x[2]
  BY DEF CallInv, SysInv, TypeOK, XcallTypeOK
<1>2. RequestSent(d, req) \/ ReplySent(d, req)
  BY <1>1, Zenon DEF CallInv, OnceInv, AdmittedSpent, RequestSpent
<1>3. PICK e \in messages : e.src = req.from /\ Carries(e.msg, req.sn)
  BY <1>2, SentCarries, Zenon DEF CallInv, SysInv
<1>4. req.from \in Chain /\ req.sn \in Sns
  BY Zenon DEF Request
<1> QED
  BY <1>1, <1>3, <1>4, ZenonT(30) DEF CallInv, NumberInv, NumbersHandedOut

\* A message that was executed at a chain was executed there once.
LEMMA ExecutedAlone ==
  ASSUME CallInv, NEW d \in Chain, NEW x \in executed[d], NEW y \in executed[d],
         x[2].from = y[2].from, x[2].sn = y[2].sn
  PROVE  x = y
<1>1. <<x[1], x[2]>> \in admitted[d] /\ <<y[1], y[2]>> \in admitted[d]
  BY Zenon DEF CallInv, ExecutedAdmitted
<1>2. x[1] = y[1]
  BY <1>1 DEF CallInv, OnceInv, AtMostOnce
<1> QED
  BY <1>2, Zenon DEF CallInv, SysInv, XcallInv, ExecutedOnce

\* A request that is still stored was not executed.
LEMMA StoredNotExecuted ==
  ASSUME CallInv, NEW d \in Chain, NEW id \in ReqIds, proxyRequest[d][id] # None,
         NEW x \in executed[d], x[2].from = proxyRequest[d][id].from,
         x[2].sn = proxyRequest[d][id].sn
  PROVE  FALSE
<1>1. /\ <<x[1], x[2]>> \in admitted[d]
      /\ <<id, proxyRequest[d][id]>> \in admitted[d]
  BY Zenon DEF CallInv, ExecutedAdmitted
<1>2. x[1] = id
  BY <1>1, Zenon DEF CallInv, OnceInv, AtMostOnce
<1> QED
  BY <1>2, Zenon DEF CallInv, SysInv, XcallInv, ExecutedOnce

\* The source, or the target, of call s of chain c becomes v; of the other
\* calls it stays what it was.
SourceBecomes(c, s, v) ==
  \A d \in Chain, t \in Sns :
    SourceOf(d, t)' = IF d = c /\ t = s THEN v ELSE SourceOf(d, t)
TargetBecomes(c, s, v) ==
  \A d \in Chain, t \in Sns :
    TargetOf(d, t)' = IF d = c /\ t = s THEN v ELSE TargetOf(d, t)
SourcesKept == \A d \in Chain, t \in Sns : SourceOf(d, t)' = SourceOf(d, t)
TargetsKept == \A d \in Chain, t \in Sns : TargetOf(d, t)' = TargetOf(d, t)

\* The steps of TwoWayCalls, in terms of the chains' state.
CallStep(c, s) ==
  \/ /\ SourceOf(c, s) = "unsent"
     /\ SourceBecomes(c, s, "open") /\ TargetsKept
  \/ /\ SourceOf(c, s) # "unsent" /\ TargetOf(c, s) = "idle"
     /\ \E outcome \in {"ok", "failed"} : TargetBecomes(c, s, outcome)
     /\ SourcesKept
  \/ /\ SourceOf(c, s) \in {"open", "failed"} /\ TargetOf(c, s) = "ok"
     /\ SourceBecomes(c, s, "succeeded") /\ TargetsKept
  \/ /\ SourceOf(c, s) = "open"
     /\ TargetOf(c, s) = "failed" \/ Reverters # {}
     /\ SourceBecomes(c, s, "failed") /\ TargetsKept
  \/ /\ SourceOf(c, s) = "failed"
     /\ SourceBecomes(c, s, "rolledBack") /\ TargetsKept

CallsKept == SourcesKept /\ TargetsKept

\* Such a step is a step of TwoWayCalls under the refinement mapping.
LEMMA CallStepRefines ==
  ASSUME NEW c \in Chain, NEW s \in Sns, CallStep(c, s)
  PROVE  Abstract!Next
<1> DEFINE Source == [x \in Chain \X Sns |-> SourceOf(x[1], x[2])]
           Target == [x \in Chain \X Sns |-> TargetOf(x[1], x[2])]
<1>1. /\ Source[<<c, s>>] = SourceOf(c, s)
      /\ Target[<<c, s>>] = TargetOf(c, s)
      /\ <<c, s>> \in Chain \X Sns
  BY Zenon
<1>2. ASSUME NEW v, SourceBecomes(c, s, v)
      PROVE  Source' = [Source EXCEPT ![<<c, s>>] = v]
  <2>1. \A x \in Chain \X Sns :
          SourceOf(x[1], x[2])' = IF x = <<c, s>> THEN v
                                  ELSE SourceOf(x[1], x[2])
    BY <1>2 DEF SourceBecomes
  <2> QED
    BY <2>1, Zenon
<1>3. ASSUME NEW v, TargetBecomes(c, s, v)
      PROVE  Target' = [Target EXCEPT ![<<c, s>>] = v]
  <2>1. \A x \in Chain \X Sns :
          TargetOf(x[1], x[2])' = IF x = <<c, s>> THEN v
                                  ELSE TargetOf(x[1], x[2])
    BY <1>3 DEF TargetBecomes
  <2> QED
    BY <2>1, Zenon
<1>4. SourcesKept => Source' = Source
  BY Zenon DEF SourcesKept
<1>5. TargetsKept => Target' = Target
  BY Zenon DEF TargetsKept
<1> HIDE DEF Source, Target
<1>6. \/ Abstract!Send(<<c, s>>)
      \/ \E outcome \in {"ok", "failed"} : Abstract!Run(<<c, s>>, outcome)
      \/ Abstract!Succeed(<<c, s>>)
      \/ Abstract!Fail(<<c, s>>)
      \/ Abstract!RollBack(<<c, s>>)
  BY <1>1, <1>2, <1>3, <1>4, <1>5, Zenon
     DEF CallStep, Abstract!Send, Abstract!Run, Abstract!Succeed,
         Abstract!Fail, Abstract!RollBack, Source, Target
<1> QED
  BY <1>1, <1>6, Zenon DEF Abstract!Next

\* What a source and a target depend on.
LEMMA SourceKept ==
  ASSUME NEW c \in Chain, NEW s \in Sns,
         calls'[c][s] = calls[c][s],
         callRequests'[c][s] = callRequests[c][s],
         s \in successfulResponses'[c] <=> s \in successfulResponses[c],
         s \in rolledBack'[c] <=> s \in rolledBack[c]
  PROVE  SourceOf(c, s)' = SourceOf(c, s)
BY Zenon DEF SourceOf

LEMMA TargetKept ==
  ASSUME NEW c \in Chain, NEW s \in Sns,
         calls'[c][s] = calls[c][s],
         calls[c][s] # None =>
           \A x : x[2].from = c /\ x[2].sn = s =>
             (x \in executed'[calls[c][s].to] <=> x \in executed[calls[c][s].to])
  PROVE  TargetOf(c, s)' = TargetOf(c, s)
<1>1. CASE calls[c][s] = None
  BY <1>1, Zenon DEF TargetOf
<1>2. CASE calls[c][s] # None
  <2>1. \A code : ExecutedWith(c, s, code)' <=> ExecutedWith(c, s, code)
    BY <1>2, Zenon DEF ExecutedWith
  <2> QED
    BY <2>1, <1>2, Zenon DEF TargetOf
<1> QED
  BY <1>1, <1>2, Zenon

LEMMA AllKept ==
  ASSUME UNCHANGED <<calls, callRequests, successfulResponses, rolledBack,
                     executed>>
  PROVE  CallsKept
BY SourceKept, TargetKept, Zenon DEF CallsKept, SourcesKept, TargetsKept

\* A call that is sent is open; nothing of its number was executed before.
LEMMA StoreCallRefines ==
  ASSUME CallInv, NEW c \in Chain, NEW to \in Chain, NEW type \in MsgType,
         NEW sources \in Protocols, StoreCall(c, to, type, sources)
  PROVE  CallsKept \/ \E s \in Sns : CallStep(c, s)
<1>1. CASE type # TwoWay
  <2>1. UNCHANGED <<calls, callRequests, successfulResponses, rolledBack,
                    executed>>
    BY <1>1, Zenon DEF StoreCall
  <2> QED
    BY <2>1, AllKept, Zenon
<1>2. CASE type = TwoWay
  <2>0. PICK s \in Sns : s = NextSn(c)
    BY Zenon DEF StoreCall
  <2> DEFINE call == [to |-> to, protocols |-> sources]
             rollback == [to |-> to, protocols |-> sources, enabled |-> FALSE]
  <2>1. /\ calls' = [calls EXCEPT ![c][s] = call]
        /\ callRequests' = [callRequests EXCEPT ![c][s] = rollback]
        /\ UNCHANGED <<successfulResponses, rolledBack, executed>>
    BY <1>2, <2>0, Zenon DEF StoreCall
  <2>2. /\ calls \in [Chain -> [Sns -> Call \cup {None}]]
        /\ callRequests \in [Chain -> [Sns -> Rollback \cup {None}]]
        /\ sn \in [Chain -> 0..MaxSn]
    BY Zenon DEF CallInv, SysInv, TypeOK, XcallTypeOK
  <2>3. sn[c] \in Nat /\ s = sn[c] + 1
    BY <2>0, <2>2, XcallAssumption, SMTT(30) DEF NextSn
  <2>4. /\ calls[c][s] = None
        /\ s \notin successfulResponses[c] /\ s \notin rolledBack[c]
    BY <2>1, <2>3 DEF CallInv, SysInv, XcallInv, CallsBySn
  <2>5. /\ calls'[c][s] = call /\ callRequests'[c][s] = rollback
        /\ \A d \in Chain, t \in Sns : d # c \/ t # s =>
             /\ calls'[d][t] = calls[d][t]
             /\ callRequests'[d][t] = callRequests[d][t]
    BY <2>1, <2>2, ZenonT(30)
  <2>6. call # None /\ rollback # None
    <3>1. call \in Call /\ rollback \in Rollback
      BY Zenon DEF Call, Rollback
    <3> QED
      BY <3>1, XcallAssumption, Zenon
  <2>7. SourceOf(c, s) = "unsent" /\ TargetOf(c, s) = "idle"
    <3>1. SourceOf(c, s) = "unsent"
      BY <2>4, ZenonT(30) DEF SourceOf
    <3>2. TargetOf(c, s) = "idle"
      BY <2>4, Zenon DEF TargetOf
    <3> QED
      BY <3>1, <3>2, Zenon
  <2>8. SourceOf(c, s)' = "open"
    BY <2>1, <2>4, <2>5, <2>6 DEF SourceOf
  <2>9. TargetOf(c, s)' = "idle"
    <3>1. ASSUME NEW x \in executed[to], x[2].from = c, x[2].sn = s
          PROVE  FALSE
      <4>1. PICK a \in admitted[to] : a[2] = x[2]
        BY Zenon DEF CallInv, ExecutedAdmitted
      <4>2. s <= sn[c]
        BY <3>1, <4>1, AdmittedNumbers, Zenon
      <4> QED
        BY <4>2, <2>3
    <3>2. \A code : ~ExecutedWith(c, s, code)'
      BY <3>1, <2>1, <2>5, SMTT(30) DEF ExecutedWith
    <3> QED
      BY <3>2, <2>5, <2>6, Zenon DEF TargetOf
  <2>10. SourceBecomes(c, s, "open")
    BY <2>1, <2>5, <2>8, SourceKept, ZenonT(20) DEF SourceBecomes
  <2>11. TargetsKept
    BY <2>1, <2>5, <2>7, <2>9, TargetKept, Zenon DEF TargetsKept
  <2> QED
    BY <2>1, <2>7, <2>10, <2>11, ZenonT(20) DEF CallStep
<1> QED
  BY <1>1, <1>2, Zenon

LEMMA ToChain ==
  ASSUME CallInv, NEW c \in Chain, NEW s \in Sns, calls[c][s] # None
  PROVE  calls[c][s].to \in Chain
<1>1. calls \in [Chain -> [Sns -> Call \cup {None}]]
  BY Zenon DEF CallInv, SysInv, TypeOK, XcallTypeOK
<1> QED
  BY <1>1, Zenon DEF Call

\* The target of a call that ran is the outcome.
LEMMA TargetRan ==
  ASSUME CallInv, NEW c \in Chain, NEW s \in Sns
  PROVE  /\ Ran(c, s, Success) => TargetOf(c, s) = "ok"
         /\ Ran(c, s, Failure) => TargetOf(c, s) = "failed"
<1>1. SUFFICES ASSUME calls[c][s] # None
               PROVE  ~(ExecutedWith(c, s, Success)
                          /\ ExecutedWith(c, s, Failure))
  BY Zenon DEF TargetOf, Ran
<1>2. SUFFICES ASSUME ExecutedWith(c, s, Success), ExecutedWith(c, s, Failure)
               PROVE  FALSE
  BY Zenon
<1>3. PICK x \in executed[calls[c][s].to] :
        x[2].from = c /\ x[2].sn = s /\ x[3] = Success
  BY <1>2, Zenon DEF ExecutedWith
<1>4. PICK y \in executed[calls[c][s].to] :
        y[2].from = c /\ y[2].sn = s /\ y[3] = Failure
  BY <1>2, Zenon DEF ExecutedWith
<1>5. x = y
  BY <1>1, <1>3, <1>4, ToChain, ExecutedAlone, ZenonT(20)
<1> QED
  BY <1>3, <1>4, <1>5, Zenon DEF Success, Failure

\* A call whose rollback is stored is open, or failed if it is enabled.
LEMMA SourceStored ==
  ASSUME CallInv, NEW c \in Chain, NEW s \in Sns, callRequests[c][s] # None
  PROVE  /\ calls[c][s] # None
         /\ s \notin successfulResponses[c] /\ s \notin rolledBack[c]
         /\ callRequests[c][s].enabled => SourceOf(c, s) = "failed"
         /\ ~callRequests[c][s].enabled => SourceOf(c, s) = "open"
<1>1. calls[c][s] # None
  BY Zenon DEF CallInv, SysInv, XcallInv, RollbacksOfCalls
<1>2. s \notin successfulResponses[c] /\ s \notin rolledBack[c]
  BY Zenon DEF CallInv, SysInv, XcallInv, SettledOnce
<1> QED
  BY <1>1, <1>2, Zenon DEF SourceOf

LEMMA SuccessRefines ==
  ASSUME CallInv, NEW c \in Chain, NEW conn \in Conn, NEW res \in Result,
         HandleResultSuccess(c, conn, res), Ran(c, res.sn, Success)
  PROVE  CallStep(c, res.sn)
<1>1. PICK s \in Sns : s = res.sn
  BY Zenon DEF Result
<1>2. /\ callRequests[c][s] # None
      /\ callRequests' = [callRequests EXCEPT ![c][s] = None]
      /\ successfulResponses' =
           [successfulResponses EXCEPT ![c] = @ \cup {s}]
      /\ UNCHANGED <<calls, executed, rolledBack>>
  BY <1>1, Zenon DEF HandleResultSuccess, ResultAccepted, CleanupRequest
<1>3. /\ callRequests \in [Chain -> [Sns -> Rollback \cup {None}]]
      /\ successfulResponses \in [Chain -> SUBSET Sns]
  BY Zenon DEF CallInv, SysInv, TypeOK, XcallTypeOK
<1>4. /\ s \in successfulResponses'[c]
      /\ \A d \in Chain, t \in Sns : d # c \/ t # s =>
           /\ callRequests'[d][t] = callRequests[d][t]
           /\ t \in successfulResponses'[d] <=> t \in successfulResponses[d]
  BY <1>2, <1>3, Zenon
<1>5. /\ SourceOf(c, s) \in {"open", "failed"}
      /\ calls[c][s] # None /\ s \notin rolledBack[c]
  BY <1>2, SourceStored, Zenon
<1>6. SourceOf(c, s)' = "succeeded"
  BY <1>2, <1>4, <1>5, ZenonT(20) DEF SourceOf
<1>7. SourceBecomes(c, s, "succeeded")
  BY <1>2, <1>4, <1>6, SourceKept, Zenon DEF SourceBecomes
<1>8. TargetsKept
  BY <1>2, TargetKept, Zenon DEF TargetsKept
<1>9. TargetOf(c, s) = "ok"
  BY <1>1, TargetRan, Zenon
<1> QED
  BY <1>1, <1>5, <1>7, <1>8, <1>9, Zenon DEF CallStep

LEMMA FailureRefines ==
  ASSUME CallInv, NEW c \in Chain, NEW conn \in Conn, NEW res \in Result,
         HandleResultFailure(c, conn, res),
         Ran(c, res.sn, Failure) \/ Reverters # {}
  PROVE  CallsKept \/ CallStep(c, res.sn)
<1>1. PICK s \in Sns : s = res.sn
  BY Zenon DEF Result
<1>2. /\ callRequests[c][s] # None
      /\ callRequests' = [callRequests EXCEPT ![c][s].enabled = TRUE]
      /\ UNCHANGED <<calls, executed, rolledBack, successfulResponses>>
  BY <1>1, Zenon DEF HandleResultFailure, ResultAccepted
<1>3. callRequests \in [Chain -> [Sns -> Rollback \cup {None}]]
  BY Zenon DEF CallInv, SysInv, TypeOK, XcallTypeOK
<1>4. callRequests[c][s] \in Rollback
  BY <1>2, <1>3, Zenon
<1>5. /\ callRequests'[c][s] = [callRequests[c][s] EXCEPT !.enabled = TRUE]
      /\ \A d \in Chain, t \in Sns : d # c \/ t # s =>
           callRequests'[d][t] = callRequests[d][t]
  BY <1>2, <1>3, Zenon
<1>6. callRequests'[c][s] \in Rollback /\ callRequests'[c][s].enabled
  BY <1>4, <1>5, Zenon DEF Rollback
<1>7. callRequests'[c][s] # None
  BY <1>6, XcallAssumption, Zenon
<1>8. /\ calls[c][s] # None
      /\ s \notin successfulResponses[c] /\ s \notin rolledBack[c]
      /\ callRequests[c][s].enabled => SourceOf(c, s) = "failed"
      /\ ~callRequests[c][s].enabled => SourceOf(c, s) = "open"
  BY <1>2, SourceStored, Zenon
<1>9. SourceOf(c, s)' = "failed"
  BY <1>2, <1>6, <1>7, <1>8, ZenonT(20) DEF SourceOf
<1>10. SourceBecomes(c, s, "failed")
  BY <1>2, <1>5, <1>9, SourceKept, ZenonT(20) DEF SourceBecomes
<1>11. TargetsKept
  BY <1>2, TargetKept, Zenon DEF TargetsKept
<1>12. TargetOf(c, s) = "failed" \/ Reverters # {}
  BY <1>1, TargetRan, ZenonT(20)
<1>13. CASE SourceOf(c, s) = "open"
  BY <1>1, <1>10, <1>11, <1>12, <1>13, ZenonT(20) DEF CallStep
<1>14. CASE SourceOf(c, s) = "failed"
  BY <1>10, <1>11, <1>14, Zenon DEF CallsKept, SourcesKept, SourceBecomes
<1> QED
  BY <1>8, <1>13, <1>14, Zenon

LEMMA RollbackRefines ==
  ASSUME CallInv, NEW c \in Chain, NEW s \in Sns, ExecuteRollback(c, s)
  PROVE  CallStep(c, s)
<1>1. /\ callRequests[c][s] # None /\ callRequests[c][s].enabled
      /\ callRequests' = [callRequests EXCEPT ![c][s] = None]
      /\ rolledBack' = [rolledBack EXCEPT ![c] = @ \cup {s}]
      /\ UNCHANGED <<calls, executed, successfulResponses>>
  BY Zenon DEF ExecuteRollback, RollbackEnabled, CleanupRequest
<1>2. /\ callRequests \in [Chain -> [Sns -> Rollback \cup {None}]]
      /\ rolledBack \in [Chain -> SUBSET Sns]
  BY Zenon DEF CallInv, SysInv, TypeOK, XcallTypeOK
<1>3. /\ s \in rolledBack'[c]
      /\ \A d \in Chain, t \in Sns : d # c \/ t # s =>
           /\ callRequests'[d][t] = callRequests[d][t]
           /\ t \in rolledBack'[d] <=> t \in rolledBack[d]
  BY <1>1, <1>2, Zenon
<1>4. /\ SourceOf(c, s) = "failed"
      /\ calls[c][s] # None /\ s \notin successfulResponses[c]
  BY <1>1, SourceStored, ZenonT(20)
<1>5. SourceOf(c, s)' = "rolledBack"
  BY <1>1, <1>3, <1>4, ZenonT(20) DEF SourceOf
<1>6. SourceBecomes(c, s, "rolledBack")
  BY <1>1, <1>3, <1>5, SourceKept, ZenonT(20) DEF SourceBecomes
<1>7. TargetsKept
  BY <1>1, TargetKept, Zenon DEF TargetsKept
<1> QED
  BY <1>4, <1>6, <1>7, Zenon DEF CallStep

\* An execution that ends is the run of a call, unless the request is not
\* that of a two-way call to c.
LEMMA FinishRefines ==
  ASSUME CallInv, NEW c \in Chain, NEW id \in ReqIds, NEW code \in Code,
         proxyRequest[c][id] # None, FinishCall(c, id, code)
  PROVE  CallsKept \/ \E d \in Chain, s \in Sns : CallStep(d, s)
<1>1. PICK req \in Request : req = proxyRequest[c][id]
  BY DEF CallInv, SysInv, TypeOK, XcallTypeOK
<1>2. PICK d \in Chain, s \in Sns : d = req.from /\ s = req.sn
  BY Zenon DEF Request
<1>3. /\ executed' = [executed EXCEPT ![c] = @ \cup {<<id, req, code>>}]
      /\ UNCHANGED <<calls, callRequests, successfulResponses, rolledBack>>
  BY <1>1, Zenon DEF FinishCall
<1>4. executed \in [Chain -> SUBSET (ReqIds \X Request \X Code)]
  BY Zenon DEF CallInv, SysInv, TypeOK, XcallTypeOK
<1>5. /\ executed'[c] = executed[c] \cup {<<id, req, code>>}
      /\ \A e \in Chain : e # c => executed'[e] = executed[e]
  BY <1>3, <1>4, Zenon
<1>6. SourcesKept
  BY <1>3, SourceKept, Zenon DEF SourcesKept
<1>7. ASSUME NEW e \in Chain, NEW t \in Sns,
             e # d \/ t # s \/ calls[d][s] = None \/ calls[d][s].to # c
      PROVE  TargetOf(e, t)' = TargetOf(e, t)
  <2>1. ASSUME NEW x, calls[e][t] # None, x[2].from = e, x[2].sn = t
        PROVE  x \in executed'[calls[e][t].to] <=>
                 x \in executed[calls[e][t].to]
    <3>1. calls[e][t].to \in Chain
      BY <2>1, ToChain, ZenonT(30)
    <3>2. CASE calls[e][t].to # c
      BY <3>1, <3>2, <1>5, ZenonT(30)
    <3>3. CASE calls[e][t].to = c
      <4>1. e # d \/ t # s
        BY <1>7, <3>3, <2>1, Zenon
      <4>2. x # <<id, req, code>>
        <5>1. <<id, req, code>>[2] = req
          BY Zenon
        <5> QED
          BY <4>1, <5>1, <1>2, <2>1, Zenon
      <4> QED
        BY <3>3, <4>2, <1>5, Zenon
    <3> QED
      BY <3>2, <3>3, Zenon
  <2> QED
    BY <2>1, <1>3, TargetKept, Zenon
<1>8. CASE calls[d][s] = None \/ calls[d][s].to # c
  BY <1>6, <1>7, <1>8, ZenonT(20) DEF CallsKept, TargetsKept
<1>9. CASE calls[d][s] # None /\ calls[d][s].to = c
  <2>1. \A x \in executed[c] : ~(x[2].from = d /\ x[2].sn = s)
    BY <1>1, <1>2, StoredNotExecuted, ZenonT(30)
  <2>2. TargetOf(d, s) = "idle"
    BY <2>1, <1>9, Zenon DEF TargetOf, ExecutedWith
  <2>3. \A k : ExecutedWith(d, s, k)' <=> k = code
    <3>1. executed'[calls'[d][s].to] = executed[c] \cup {<<id, req, code>>}
      BY <1>3, <1>5, <1>9, Zenon
    <3>2. \A k : ExecutedWith(d, s, k)' <=>
            \E x \in executed[c] \cup {<<id, req, code>>} :
              x[2].from = d /\ x[2].sn = s /\ x[3] = k
      BY <3>1, Zenon DEF ExecutedWith
    <3>3. \A x \in executed[c] \cup {<<id, req, code>>} :
            x[2].from = d /\ x[2].sn = s <=> x = <<id, req, code>>
      BY <2>1, <1>2
    <3>4. <<id, req, code>>[3] = code
      BY Zenon
    <3>5. ASSUME NEW k
          PROVE  (\E x \in executed[c] \cup {<<id, req, code>>} :
                    x[2].from = d /\ x[2].sn = s /\ x[3] = k) <=> k = code
      <4>1. ASSUME NEW x \in executed[c] \cup {<<id, req, code>>},
                   x[2].from = d, x[2].sn = s, x[3] = k
            PROVE  k = code
        BY <3>3, <3>4, <4>1, Zenon
      <4>2. ASSUME k = code
            PROVE  \E x \in executed[c] \cup {<<id, req, code>>} :
                     x[2].from = d /\ x[2].sn = s /\ x[3] = k
        BY <3>3, <3>4, <4>2, ZenonT(30)
      <4> QED
        BY <4>1, <4>2, Zenon
    <3> QED
      BY <3>2, <3>5, Zenon
  <2>4. PICK outcome \in {"ok", "failed"} : TargetOf(d, s)' = outcome
    <3>1. calls'[d][s] # None
      BY <1>3, <1>9, Zenon
    <3>2. /\ ExecutedWith(d, s, Success)' <=> code = Success
          /\ ExecutedWith(d, s, Failure)' <=> code = Failure
      BY <2>3, Zenon
    <3>3. code \in {Success, Failure} /\ Success # Failure
      BY Zenon DEF Code, Success, Failure
    <3>4. CASE code = Success
      <4>1. TargetOf(d, s)' = "ok"
        BY <3>1, <3>2, <3>3, <3>4, Zenon DEF TargetOf
      <4> QED
        BY <4>1, Zenon
    <3>5. CASE code = Failure
      <4>1. TargetOf(d, s)' = "failed"
        BY <3>1, <3>2, <3>3, <3>5, Zenon DEF TargetOf
      <4> QED
        BY <4>1, Zenon
    <3> QED
      BY <3>3, <3>4, <3>5, Zenon
  <2>5. TargetBecomes(d, s, outcome)
    BY <2>4, <1>7, Zenon DEF TargetBecomes
  <2>6. SourceOf(d, s) # "unsent"
    BY <1>9, Zenon DEF SourceOf
  <2> QED
    BY <2>2, <2>5, <2>6, <1>6, Zenon DEF CallStep
<1> QED
  BY <1>8, <1>9, ZenonT(20)

\* A delivery settles a call, or leaves all of them as they are.
LEMMA DeliverRefines ==
  ASSUME CallInv, NEW c \in Chain, NEW e \in messages, Deliver(c, e)
  PROVE  CallsKept \/ \E s \in Sns : CallStep(c, s)
<1>1. e.msg \in CSMessage /\ e.conn \in Conn /\ e.dst = c
  BY RecvMessageType, Zenon
     DEF CallInv, SysInv, TypeOK, ConnTypeOK, Event, Deliver
<1>2. CASE e.msg.type = "CSMessageRequest"
  <2>1. UNCHANGED <<calls, callRequests, successfulResponses, rolledBack,
                    executed>>
    BY <1>2, Zenon
       DEF Deliver, HandleMessage, HandleRequestPending, HandleRequest
  <2> QED
    BY <2>1, AllKept, Zenon
<1>3. CASE e.msg.type = "CSMessageResult"
  <2>1. PICK res \in Result : res = e.msg.payload
    BY <1>1, <1>3, Payloads, Zenon
  <2>2. Ran(c, res.sn, res.code) /\ res.sn \in Sns /\ res.code \in Code
    BY <1>1, <1>3, <2>1, Zenon
       DEF CallInv, SysInv, ResultEvents, TrueResult, Result
  <2>3. \/ HandleResultPending(c, e.conn, res)
        \/ HandleResultSuccess(c, e.conn, res)
        \/ HandleResultFailure(c, e.conn, res)
    BY <1>3, <2>1, Zenon DEF Deliver, HandleMessage, HandleResult
  <2>4. CASE HandleResultPending(c, e.conn, res)
    BY <2>4, AllKept, Zenon DEF HandleResultPending
  <2>5. CASE HandleResultSuccess(c, e.conn, res)
    <3>1. res.code = Success
      BY <2>5, Zenon DEF HandleResultSuccess, IsSuccess
    <3> QED
      BY <3>1, <1>1, <2>2, <2>5, SuccessRefines, ZenonT(20)
  <2>6. CASE HandleResultFailure(c, e.conn, res)
    <3>1. res.code = Failure
      BY <2>2, <2>6, Zenon
         DEF HandleResultFailure, IsSuccess, Code, Success, Failure
    <3> QED
      BY <3>1, <1>1, <2>2, <2>6, FailureRefines, ZenonT(20)
  <2> QED
    BY <2>3, <2>4, <2>5, <2>6, ZenonT(20)
<1> QED
  BY <1>2, <1>3, Zenon DEF Deliver, HandleMessage

LEMMA RevertRefines ==
  ASSUME CallInv, NEW c \in Chain, NEW k \in Reverters, NEW s \in Sns,
         RevertMessage(c, k, s)
  PROVE  CallsKept \/ CallStep(c, s)
<1>1. PICK res \in Result : res = ErrorResult(s) /\ res.sn = s
  BY MessageTypes, Zenon DEF ErrorResult
<1>2. k \in Conn
  BY SystemAssumption, Zenon
<1>3. CASE HandleResultPending(c, k, res)
  BY <1>3, AllKept, Zenon DEF HandleResultPending
<1>4. CASE HandleResultFailure(c, k, res)
  BY <1>1, <1>2, <1>4, FailureRefines, Zenon
<1> QED
  BY <1>1, <1>3, <1>4, Zenon DEF RevertMessage, HandleError

\* Every transaction is a step of TwoWayCalls or changes no call.
LEMMA StepRefines ==
  ASSUME CallInv, [Next]_sysVars
  PROVE  CallsKept \/ \E c \in Chain, s \in Sns : CallStep(c, s)
<1>1. CASE UNCHANGED sysVars
  <2>1. UNCHANGED <<calls, callRequests, successfulResponses, rolledBack,
                    executed>>
    BY <1>1, Zenon DEF sysVars, xcallVars, stateVars, history
  <2> QED
    BY <2>1, AllKept, Zenon
<1>2. CASE Next
  <2>1. PICK c \in Chain :
          \/ \E to \in Chain, type \in MsgType, src, dst \in Protocols :
               \/ Send(c, to, type, src, dst)
               \/ Reply(c, to, type, src, dst)
          \/ \E e \in messages : Deliver(c, e)
          \/ \E k \in Reverters, s \in Sns : RevertMessage(c, k, s)
          \/ \E id \in ReqIds : Execute(c, id)
          \/ ExecutionOk(c)
          \/ \E id \in ReqIds : ExecutionErr(c, id)
          \/ \E s \in Sns : RunRollback(c, s)
          \/ \E nid \in Chain, k \in DefaultConns : SetDefault(c, nid, k)
    BY <1>2, Zenon DEF Next
  <2>2. CASE \E to \in Chain, type \in MsgType, src, dst \in Protocols :
               \/ Send(c, to, type, src, dst)
               \/ Reply(c, to, type, src, dst)
    <3>1. \E to \in Chain, type \in MsgType, src \in Protocols :
            StoreCall(c, to, type, src)
      BY <2>2, Zenon DEF Send, Reply, SendCall, SendReply
    <3> QED
      BY <3>1, StoreCallRefines, Zenon
  <2>3. CASE \E e \in messages : Deliver(c, e)
    BY <2>3, DeliverRefines, Zenon
  <2>4. CASE \E k \in Reverters, s \in Sns : RevertMessage(c, k, s)
    BY <2>4, RevertRefines, Zenon
  <2>5. CASE \/ \E id \in ReqIds : Execute(c, id)
             \/ \E nid \in Chain, k \in DefaultConns : SetDefault(c, nid, k)
    <3>1. UNCHANGED <<calls, callRequests, successfulResponses, rolledBack,
                      executed>>
      BY <2>5, Zenon
         DEF Execute, ExecuteCall, SetDefault, SetDefaultConnection,
                  history
    <3> QED
      BY <3>1, AllKept, Zenon
  <2>6. CASE ExecutionOk(c)
    <3>1. executeRequestId[c] \in 0..MaxReqId /\ executeRequestId[c] # 0
      BY <2>6, Zenon DEF CallInv, SysInv, TypeOK, XcallTypeOK, ExecutionOk,
                  ExecuteCallReplyOk
    <3>2. executeRequestId[c] \in ReqIds
      BY <3>1, XcallAssumption DEF ReqIds
    <3>3. /\ proxyRequest[c][executeRequestId[c]] # None
          /\ FinishCall(c, executeRequestId[c], Success)
      BY <2>6, <3>1, Zenon
         DEF ExecutionOk, ExecuteCallReplyOk, CallInv, SysInv,
                        XcallInv, RequestsById
    <3>4. Success \in Code
      BY Zenon DEF Success, Code
    <3> QED
      BY <3>2, <3>3, <3>4, FinishRefines, ZenonT(30)
  <2>7. CASE \E id \in ReqIds : ExecutionErr(c, id)
    <3>1. \E id \in ReqIds :
            proxyRequest[c][id] # None /\ FinishCall(c, id, Failure)
      BY <2>7, Zenon DEF ExecutionErr, ExecuteCallReplyErr
    <3>2. Failure \in Code
      BY Zenon DEF Failure, Code
    <3> QED
      BY <3>1, <3>2, FinishRefines, Zenon
  <2>8. CASE \E s \in Sns : RunRollback(c, s)
    BY <2>8, RollbackRefines, Zenon DEF RunRollback
  <2> QED
    BY <2>1, <2>2, <2>3, <2>4, <2>5, <2>6, <2>7, <2>8, ZenonT(20)
<1> QED
  BY <1>1, <1>2, Zenon

\* Where the lists of connections name at least one and none twice, the
\* contracts, their connections and relayers implement TwoWayCalls: a call
\* runs at most once at its target, whatever relayers repeat or reorder, its
\* sender learns of a success only after it ran with success and rolls back
\* only after it failed or was given up, and never both.
THEOREM SystemImplementsTwoWayCalls ==
  ASSUME NamedLists
  PROVE  Spec => ImplementsTwoWayCalls
<1> DEFINE Source == [x \in Chain \X Sns |-> SourceOf(x[1], x[2])]
           Target == [x \in Chain \X Sns |-> TargetOf(x[1], x[2])]
<1>1. Init => Abstract!Init
  <2>1. Init => \A c \in Chain, s \in Sns : calls[c][s] = None
    BY DEF Init, XcallInit
  <2>2. Init => \A c \in Chain, s \in Sns :
                  SourceOf(c, s) = "unsent" /\ TargetOf(c, s) = "idle"
    BY <2>1, Zenon DEF SourceOf, TargetOf
  <2> QED
    BY <2>2, Zenon DEF Abstract!Init
<1>2. CallInv /\ [Next]_sysVars => [Abstract!Next]_<<Source, Target>>
  <2>1. CallsKept => Source' = Source /\ Target' = Target
    BY Zenon DEF CallsKept, SourcesKept, TargetsKept
  <2> QED
    BY <2>1, StepRefines, CallStepRefines, Zenon
<1>3. CallInv /\ [Next]_sysVars => CallInv'
  BY CallInvStep, Zenon
<1>4. Init => CallInv
  BY CallInvInit, Zenon
<1> QED
  BY <1>1, <1>2, <1>3, <1>4, PTL
     DEF Spec, ImplementsTwoWayCalls, Abstract!Spec

=============================================================================
