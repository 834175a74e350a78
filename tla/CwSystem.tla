------------------------------ MODULE CwSystem ------------------------------
(***************************************************************************)
(* Call services of several chains joined by centralized connections: the  *)
(* actions of CwXcall and of CwCentralizedConnection composed as the       *)
(* contracts call each other, each transaction one step (or, for an        *)
(* execution that the dapp answers, one step per call it makes).           *)
(***************************************************************************)
EXTENDS CwXcall, CwCentralizedConnection

CONSTANTS Senders,      \* chains with users who start calls
          DefaultConns, \* connections an admin may make the default
          Reverters     \* connections whose admin may use revert_message

VARIABLE reverted       \* history: (connection, sn) revert_message reports

sysVars == <<xcallVars, connVars, reverted>>

ASSUME SystemAssumption ==
  /\ Senders \subseteq Chain
  /\ DefaultConns \subseteq Conn
  /\ Reverters \subseteq Conn

Init ==
  /\ XcallInit
  /\ ConnInit
  /\ reverted = [c \in Chain |-> {}]

\* A user, or the dapp that c is executing, sends a message.
Send(c, to, type, sources, destinations) ==
  /\ c \in Senders \/ executeRequestId[c] # 0
  /\ SendCall(c, to, type, sources, destinations)
  /\ SendMessage(c, to, Confirmed(c, to, sources),
                 CSRequest(CallRequest(c, type, destinations)))
  /\ UNCHANGED reverted

\* The dapp that c is executing sends a message that is its reply.
Reply(c, to, type, sources, destinations) ==
  /\ SendReply(c, to, type, sources, destinations)
  /\ UNCHANGED <<connVars, reverted>>

\* The relayer submits event e and xcall accepts the message.
Deliver(c, e) ==
  /\ RecvMessage(c, e)
  /\ HandleMessage(c, e.src, e.conn, e.msg)
  /\ UNCHANGED reverted

\* revert_message: the admin of connection k gives message s up.
RevertMessage(c, k, s) ==
  /\ HandleError(c, k, s)
  /\ reverted' = [reverted EXCEPT ![c] = @ \cup {<<k, s>>}]
  /\ UNCHANGED connVars

Respond(c, req, res) ==
  IF NeedResponse(req)
  THEN SendMessage(c, req.from, Confirmed(c, req.from, req.protocols),
                   CSResult(res))
  ELSE UNCHANGED connVars

Execute(c, id) ==
  /\ ExecuteCall(c, id)
  /\ UNCHANGED <<connVars, reverted>>

ExecutionOk(c) ==
  /\ ExecuteCallReplyOk(c)
  /\ Respond(c, proxyRequest[c][executeRequestId[c]], OkResult(c))
  /\ UNCHANGED reverted

ExecutionErr(c, id) ==
  /\ ExecuteCallReplyErr(c, id)
  /\ Respond(c, proxyRequest[c][id], ErrResult(c, id))
  /\ UNCHANGED reverted

RunRollback(c, s) ==
  /\ ExecuteRollback(c, s)
  /\ UNCHANGED <<connVars, reverted>>

SetDefault(c, nid, k) ==
  /\ SetDefaultConnection(c, nid, k)
  /\ UNCHANGED <<connVars, reverted>>

Next ==
  \E c \in Chain :
    \/ \E to \in Chain \ {c}, type \in MsgType, src, dst \in Protocols :
         \/ Send(c, to, type, src, dst)
         \/ Reply(c, to, type, src, dst)
    \/ \E e \in messages : Deliver(c, e)
    \/ \E k \in Reverters, s \in Sns : RevertMessage(c, k, s)
    \/ \E id \in ReqIds : Execute(c, id)
    \/ ExecutionOk(c)
    \/ \E id \in ReqIds : ExecutionErr(c, id)
    \/ \E s \in Sns : RunRollback(c, s)
    \/ \E nid \in Chain \ {c}, k \in DefaultConns : SetDefault(c, nid, k)

Spec == Init /\ [][Next]_sysVars

-----------------------------------------------------------------------------
\* Type invariant.
TypeOK ==
  /\ XcallTypeOK
  /\ ConnTypeOK
  /\ reverted \in [Chain -> SUBSET (Conn \X Sns)]

\* The chain of a call executed it with the given code.
ExecutedWith(c, s, code) ==
  \E x \in executed[calls[c][s].to] :
    x[2].from = c /\ x[2].sn = s /\ x[3] = code

\* A message is admitted for execution at most once, however often and in
\* whatever order the relayers of its connections submit it: the receipts of
\* recv_message and the collection in handle_request together see to that.
AtMostOnce ==
  \A c, d \in Chain : \A a \in admitted[c], b \in admitted[d] :
    (a[2].from = b[2].from /\ a[2].sn = b[2].sn) => (c = d /\ a[1] = b[1])

\* A call is marked successful only if the dapp of the chain that it was
\* sent to executed it and returned.
SuccessMeansExecuted ==
  \A c \in Chain : \A s \in successfulResponses[c] :
    ExecutedWith(c, s, Success)

\* Every connection that the call went over was reverted by its admin (some
\* connection was, if the call went over the default one).
AllReverted(c, s) ==
  LET protocols == calls[c][s].protocols
  IN  IF protocols = <<>>
      THEN \E k \in Conn : <<k, s>> \in reverted[c]
      ELSE \A k \in Range(protocols) : <<k, s>> \in reverted[c]

\* A rollback runs only if the dapp failed or all the connections gave the
\* message up: one connection that reverts never undoes a call that the
\* others report as executed.
RollbackMeansFailed ==
  \A c \in Chain : \A s \in rolledBack[c] :
    ExecutedWith(c, s, Failure) \/ AllReverted(c, s)

\* A reply goes back with the result of one call only: the single slot
\* call_reply, shared by all executions, never leaks from the execution that
\* filled it into a later one, and what it holds is not sent on its own.
ReplyOfOneCall ==
  \A e, f \in messages :
    (e.msg.type = "CSMessageResult" /\ e.msg.payload.reply # None) =>
      /\ f.msg.type = "CSMessageResult" =>
           (e.msg.payload.reply = f.msg.payload.reply /\ e.src = f.src =>
              e.dst = f.dst /\ e.msg = f.msg)
      /\ f.msg.type = "CSMessageRequest" =>
           f.msg.payload # e.msg.payload.reply

\* Every message that send_call accepted (CallMessageSent was emitted for its
\* sn) is on its way: handed to a connection, or kept as a reply, or carried
\* by the result of the call it replies to.
NoSendLost ==
  \A c \in Chain : \A s \in 1..sn[c] :
    \/ callReply[c] # None /\ callReply[c].sn = s
    \/ \E e \in messages :
         LET m == e.msg.payload
         IN  \/ e.msg.type = "CSMessageRequest" /\ m.from = c /\ m.sn = s
             \/ /\ e.msg.type = "CSMessageResult"
                /\ m.reply # None
                /\ m.reply.from = c /\ m.reply.sn = s

-----------------------------------------------------------------------------
(***************************************************************************)
(* The two-way calls of the system implement TwoWayCalls.                  *)
(***************************************************************************)
SourceOf(c, s) ==
  IF calls[c][s] = None THEN "unsent"
  ELSE IF s \in successfulResponses[c] \cap rolledBack[c] THEN "settledTwice"
  ELSE IF s \in successfulResponses[c] THEN "succeeded"
  ELSE IF s \in rolledBack[c] THEN "rolledBack"
  ELSE IF callRequests[c][s] # None /\ callRequests[c][s].enabled THEN "failed"
  ELSE "open"

TargetOf(c, s) ==
  IF calls[c][s] = None THEN "idle"
  ELSE IF ExecutedWith(c, s, Success) /\ ExecutedWith(c, s, Failure)
       THEN "ranTwice"
  ELSE IF ExecutedWith(c, s, Success) THEN "ok"
  ELSE IF ExecutedWith(c, s, Failure) THEN "failed"
  ELSE "idle"

Abstract ==
  INSTANCE TwoWayCalls WITH
    Id <- Chain \X Sns,
    MayGiveUp <- Reverters # {},
    source <- [x \in Chain \X Sns |-> SourceOf(x[1], x[2])],
    target <- [x \in Chain \X Sns |-> TargetOf(x[1], x[2])]

\* The composed contracts implement the promise of TwoWayCalls: every
\* transaction is a step of it or leaves both sides of every call as they are.
ImplementsTwoWayCalls == Abstract!Spec

-----------------------------------------------------------------------------
(***************************************************************************)
(* Liveness.  Relayers submit every event that they have seen until it is  *)
(* accepted; somebody executes every request and every enabled rollback,   *)
(* and a dapp returns.  The contracts do none of that by themselves: these *)
(* are the duties of the off-chain operators of an xCall deployment.       *)
(***************************************************************************)
Fairness ==
  \A c \in Chain :
    /\ \A d \in Chain, k \in Conn, n \in 1..(2 * MaxSn + MaxReqId) :
         WF_sysVars(\E e \in messages :
                      /\ e.src = d /\ e.conn = k /\ e.connSn = n
                      /\ Deliver(c, e))
    /\ \A id \in ReqIds : WF_sysVars(Execute(c, id) \/ ExecutionErr(c, id))
    /\ WF_sysVars(ExecutionOk(c))
    /\ \A s \in Sns : WF_sysVars(RunRollback(c, s))

FairSpec == Spec /\ Fairness

\* The request of call s is to be taken, and answered, over the connections
\* that it was sent over.
Matched(c, s) ==
  \E e \in messages :
    /\ e.msg.type = "CSMessageRequest"
    /\ e.msg.payload.from = c /\ e.msg.payload.sn = s
    /\ e.msg.payload.protocols = calls[c][s].protocols

\* Every two-way call is settled in the end: its result arrives, whatever
\* the order of deliveries and whoever reverts, or its rollback runs.
EveryCallSettles ==
  \A c \in Chain : \A s \in Sns :
    calls[c][s] # None /\ Matched(c, s)
      ~> s \in successfulResponses[c] \cup rolledBack[c]

=============================================================================
