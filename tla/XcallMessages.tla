--------------------------- MODULE XcallMessages ---------------------------
(***************************************************************************)
(* The messages and records that the call service contracts exchange and   *)
(* store, and the parameters of the models (types/ of cw-xcall).           *)
(*                                                                         *)
(* Abstractions.  A network id is a chain; the account part of an address, *)
(* the payload and the rollback bytes are left out: (from, sn) identifies  *)
(* a message.  A hash is collision free, so the hash of a message stands   *)
(* for the message.                                                        *)
(***************************************************************************)
EXTENDS Naturals, Sequences, FiniteSets, Functions

CONSTANTS Chain,        \* the networks
          Conn,         \* connection contracts, named alike on both ends
          Protocols,    \* the lists of connections that dapps use
          None,         \* an absent map entry or option
          MaxSn,        \* bound: sequence numbers a chain hands out
          MaxReqId      \* bound: request ids a chain hands out

OneWay == "CallMessage"
TwoWay == "CallMessageWithRollback"
Persisted == "CallMessagePersisted"
MsgType == {OneWay, TwoWay, Persisted}

Code == {"CallServiceResponseSuccess", "CallServiceResponseFailure"}
Success == "CallServiceResponseSuccess"
Failure == "CallServiceResponseFailure"

Sns == 1..MaxSn
ReqIds == 1..MaxReqId

\* CSMessageRequest: what send_call puts on the wire and a proxy request is.
Request ==
  [from : Chain, sn : Sns, type : MsgType, protocols : Protocols]

\* CSMessageResult: the answer to a two-way call, with the reply it carries.
Result == [sn : Sns, code : Code, reply : Request \cup {None}]

\* CSMessage: a request or a result.
CSRequest(req) == [type |-> "CSMessageRequest", payload |-> req]
CSResult(res) == [type |-> "CSMessageResult", payload |-> res]
CSMessage ==
  [type : {"CSMessageRequest"}, payload : Request]
    \cup [type : {"CSMessageResult"}, payload : Result]

\* Rollback: what the source chain keeps about a two-way call.
Rollback == [to : Chain, protocols : Protocols, enabled : BOOLEAN]

\* What the models remember of a two-way call for as long as they run.
Call == [to : Chain, protocols : Protocols]

ASSUME XcallAssumption ==
  /\ Protocols \subseteq Seq(Conn)
  /\ MaxSn \in Nat
  /\ MaxReqId \in Nat
  /\ None \notin Conn
  /\ None \notin Request
  /\ None \notin Rollback
  /\ None \notin Call

\* What a message goes over: a list that a dapp names, or one default
\* connection.
Routes == Protocols \cup {<<k>> : k \in Conn}

\* Connections of a list that are as many as the list is long are all of
\* them, and positions of a list can be counted.  ConnectionProofs proves both
\* for every value of the constants.
Countable ==
  \A p \in Routes :
    /\ \A S \in SUBSET Range(p) : Cardinality(S) = Len(p) => S = Range(p)
    /\ \A I \in SUBSET (DOMAIN p) : Cardinality(I) \in Nat

=============================================================================
