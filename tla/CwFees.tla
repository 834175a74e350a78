------------------------------- MODULE CwFees -------------------------------
(***************************************************************************)
(* Fees of the CosmWasm call service (fees.rs, fee_handler.rs and the half *)
(* of send_call that deals with money) with the centralized connections    *)
(* that it asks for their fees and pays.  CwXcall leaves money out.        *)
(*                                                                         *)
(* A caller asks get_fee what a call costs and sends it later with that    *)
(* amount.  Between the two the admin and the relayers may change fees and *)
(* default connections, or a reply may be captured.  A dapp that is being  *)
(* executed asks in the transaction in which it sends.                     *)
(***************************************************************************)
EXTENDS Integers, Sequences, Functions

CONSTANTS Conn,        \* centralized connections
          Nid,         \* networks to call
          Sources,     \* lists of connections that calls name
          Handler,     \* accounts that may be the fee handler
          MaxFee,      \* bound: amounts of fees
          MaxChanges,  \* bound: changes by admin and relayers
          MaxSends,    \* bound: calls sent
          Xcall,       \* the account of the call service
          None         \* nothing stored

VARIABLES
  protocolFee, feeHandler, defaultConnections,
  messageFee, responseFee,  \* connection -> network -> amount
  executing,   \* the request being executed, or None
  replied,     \* its reply was captured
  balance      \* account -> amount

(* quote is the last answer of get_fee, refused what was paid and due when *)
(* a send failed for want of money, changes and sends are counters.        *)
VARIABLES quote, refused, changes, sends

feeVars == <<protocolFee, feeHandler, defaultConnections, messageFee,
             responseFee>>
execVars == <<executing, replied>>
vars == <<feeVars, execVars, balance, quote, refused, changes, sends>>

Amount == 0..MaxFee
Account == Conn \cup Handler \cup {Xcall}
Call == [nid : Nid, rollback : BOOLEAN, sources : Sources]

Init ==
  /\ protocolFee = 0 /\ feeHandler \in Handler
  /\ defaultConnections = [n \in Nid |-> None]
  /\ messageFee = [k \in Conn |-> [n \in Nid |-> 0]]
  /\ responseFee = [k \in Conn |-> [n \in Nid |-> 0]]
  /\ executing = None /\ replied = FALSE
  /\ balance = [a \in Account |-> 0]
  /\ quote = None /\ refused = {} /\ changes = 0 /\ sends = 0

-----------------------------------------------------------------------------
(***************************************************************************)
(* What a call costs                                                       *)
(***************************************************************************)
\* get_fee of a connection.
ConnectionFee(k, nid, response) ==
  messageFee[k][nid] + IF response THEN responseFee[k][nid] ELSE 0

Confirmed(nid, sources) ==
  IF sources = <<>> THEN <<defaultConnections[nid]>> ELSE sources

HasRoute(call) == None \notin Range(Confirmed(call.nid, call.sources))

\* The fees of all connections that a call goes over.
ConnectionFees(call) ==
  LET conns == Confirmed(call.nid, call.sources)
  IN  SumFunction([i \in DOMAIN conns |->
                     ConnectionFee(conns[i], call.nid, call.rollback)])

AreEqual(protocols, sources) ==
  /\ Len(protocols) = Len(sources)
  /\ Range(protocols) \subseteq Range(sources)

IsReply(call) ==
  /\ ~call.rollback
  /\ ~replied
  /\ executing # None
  /\ executing.from = call.nid
  /\ AreEqual(executing.protocols, call.sources)

\* (mutant: a reply is not free)
GetFeeOfReply(call) ==
  protocolFee + IF HasRoute(call) THEN ConnectionFees(call) ELSE 0
GetFee(call) ==
  IF IsReply(call) THEN 0 ELSE protocolFee + ConnectionFees(call)

\* A caller asks; without a route get_fee fails, unless the call is a reply.
Quote(call) ==
  /\ IsReply(call) \/ HasRoute(call)
  /\ quote' = [call |-> call, fee |-> GetFee(call)]
  /\ UNCHANGED <<feeVars, execVars, balance, refused, changes, sends>>

-----------------------------------------------------------------------------
(***************************************************************************)
(* Sending a call with the amount that was quoted                          *)
(***************************************************************************)
\* (mutant: the number goes to connections with calls of all types)
SendSnAlways(call) == 1
\* Positive for a call that wants a response, zero for others.
SendSn(call) == IF call.rollback THEN 1 ELSE 0

\* send_message of a connection: is value enough?
ConnectionAccepts(k, call, value) ==
  value >= IF SendSn(call) >= 0
           THEN ConnectionFee(k, call.nid, SendSn(call) > 0) ELSE 0

\* send_call checks what it is paid, each connection what it is handed.
Accepted(call, paid) ==
  /\ \A k \in Range(Confirmed(call.nid, call.sources)) :
       ConnectionAccepts(k, call, ConnectionFee(k, call.nid, call.rollback))
  /\ paid >= protocolFee + ConnectionFees(call)

\* (mutant: the fees of connections are taken off twice)
RemainingLess(call, paid) == paid - 2 * ConnectionFees(call)
\* What is left goes to the fee handler.
Remaining(call, paid) == paid - ConnectionFees(call)

\* How often the list of a call names connection k.
Times(call, k) ==
  Len(SelectSeq(Confirmed(call.nid, call.sources), LAMBDA s : s = k))

Send == quote # None /\ sends < MaxSends /\ sends' = sends + 1

\* The reply of the call being executed is kept, with any money sent along.
SendReply ==
  /\ Send
  /\ IsReply(quote.call)
  /\ replied' = TRUE
  /\ balance' = [balance EXCEPT ![Xcall] = @ + quote.fee]
  /\ UNCHANGED <<feeVars, executing, quote, refused, changes>>

SendCall ==
  LET call == quote.call
  IN  /\ Send
      /\ ~IsReply(call)
      /\ HasRoute(call)
      /\ Accepted(call, quote.fee)
      /\ balance' = [a \in Account |->
           CASE a \in Conn -> balance[a] + Times(call, a)
                                * ConnectionFee(a, call.nid, call.rollback)
             [] a = feeHandler -> balance[a] + Remaining(call, quote.fee)
             [] OTHER -> balance[a]]
      /\ UNCHANGED <<feeVars, execVars, quote, refused, changes>>

\* The money does not do and the transaction is undone.
SendRefused ==
  /\ Send
  /\ ~IsReply(quote.call)
  /\ HasRoute(quote.call)
  /\ ~Accepted(quote.call, quote.fee)
  /\ refused' = refused \cup {[paid |-> quote.fee, due |-> GetFee(quote.call)]}
  /\ UNCHANGED <<feeVars, execVars, balance, quote, changes>>

-----------------------------------------------------------------------------
(***************************************************************************)
(* Changes, in transactions of their own, and executions                   *)
(***************************************************************************)
Change ==
  /\ executing = None
  /\ changes < MaxChanges /\ changes' = changes + 1
  /\ UNCHANGED <<execVars, balance, quote, refused, sends>>

SetProtocolFee(fee) ==
  /\ Change
  /\ protocolFee' = fee
  /\ UNCHANGED <<feeHandler, defaultConnections, messageFee, responseFee>>

SetProtocolFeeHandler(h) ==
  /\ Change
  /\ feeHandler' = h
  /\ UNCHANGED <<protocolFee, defaultConnections, messageFee, responseFee>>

SetDefaultConnection(nid, k) ==
  /\ Change
  /\ defaultConnections' = [defaultConnections EXCEPT ![nid] = k]
  /\ UNCHANGED <<protocolFee, feeHandler, messageFee, responseFee>>

\* set_fee of a connection.
SetFee(k, nid, message, response) ==
  /\ Change
  /\ messageFee' = [messageFee EXCEPT ![k][nid] = message]
  /\ responseFee' = [responseFee EXCEPT ![k][nid] = response]
  /\ UNCHANGED <<protocolFee, feeHandler, defaultConnections>>

\* execute_call starts and ends the execution of a request; the dapp makes its
\* own quotes.  (A dapp that fails undoes its sends; these dapps succeed.)
ExecuteCall(nid, protocols) ==
  /\ executing = None
  /\ executing' = [from |-> nid, protocols |-> protocols]
  /\ quote' = None
  /\ UNCHANGED <<feeVars, replied, balance, refused, changes, sends>>

ExecuteCallReply ==
  /\ executing # None
  /\ executing' = None /\ replied' = FALSE
  /\ UNCHANGED <<feeVars, balance, quote, refused, changes, sends>>

Next ==
  \/ \E call \in Call : Quote(call)
  \/ SendReply
  \/ SendCall
  \/ SendRefused
  \/ \E fee \in Amount : SetProtocolFee(fee)
  \/ \E h \in Handler : SetProtocolFeeHandler(h)
  \/ \E n \in Nid, k \in Conn : SetDefaultConnection(n, k)
  \/ \E k \in Conn, n \in Nid, m, r \in Amount : SetFee(k, n, m, r)
  \/ \E n \in Nid, protocols \in Sources : ExecuteCall(n, protocols)
  \/ ExecuteCallReply

Spec == Init /\ [][Next]_vars

-----------------------------------------------------------------------------
\* Type invariant; no account goes below zero.
TypeOK ==
  /\ protocolFee \in Amount /\ feeHandler \in Handler
  /\ \A n \in Nid : defaultConnections[n] \in Conn \cup {None}
  /\ \A k \in Conn, n \in Nid : {messageFee[k][n], responseFee[k][n]}
                                  \subseteq Amount
  /\ replied => executing # None
  /\ balance \in [Account -> Nat]

\* A send is refused only when it pays less than get_fee asks at that moment:
\* what fees.rs adds up is enough for the checks of send_call and for those of
\* every connection, which look at the sign of a number instead of a flag.
RefusedOnlyIfShort == \A r \in refused : r.paid < r.due

\* The call service, which has no way to pay out, keeps no money of callers:
\* get_fee asks nothing for a message that send_call will take as a reply.
NothingKept == balance[Xcall] = 0

=============================================================================
