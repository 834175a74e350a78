----------------------- MODULE CwCentralizedConnection ----------------------
(***************************************************************************)
(* The CosmWasm centralized connection: one contract per connection of     *)
(* Conn on every chain, and the relayer (the admin of the contracts) that  *)
(* carries the Message events of one chain to recv_message on another.     *)
(*                                                                         *)
(* messages is the set of all Message events ever emitted.  The relayer    *)
(* may submit any of them at any time, again and again or never: messages  *)
(* are lost, delayed, reordered and repeated.  It invents none.            *)
(*                                                                         *)
(* The fee of send_message is left out: xcall queries get_fee and passes   *)
(* exactly that amount in the same transaction.                            *)
(***************************************************************************)
EXTENDS XcallMessages

VARIABLES connSn,     \* conn_sn of every connection contract
          receipts,   \* (connection, source network, connSn) received
          messages    \* the Message events emitted

connVars == <<connSn, receipts, messages>>

Event == [conn : Conn, src : Chain, dst : Chain, connSn : Nat, msg : CSMessage]

ConnInit ==
  /\ connSn = [c \in Chain |-> [k \in Conn |-> 0]]
  /\ receipts = [c \in Chain |-> {}]
  /\ messages = {}

\* Uses of connection k among the first n elements of a list.
Uses(k, conns, n) == Cardinality({i \in 1..n : conns[i] = k})

\* send_message on each connection of the list in turn: each takes its next
\* connSn and emits an event.
SendMessage(c, to, conns, m) ==
  /\ connSn' = [connSn EXCEPT ![c] =
                  [k \in Conn |-> @[k] + Uses(k, conns, Len(conns))]]
  /\ messages' = messages \cup
       {[conn |-> conns[i], src |-> c, dst |-> to, msg |-> m,
         connSn |-> connSn[c][conns[i]] + Uses(conns[i], conns, i)] :
          i \in DOMAIN conns}
  /\ UNCHANGED receipts

\* (mutant: the receipt is stored but not looked up)
RecvMessageAgain(c, e) ==
  /\ e.dst = c
  /\ receipts' = [receipts EXCEPT ![c] = @ \cup {<<e.conn, e.src, e.connSn>>}]
  /\ UNCHANGED <<connSn, messages>>
\* recv_message up to the call of xcall: a message is let through once.
\* When xcall returns an error, the receipt is undone with it.
RecvMessage(c, e) ==
  LET receipt == <<e.conn, e.src, e.connSn>>
  IN  /\ e.dst = c
      /\ receipt \notin receipts[c]
      /\ receipts' = [receipts EXCEPT ![c] = @ \cup {receipt}]
      /\ UNCHANGED <<connSn, messages>>

\* Type invariant.
ConnTypeOK ==
  /\ connSn \in [Chain -> [Conn -> Nat]]
  /\ receipts \in [Chain -> SUBSET (Conn \X Chain \X Nat)]
  /\ messages \subseteq Event

=============================================================================
