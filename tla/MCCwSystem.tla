----------------------------- MODULE MCCwSystem -----------------------------
(***************************************************************************)
(* Instances of CwSystem for TLC: two chains, two connections.             *)
(***************************************************************************)
EXTENDS CwSystem, TLC

CONSTANTS a, b, k1, k2

OneOrBoth == {<<k1>>, <<k1, k2>>}
DefaultOrBoth == {<<>>, <<k1, k2>>}
OnlyBoth == {<<k1, k2>>}

\* One call from a chain if default connections or persisted messages are in
\* play, else two.
CallsFocus ==
  \/ \A c \in Chain : sn[c] <= 1
  \/ /\ \A c, d \in Chain : defaultConnections[c][d] = None
     /\ \A e \in messages : e.msg.type = "CSMessageRequest" =>
                              /\ e.msg.payload.protocols # <<>>
                              /\ e.msg.payload.type # Persisted
     /\ \A c \in Chain : callReply[c] # None =>
                            callReply[c].protocols # <<>>

-----------------------------------------------------------------------------
(***************************************************************************)
(* The call service alone, among arbitrary connections: whatever messages  *)
(* they deliver, in whatever order.  Only the contract of chain a acts; b  *)
(* is a name in its messages.                                              *)
(***************************************************************************)
OpenNext == XcallNext /\ UNCHANGED <<connVars, reverted>>
OpenSpec == Init /\ [][OpenNext]_sysVars

\* Bounds: deliveries made to a, and b does not act.
MaxHeard == 4
Bounded ==
  /\ Cardinality(heard[a]) <= MaxHeard
  /\ heard[b] = {} /\ sn[b] = 0
  /\ \A c \in Chain : \A d \in Chain : defaultConnections[c][d] = None

=============================================================================
