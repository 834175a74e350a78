---------------------------- MODULE OnceChannel -----------------------------
(***************************************************************************)
(* What call services expect of a connection: messages that were sent are  *)
(* received, each once, in any order, and nothing else is.                 *)
(***************************************************************************)
EXTENDS Sequences, Functions

CONSTANT Message

VARIABLES sent,       \* messages sent, all different
          received    \* messages received, in order

vars == <<sent, received>>

Init == sent = {} /\ received = <<>>

Send(m) == m \notin sent /\ sent' = sent \cup {m} /\ UNCHANGED received

Receive(m) ==
  /\ m \in sent \ Range(received)
  /\ received' = Append(received, m)
  /\ UNCHANGED sent

Next == \E m \in Message : Send(m) \/ Receive(m)

Spec == Init /\ [][Next]_vars

=============================================================================
