---------------------------- MODULE TwoWayCalls -----------------------------
(***************************************************************************)
(* What xCall promises about two-way calls, independent of chains,         *)
(* connections and messages.  A call has two sides.  Its target runs it at *)
(* most once.  Its source learns of a success only after the target ran it *)
(* with success, and runs the rollback only after the target ran it with   *)
(* failure or, where connections may give messages up, after they gave     *)
(* this one up.  Success and rollback exclude each other.                  *)
(***************************************************************************)
CONSTANTS Id,         \* the identities of calls
          MayGiveUp   \* may connections give a message up?

VARIABLES source,     \* what the sender of a call knows
          target      \* what the receiver of a call did

Init ==
  /\ source = [x \in Id |-> "unsent"]
  /\ target = [x \in Id |-> "idle"]

Send(x) ==
  /\ source[x] = "unsent"
  /\ source' = [source EXCEPT ![x] = "open"]
  /\ UNCHANGED target

Run(x, outcome) ==
  /\ source[x] # "unsent"
  /\ target[x] = "idle"
  /\ target' = [target EXCEPT ![x] = outcome]
  /\ UNCHANGED source

Succeed(x) ==
  /\ source[x] \in {"open", "failed"}
  /\ target[x] = "ok"
  /\ source' = [source EXCEPT ![x] = "succeeded"]
  /\ UNCHANGED target

Fail(x) ==
  /\ source[x] = "open"
  /\ target[x] = "failed" \/ MayGiveUp
  /\ source' = [source EXCEPT ![x] = "failed"]
  /\ UNCHANGED target

RollBack(x) ==
  /\ source[x] = "failed"
  /\ source' = [source EXCEPT ![x] = "rolledBack"]
  /\ UNCHANGED target

Next ==
  \E x \in Id :
    \/ Send(x)
    \/ \E outcome \in {"ok", "failed"} : Run(x, outcome)
    \/ Succeed(x)
    \/ Fail(x)
    \/ RollBack(x)

Spec == Init /\ [][Next]_<<source, target>>

=============================================================================
