--------------------------- MODULE SuiConnections ---------------------------
(***************************************************************************)
(* How the Sui package of xcall keeps its connections and its version: one *)
(* package holds every connection, each with its state under its id; the   *)
(* id says which kind it is.  The centralized kind is modelled whole, of   *)
(* the cluster kind (module SuiCluster) only that it is registered.        *)
(*                                                                         *)
(* An upgrade publishes a new package and leaves the old ones callable; a  *)
(* package has the version that it was compiled with, the storage that of  *)
(* the last migration.  An abort is a guard that is false.  Capabilities   *)
(* are not modelled: an operation is taken by who has its capability.      *)
(***************************************************************************)
EXTENDS Naturals, Sequences, Functions

CONSTANTS Centralized, Cluster,   \* connection ids of the two kinds
          OtherIds,               \* ids of no kind
          Net,                    \* network ids
          FeeValues,              \* <<message fee, response fee>>
          MsgValues,              \* coins that come with messages
          MaxVersion, MaxConnSn   \* bounds

Ids == Centralized \cup Cluster \cup OtherIds
NoConnection == "none"
Sns == 1..MaxConnSn

VARIABLES
  version,        \* of the storage
  published,      \* version of the newest package
  states,         \* the bag: connection id -> state
  connections,    \* network -> default connection
  netId           \* configured or not

(* History: emitted are the numbers of messages sent, delivered counts     *)
(* what was handed to xcall, deposited and claimed are what came in and    *)
(* went out.                                                               *)
VARIABLES emitted, delivered, deposited, claimed

moneyVars == <<deposited, claimed>>
vars == <<version, published, states, connections, netId, emitted, delivered,
          moneyVars>>

Init ==
  /\ version = 1 /\ published = 1
  /\ states = <<>> /\ netId = FALSE
  /\ connections = [n \in Net |-> NoConnection]
  /\ emitted = [c \in Ids |-> <<>>]
  /\ delivered = [d \in Ids \X Net \X Sns |-> 0]
  /\ deposited = [c \in Ids |-> 0] /\ claimed = [c \in Ids |-> 0]

\* The state of a new connection.
Create == [fees |-> [n \in Net |-> <<0, 0>>], receipts |-> {}, connSn |-> 0,
           balance |-> 0]

\* An operation through package p; any package that was published is callable.
Through(p) == p \in 1..published

EnforceVersion(p) == p = version

\* The part of an id before its dash.
GetConnectionType(c) ==
  CASE c \in Centralized -> "centralized"
    [] c \in Cluster -> "cluster"
    [] OTHER -> "unknown"

-----------------------------------------------------------------------------
\* register aborts for an id of no kind and for one that is taken.
Register(c) ==
  /\ GetConnectionType(c) \in {"centralized", "cluster"}
  /\ c \notin DOMAIN states
  /\ states' = [d \in DOMAIN states \cup {c} |->
                  IF d = c THEN Create ELSE states[d]]

RegisterConnectionAdmin(p, c) ==
  /\ Through(p) /\ EnforceVersion(p)
  /\ Register(c)
  /\ UNCHANGED <<version, published, connections, netId, emitted, delivered,
                 moneyVars>>

ConnectionExists(c) == c \in DOMAIN states

SetDefaultConnection(p, n, c) ==
  /\ Through(p) /\ EnforceVersion(p)
  /\ ConnectionExists(c)
  /\ connections' = [connections EXCEPT ![n] = c]
  /\ UNCHANGED <<version, published, states, netId, emitted, delivered,
                 moneyVars>>

ConfigureNid(p) ==
  /\ Through(p)
  /\ netId' = TRUE
  /\ UNCHANGED <<version, published, states, connections, emitted, delivered,
                 moneyVars>>

Migrate(p) ==
  /\ Through(p)
  /\ version < p
  /\ version' = p
  /\ UNCHANGED <<published, states, connections, netId, emitted, delivered,
                 moneyVars>>

\* The owner of the package publishes an upgrade.
Publish ==
  /\ published < MaxVersion
  /\ published' = published + 1
  /\ UNCHANGED <<version, states, connections, netId, emitted, delivered,
                 moneyVars>>

-----------------------------------------------------------------------------
\* get_state_mut aborts unless there is a state of the centralized kind.
HasState(c) == c \in DOMAIN states /\ GetConnectionType(c) = "centralized"

GetFee(c, n, response) ==
  states[c].fees[n][1] + IF response THEN states[c].fees[n][2] ELSE 0

\* (mutant: the next message gets the same number)
GetNextConnSnSame(st) == IF st.connSn = 0 THEN 1 ELSE st.connSn
GetNextConnSn(st) == st.connSn + 1

\* (mutant: the coin goes to the first connection)
DepositFirst(c, value) == [d \in DOMAIN states |->
  IF d = (CHOOSE x \in DOMAIN states : TRUE)
  THEN [states[d] EXCEPT !.balance = @ + value] ELSE states[d]]
Deposit(c, value) == [states EXCEPT ![c].balance = @ + value]

\* send_message: a response costs nothing.  sign is that of the call's number.
SendMessage(p, c, n, sign, isResponse, value) ==
  LET sn == GetNextConnSn(states[c])
  IN  /\ Through(p) /\ EnforceVersion(p)
      /\ HasState(c)
      /\ Len(emitted[c]) < MaxConnSn
      /\ value >= IF isResponse THEN 0 ELSE GetFee(c, n, sign > 0)
      /\ states' = [Deposit(c, value) EXCEPT ![c].connSn = sn]
      /\ emitted' = [emitted EXCEPT ![c] = Append(@, sn)]
      /\ deposited' = [deposited EXCEPT ![c] = @ + value]
      /\ UNCHANGED <<version, published, connections, netId, delivered,
                     claimed>>

\* (mutant: receipts are not looked at)
CheckReceiptNot(c, n, sn) == TRUE
CheckReceipt(c, n, sn) == <<n, sn>> \notin states[c].receipts

\* receive_message; handle_message of xcall enforces the version.
ReceiveMessage(p, c, n, sn) ==
  /\ Through(p)
  /\ HasState(c)
  /\ CheckReceipt(c, n, sn)
  /\ states' = [states EXCEPT ![c].receipts = @ \cup {<<n, sn>>}]
  /\ EnforceVersion(p)
  /\ delivered' = [delivered EXCEPT ![c, n, sn] = @ + 1]
  /\ UNCHANGED <<version, published, connections, netId, emitted, moneyVars>>

SetFee(p, c, n, fee) ==
  /\ Through(p)
  /\ HasState(c)
  /\ states' = [states EXCEPT ![c].fees[n] = fee]
  /\ UNCHANGED <<version, published, connections, netId, emitted, delivered,
                 moneyVars>>

ClaimFees(p, c) ==
  /\ Through(p)
  /\ HasState(c)
  /\ claimed' = [claimed EXCEPT ![c] = @ + states[c].balance]
  /\ states' = [states EXCEPT ![c].balance = 0]
  /\ UNCHANGED <<version, published, connections, netId, emitted, delivered,
                 deposited>>

Next ==
  \/ Publish
  \/ \E p \in 1..MaxVersion :
       \/ \E c \in Ids : RegisterConnectionAdmin(p, c)
       \/ \E n \in Net, c \in Ids : SetDefaultConnection(p, n, c)
       \/ ConfigureNid(p)
       \/ Migrate(p)
       \/ \E c \in Ids, n \in Net, sign \in {0, 1}, isResponse \in BOOLEAN,
             value \in MsgValues : SendMessage(p, c, n, sign, isResponse, value)
       \/ \E c \in Ids, n \in Net, sn \in Sns : ReceiveMessage(p, c, n, sn)
       \/ \E c \in Ids, n \in Net, fee \in FeeValues : SetFee(p, c, n, fee)
       \/ \E c \in Ids : ClaimFees(p, c)

Spec == Init /\ [][Next]_vars

-----------------------------------------------------------------------------
\* The messages of a connection carry different numbers, whichever packages
\* they were sent through (get_next_conn_sn).
NumbersDistinct == \A c \in Ids : IsInjective(emitted[c])

\* What came in with messages of a connection is in its balance or was claimed
\* by its relayer: the connections of the package do not mix their money
\* (deposit, claim_fees).
FeesKeptApart ==
  \A c \in DOMAIN states : deposited[c] = states[c].balance + claimed[c]

\* A message of one number and network is handed to xcall once by a connection,
\* before and after an upgrade, whatever other connections received
\* (check_save_receipt).
ReceiptsMatch ==
  \A c \in DOMAIN states, n \in Net, sn \in Sns :
    delivered[c, n, sn] = IF <<n, sn>> \in states[c].receipts THEN 1 ELSE 0

=============================================================================
