--------------------------- MODULE MCClusterPorts ---------------------------
(***************************************************************************)
(* The cluster connections of all six ports for TLC, and the storage of    *)
(* the Sui package that its connections of both kinds share: each          *)
(* behaviour is one of a single port, or of that storage.                  *)
(***************************************************************************)
EXTENDS ClusterRelay, TLC

CONSTANTS Ports, MaxSlots, MaxValidators, v1, v2, f1

VARIABLES port, validators, threshold, receipts, conn_sn, fees, balance

VARIABLES version, published, states, connections, netId, numbered, counted,
          deposited, claimed       \* of the storage that Sui connections share

storeVars == <<version, published, states, connections, netId, numbered,
               counted, deposited, claimed>>
portVars == <<port, relayVars, validators, threshold, receipts, conn_sn, fees,
              balance>>

Cw == INSTANCE CwCluster WITH signature_threshold <- threshold
Evm == INSTANCE EvmCluster WITH validatorsThreshold <- threshold,
                                connSn <- conn_sn
Java == INSTANCE JavaCluster WITH validatorsThreshold <- threshold,
                                  connSn <- conn_sn
Soroban == INSTANCE SorobanCluster
Sui == INSTANCE SuiCluster WITH validators_threshold <- threshold
Solana == INSTANCE SolanaCluster WITH sn <- conn_sn
Store == INSTANCE SuiConnections
           WITH Centralized <- {"c-1", "c-2"}, Cluster <- {"k-1"},
                OtherIds <- {"other"}, Net <- {"n"}, MsgValues <- {1},
                MaxVersion <- 2, emitted <- numbered, delivered <- counted

PortsInit ==
  /\ port \in Ports
  /\ Store!Init
  /\ \/ port = "cosmwasm" /\ Cw!CwInit
     \/ port = "evm" /\ Evm!EvmInit
     \/ port = "java" /\ Java!JavaInit
     \/ port = "soroban" /\ Soroban!SorobanInit
     \/ port \in {"sui", "store"} /\ Sui!SuiInit
     \/ port = "solana" /\ Solana!SolanaInit

PortsNext ==
  /\ UNCHANGED <<port, storeVars>>
  /\ \/ port = "cosmwasm" /\ Cw!CwNext
     \/ port = "evm" /\ Evm!EvmNext
     \/ port = "java" /\ Java!JavaNext
     \/ port = "soroban" /\ Soroban!SorobanNext
     \/ port = "sui" /\ Sui!SuiNext
     \/ port = "solana" /\ Solana!SolanaNext

StoreNext == port = "store" /\ Store!Next /\ UNCHANGED portVars

PortsSpec ==
  PortsInit /\ [][PortsNext \/ StoreNext]_<<portVars, storeVars>>

\* What the proofs for the Sui port assume of the constants.
ASSUME SuiBytes == Sui!BytesTellMessages

-----------------------------------------------------------------------------
\* Validators with a key twice, too few keys for the threshold, and none; the
\* last is how CosmWasm sets the threshold alone.
MCUpdates ==
  {<<<<v1, v2, f1>>, 2>>, <<<<f1, v2, f1>>, 2>>, <<<<v1, v1>>, 2>>,
   <<<<>>, 1>>}
MCFees == {<<1, 1>>}

\* No message is named: they are interchangeable.
Symmetry == Permutations(Msgs)

-----------------------------------------------------------------------------
\* There are always validators enough to meet the threshold, in whatever order
\* the admin replaces the validators and sets the threshold, on the ports where
\* both setters look at both (set_validators, set_validator_threshold of Sui;
\* update_validators, set_threshold of Solana): else no message could be
\* delivered.
ThresholdReachable ==
  CASE port = "sui" -> Sui!ThresholdReachable
    [] port = "solana" -> Solana!ThresholdReachable
    [] OTHER -> TRUE

\* Connections of the Sui package stay apart, before and after an upgrade and
\* through old packages and new: each gives its messages different numbers
\* (get_next_conn_sn), hands a message of one number and network to xcall once,
\* whatever the others receive (check_save_receipt), and has what came in with
\* its messages in its balance until its relayer claims it (deposit,
\* claim_fees).
SuiConnectionsApart ==
  Store!NumbersDistinct /\ Store!ReceiptsMatch /\ Store!FeesKeptApart

=============================================================================
