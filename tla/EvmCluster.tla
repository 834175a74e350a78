----------------------------- MODULE EvmCluster -----------------------------
(***************************************************************************)
(* The cluster connection of the EVM port (ClusterConnection.sol): the     *)
(* relayer delivers messages with signatures of a threshold of validators. *)
(* A failed require reverts the transaction and is a guard that is false.  *)
(* The array of validators holds no address twice and its order is never   *)
(* looked at: it is a set.                                                 *)
(***************************************************************************)
EXTENDS ClusterRelay

VARIABLES validators, validatorsThreshold,
          receipts,              \* {<<srcNetwork, _connSn>>}
          connSn,
          fees,                  \* network -> <<messageFees, responseFees>>
          balance

feeVars == <<connSn, fees, balance>>
vars == <<relayVars, validators, validatorsThreshold, receipts, feeVars>>

EvmInit ==
  /\ RelayInit
  /\ validators = {} /\ validatorsThreshold = 0
  /\ receipts = {} /\ connSn = 0
  /\ fees = [n \in Nets |-> <<0, 0>>] /\ balance = 0

\* getMessageHash: what is hashed and signed.
GetMessageHash(src, n, m) == <<src>> \o Digits[n] \o <<m>> \o <<Here>>

\* A signature of k on these bytes is to be had.
Available(k, bytes) ==
  \/ k \in Faulty
  \/ \E e \in emitted : GetMessageHash(e.src, e.sn, e.msg) = bytes

\* (mutant: signers that are no validators count)
CollectedSignersAny(sigs) == Range(sigs)
\* Every signer that is a validator, once.
CollectedSigners(sigs) == Range(sigs) \cap validators

\* (mutant: receipts are not looked at)
NoReceiptWanted(src, n) == TRUE
NoReceipt(src, n) == <<src, n>> \notin receipts

\* recvMessageWithSignatures.  A signature from which no signer is recovered
\* reverts it.
RecvMessageWithSignatures(src, n, m, sigs) ==
  /\ \A k \in Range(sigs) \ {None} : Available(k, GetMessageHash(src, n, m))
  /\ Len(sigs) >= validatorsThreshold
  /\ None \notin Range(sigs)
  /\ Cardinality(CollectedSigners(sigs)) >= validatorsThreshold
  /\ NoReceipt(src, n)
  /\ receipts' = receipts \cup {<<src, n>>}
  /\ Deliver([src |-> src, sn |-> n, msg |-> m],
             Trusted(validators, validatorsThreshold))
  /\ UNCHANGED <<emitted, outbox, validators, validatorsThreshold, feeVars>>

GetFee(to, response) == fees[to][1] + IF response THEN fees[to][2] ELSE 0

SendMessage(to, sign, m, value) ==
  /\ connSn + 1 \in ConnSns
  /\ value >= IF sign < 0 THEN 0 ELSE GetFee(to, sign > 0)
  /\ connSn' = connSn + 1
  /\ balance' = balance + value
  /\ outbox' = outbox \cup {[to |-> to, sn |-> connSn + 1, msg |-> m]}
  /\ UNCHANGED <<emitted, delivered, validators, validatorsThreshold,
                 receipts, fees>>

UpdateValidators(keys, threshold) ==
  /\ validators' = Range(keys)
  /\ Cardinality(Range(keys)) >= threshold
  /\ validatorsThreshold' = threshold
  /\ UNCHANGED <<relayVars, receipts, feeVars>>

SetRequiredValidatorCount(count) ==
  /\ validatorsThreshold' = count
  /\ UNCHANGED <<relayVars, validators, receipts, feeVars>>

SetFee(net, fee) ==
  /\ fees' = [fees EXCEPT ![net] = fee]
  /\ UNCHANGED <<relayVars, validators, validatorsThreshold, receipts, connSn,
                 balance>>

ClaimFees ==
  /\ balance' = 0
  /\ UNCHANGED <<relayVars, validators, validatorsThreshold, receipts, connSn,
                 fees>>

PeerEmits(src, m) ==
  /\ Emit(src, m)
  /\ UNCHANGED <<delivered, outbox, validators, validatorsThreshold, receipts,
                 feeVars>>

EvmNext ==
  \/ \E src \in Nets, m \in Msgs : PeerEmits(src, m)
  \/ \E src \in Nets, n \in ConnSns, m \in Msgs, sigs \in SigLists :
       RecvMessageWithSignatures(src, n, m, sigs)
  \/ \E to \in Nets, sign \in SnSigns, m \in Msgs, v \in MsgValues :
       SendMessage(to, sign, m, v)
  \/ \E u \in Updates : UpdateValidators(u[1], u[2])
  \/ \E t \in Thresholds : SetRequiredValidatorCount(t)
  \/ \E net \in Nets, fee \in FeeValues : SetFee(net, fee)
  \/ ClaimFees

EvmSpec == EvmInit /\ [][EvmNext]_vars

=============================================================================
