--------------------------- MODULE SorobanCluster ---------------------------
(***************************************************************************)
(* The cluster connection of the Stellar port (soroban cluster-connection). *)
(* An error or a trap undoes the invocation and is a guard that is false.  *)
(* Receipts are persistent entries: when their time to live ends they are  *)
(* archived, not lost, and no other entry can take their place.            *)
(***************************************************************************)
EXTENDS ClusterRelay

VARIABLES validators,            \* sequence of keys
          threshold,
          receipts,              \* {<<src_network, conn_sn>>}
          conn_sn,
          fees,                  \* network -> NetworkFee
          balance

feeVars == <<conn_sn, fees, balance>>
vars == <<relayVars, validators, threshold, receipts, feeVars>>

SorobanInit ==
  /\ RelayInit
  /\ validators = <<>> /\ threshold = 0
  /\ receipts = {} /\ conn_sn = 0
  /\ fees = [n \in Nets |-> <<0, 0>>] /\ balance = 0

\* get_encoded_message: what is hashed and signed.
GetEncodedMessage(src, n, m) == <<src>> \o Digits[n] \o <<m>> \o <<Here>>

\* A signature of k on these bytes is to be had.
Available(k, bytes) ==
  \/ k \in Faulty
  \/ \E e \in emitted : GetEncodedMessage(e.src, e.sn, e.msg) = bytes

\* (mutant: a validator counts as often as it signed)
UniqueValidatorsEach(sigs) ==
  {i \in DOMAIN sigs : sigs[i] \in Range(validators)}
\* The different validators among the signers.
UniqueValidators(sigs) == Range(sigs) \cap Range(validators)

\* verify_signatures; it traps on a signature that recovers nothing.
VerifySignatures(sigs) ==
  /\ Len(sigs) >= threshold
  /\ None \notin Range(sigs)
  /\ Cardinality(UniqueValidators(sigs)) >= threshold

\* (mutant: receipts are not looked at)
NoReceiptWanted(src, n) == TRUE
NoReceipt(src, n) == <<src, n>> \notin receipts

RecvMessageWithSignatures(src, n, m, sigs) ==
  /\ \A k \in Range(sigs) \ {None} : Available(k, GetEncodedMessage(src, n, m))
  /\ VerifySignatures(sigs)
  /\ NoReceipt(src, n)
  /\ receipts' = receipts \cup {<<src, n>>}
  /\ Deliver([src |-> src, sn |-> n, msg |-> m],
             Trusted(Range(validators), threshold))
  /\ UNCHANGED <<emitted, outbox, validators, threshold, feeVars>>

GetFee(to, response) == fees[to][1] + IF response THEN fees[to][2] ELSE 0

NextConnSn == conn_sn + 1

\* The account that started the transaction pays the fee, if it has it.
SendMessage(to, sign, m, value) ==
  LET fee == IF sign < 0 THEN 0 ELSE GetFee(to, sign > 0)
  IN  /\ NextConnSn \in ConnSns
      /\ fee <= value
      /\ conn_sn' = NextConnSn
      /\ balance' = balance + fee
      /\ outbox' = outbox \cup {[to |-> to, sn |-> NextConnSn, msg |-> m]}
      /\ UNCHANGED <<emitted, delivered, validators, threshold, receipts, fees>>

\* The different keys are counted, and the list is stored as it came.
UpdateValidators(keys, t) ==
  /\ Cardinality(Range(keys)) >= t
  /\ validators' = keys
  /\ threshold' = t
  /\ UNCHANGED <<relayVars, receipts, feeVars>>

SetValidatorsThreshold(t) ==
  /\ Len(validators) >= t
  /\ threshold' = t
  /\ UNCHANGED <<relayVars, validators, receipts, feeVars>>

SetFee(net, fee) ==
  /\ fees' = [fees EXCEPT ![net] = fee]
  /\ UNCHANGED <<relayVars, validators, threshold, receipts, conn_sn,
                 balance>>

ClaimFees ==
  /\ balance' = 0
  /\ UNCHANGED <<relayVars, validators, threshold, receipts, conn_sn,
                 fees>>

PeerEmits(src, m) ==
  /\ Emit(src, m)
  /\ UNCHANGED <<delivered, outbox, validators, threshold, receipts,
                 feeVars>>

SorobanNext ==
  \/ \E src \in Nets, m \in Msgs : PeerEmits(src, m)
  \/ \E src \in Nets, n \in ConnSns, m \in Msgs, sigs \in SigLists :
       RecvMessageWithSignatures(src, n, m, sigs)
  \/ \E to \in Nets, sign \in SnSigns, m \in Msgs, v \in MsgValues :
       SendMessage(to, sign, m, v)
  \/ \E u \in Updates : UpdateValidators(u[1], u[2])
  \/ \E t \in Thresholds : SetValidatorsThreshold(t)
  \/ \E net \in Nets, fee \in FeeValues : SetFee(net, fee)
  \/ ClaimFees

SorobanSpec == SorobanInit /\ [][SorobanNext]_vars

=============================================================================
