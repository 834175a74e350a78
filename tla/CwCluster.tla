----------------------------- MODULE CwCluster ------------------------------
(***************************************************************************)
(* The cluster connection of the CosmWasm port (cw-cluster-connection).  An *)
(* error undoes the transaction and is a guard that is false.              *)
(***************************************************************************)
EXTENDS ClusterRelay

VARIABLES validators, signature_threshold,
          receipts,              \* {<<src_network, conn_sn>>}
          conn_sn,
          fees,                  \* network -> <<message_fee, response_fee>>
          balance

feeVars == <<conn_sn, fees, balance>>
vars == <<relayVars, validators, signature_threshold, receipts, feeVars>>

CwInit ==
  /\ RelayInit
  /\ validators = {} /\ signature_threshold = 1
  /\ receipts = {} /\ conn_sn = 0
  /\ fees = [n \in Nets |-> <<0, 0>>] /\ balance = 0

\* SignableMsg: what is hashed and signed.
EncodeUtf8Bytes(src, n, m) == <<src>> \o Digits[n] \o <<m>> \o <<Here>>

\* A signature of k on these bytes is to be had.
Available(k, bytes) ==
  \/ k \in Faulty
  \/ \E e \in emitted : EncodeUtf8Bytes(e.src, e.sn, e.msg) = bytes

\* (mutant: a validator counts as often as it signed)
SignersEach(sigs) == {i \in DOMAIN sigs : sigs[i] \in validators}
\* The different validators among the signers; signatures (of 65 bytes) from
\* which nothing is recovered are skipped.
Signers(sigs) == Range(sigs) \cap validators

\* verify_signatures returns when the last signer wanted is found, so that it
\* needs one even for threshold 0.
VerifySignatures(sigs) ==
  /\ Len(sigs) >= signature_threshold
  /\ Signers(sigs) # {}
  /\ Cardinality(Signers(sigs)) >= signature_threshold

\* (mutant: receipts are not looked at)
NoReceiptWanted(src, n) == TRUE
NoReceipt(src, n) == <<src, n>> \notin receipts

RecvMessage(src, n, m, sigs) ==
  /\ \A k \in Range(sigs) \ {None} : Available(k, EncodeUtf8Bytes(src, n, m))
  /\ NoReceipt(src, n)
  /\ VerifySignatures(sigs)
  /\ receipts' = receipts \cup {<<src, n>>}
  /\ Deliver([src |-> src, sn |-> n, msg |-> m],
             Trusted(validators, signature_threshold))
  /\ UNCHANGED <<emitted, outbox, validators, signature_threshold, feeVars>>

NextConnSn == conn_sn + 1

GetFee(to, response) == fees[to][1] + IF response THEN fees[to][2] ELSE 0

SendMessage(to, sign, m, value) ==
  /\ NextConnSn \in ConnSns
  /\ value >= IF sign < 0 THEN 0 ELSE GetFee(to, sign > 0)
  /\ conn_sn' = NextConnSn
  /\ balance' = balance + value
  /\ outbox' = outbox \cup {[to |-> to, sn |-> NextConnSn, msg |-> m]}
  /\ UNCHANGED <<emitted, delivered, validators, signature_threshold,
                 receipts, fees>>

\* An empty list keeps the validators and only sets the threshold.
SetValidators(keys, threshold) ==
  /\ threshold >= 1
  /\ validators' = IF keys = <<>> THEN validators ELSE Range(keys)
  /\ Cardinality(validators') >= threshold
  /\ signature_threshold' = threshold
  /\ UNCHANGED <<relayVars, receipts, feeVars>>

SetSignatureThreshold(threshold) ==
  /\ signature_threshold' = threshold
  /\ UNCHANGED <<relayVars, validators, receipts, feeVars>>

SetFee(net, fee) ==
  /\ fees' = [fees EXCEPT ![net] = fee]
  /\ UNCHANGED <<relayVars, validators, signature_threshold, receipts, conn_sn,
                 balance>>

ClaimFees ==
  /\ balance' = 0
  /\ UNCHANGED <<relayVars, validators, signature_threshold, receipts, conn_sn,
                 fees>>

PeerEmits(src, m) ==
  /\ Emit(src, m)
  /\ UNCHANGED <<delivered, outbox, validators, signature_threshold, receipts,
                 feeVars>>

CwNext ==
  \/ \E src \in Nets, m \in Msgs : PeerEmits(src, m)
  \/ \E src \in Nets, n \in ConnSns, m \in Msgs, sigs \in SigLists :
       RecvMessage(src, n, m, sigs)
  \/ \E to \in Nets, sign \in SnSigns, m \in Msgs, v \in MsgValues :
       SendMessage(to, sign, m, v)
  \/ \E u \in Updates : SetValidators(u[1], u[2])
  \/ \E t \in Thresholds : SetSignatureThreshold(t)
  \/ \E net \in Nets, fee \in FeeValues : SetFee(net, fee)
  \/ ClaimFees

CwSpec == CwInit /\ [][CwNext]_vars

=============================================================================
