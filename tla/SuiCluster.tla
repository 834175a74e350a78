----------------------------- MODULE SuiCluster -----------------------------
(***************************************************************************)
(* The cluster connection of the Sui port (cluster_state.move,             *)
(* cluster_connection.move, cluster_entry.move): messages are accepted     *)
(* with signatures of a threshold of validators.  A failed assertion       *)
(* aborts the transaction and is a guard that is false.  The vector of     *)
(* validators holds no key twice and its order is never looked at: it is a *)
(* set.                                                                    *)
(***************************************************************************)
EXTENDS ClusterRelay

VARIABLES validators, validators_threshold,
          receipts,              \* {<<nid, conn_sn>>}
          conn_sn,
          fees,                  \* network -> <<message_fee, response_fee>>
          balance

feeVars == <<conn_sn, fees, balance>>
vars == <<relayVars, validators, validators_threshold, receipts, feeVars>>

SuiInit ==
  /\ RelayInit
  /\ validators = {} /\ validators_threshold = 0
  /\ receipts = {} /\ conn_sn = 0
  /\ fees = [n \in Nets |-> <<0, 0>>] /\ balance = 0

\* get_message_hash: the bytes that are signed.
GetMessageHash(src, n, m) == <<src>> \o Digits[n] \o <<m>> \o <<Here>>

\* A signature of k on these bytes is to be had.
Available(k, bytes) ==
  \/ k \in Faulty
  \/ \E e \in emitted : GetMessageHash(e.src, e.sn, e.msg) = bytes

\* (mutant: a validator counts as often as it signed)
VerifiedEach(read) ==
  Cardinality({i \in DOMAIN read : read[i] \in validators})
\* The different validators among the keys recovered.
Verified(read) == Cardinality(Range(read) \cap validators)

\* verify_signatures stops as soon as there are enough, and fails if nothing
\* can be recovered from a signature before that.
VerifySignatures(sigs) ==
  /\ Len(sigs) >= validators_threshold
  /\ \E n \in 0..Len(sigs) :
       LET read == SubSeq(sigs, 1, n)
       IN  /\ None \notin Range(read)
           /\ Verified(read) >= validators_threshold
           /\ n < Len(sigs) => n > 0 /\ read[n] \in validators

\* (mutant: the receipt is looked for but not kept)
CheckSaveReceiptNot(src, n) == <<src, n>> \notin receipts /\ UNCHANGED receipts
CheckSaveReceipt(src, n) ==
  /\ <<src, n>> \notin receipts
  /\ receipts' = receipts \cup {<<src, n>>}

ReceiveMessageWithSignatures(src, n, m, sigs) ==
  /\ \A k \in Range(sigs) \ {None} : Available(k, GetMessageHash(src, n, m))
  /\ VerifySignatures(sigs)
  /\ CheckSaveReceipt(src, n)
  /\ Deliver([src |-> src, sn |-> n, msg |-> m],
             Trusted(validators, validators_threshold))
  /\ UNCHANGED <<emitted, outbox, validators, validators_threshold, feeVars>>

GetFee(to, needResponse) ==
  fees[to][1] + IF needResponse THEN fees[to][2] ELSE 0

NextConnSn == conn_sn + 1

\* send_message: only responses go without a fee.
SendMessage(to, needResponse, isResponse, m, value) ==
  /\ NextConnSn \in ConnSns
  /\ value >= IF isResponse THEN 0 ELSE GetFee(to, needResponse)
  /\ balance' = balance + value
  /\ conn_sn' = NextConnSn
  /\ outbox' = outbox \cup {[to |-> to, sn |-> NextConnSn, msg |-> m]}
  /\ UNCHANGED <<emitted, delivered, validators, validators_threshold,
                 receipts, fees>>

SetValidators(keys, threshold) ==
  /\ validators' = Range(keys)
  /\ Cardinality(Range(keys)) >= threshold
  /\ validators_threshold' = threshold
  /\ UNCHANGED <<relayVars, receipts, feeVars>>

\* (mutant: any threshold)
SetValidatorThresholdAny(threshold) ==
  /\ validators_threshold' = threshold
  /\ UNCHANGED <<relayVars, validators, receipts, feeVars>>
SetValidatorThreshold(threshold) ==
  /\ threshold <= Cardinality(validators)
  /\ validators_threshold' = threshold
  /\ UNCHANGED <<relayVars, validators, receipts, feeVars>>

SetFee(net, fee) ==
  /\ fees' = [fees EXCEPT ![net] = fee]
  /\ UNCHANGED <<relayVars, validators, validators_threshold, receipts,
                 conn_sn, balance>>

ClaimFees ==
  /\ balance' = 0
  /\ UNCHANGED <<relayVars, validators, validators_threshold, receipts,
                 conn_sn, fees>>

PeerEmits(src, m) ==
  /\ Emit(src, m)
  /\ UNCHANGED <<delivered, outbox, validators, validators_threshold,
                 receipts, feeVars>>

SuiNext ==
  \/ \E src \in Nets, m \in Msgs : PeerEmits(src, m)
  \/ \E src \in Nets, n \in ConnSns, m \in Msgs, sigs \in SigLists :
       ReceiveMessageWithSignatures(src, n, m, sigs)
  \/ \E to \in Nets, need, response \in BOOLEAN, m \in Msgs, v \in MsgValues :
       SendMessage(to, need, response, m, v)
  \/ \E u \in Updates : SetValidators(u[1], u[2])
  \/ \E t \in Thresholds : SetValidatorThreshold(t)
  \/ \E net \in Nets, fee \in FeeValues : SetFee(net, fee)
  \/ ClaimFees

SuiSpec == SuiInit /\ [][SuiNext]_vars

-----------------------------------------------------------------------------
TypeOK ==
  /\ emitted \subseteq Packet
  /\ delivered \in Seq([packet : Packet, trusted : BOOLEAN])
  /\ validators \subseteq Key /\ validators_threshold \in Nat
  /\ receipts \subseteq Nets \X ConnSns
  /\ conn_sn \in 0..MaxConnSn /\ balance \in Nat
  /\ fees \in [Nets -> Nat \X Nat]

\* There are always validators enough to meet the threshold, in whatever
\* order the admin replaces the validators and sets the threshold
\* (set_validators, set_validator_threshold).
ThresholdReachable == validators_threshold <= Cardinality(validators)

\* The bytes that are signed tell which message of which network, under which
\* number, they stand for, although nothing separates the parts.
BytesTellMessages ==
  \A s, t \in Nets, i, j \in ConnSns, m, n \in Msgs :
    GetMessageHash(s, i, m) = GetMessageHash(t, j, n) =>
      s = t /\ i = j /\ m = n

=============================================================================
