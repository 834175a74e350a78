--------------------------- MODULE SolanaCluster ---------------------------
(***************************************************************************)
(* The cluster connection of the Solana port (programs/cluster-connection).*)
(* An error aborts the transaction and is a guard that is false.  Fees of  *)
(* a network are an account that setting them creates; a receipt is an     *)
(* account that is created by the delivery and fails it if it exists.      *)
(***************************************************************************)
EXTENDS ClusterRelay

CONSTANT MaxValidators           \* keys that the config account has room for

VARIABLES validators, threshold,
          receipts,              \* {<<src_network, conn_sn>>}
          sn,
          fees,                  \* network -> NetworkFee, or None
          balance

feeVars == <<sn, fees, balance>>
vars == <<relayVars, validators, threshold, receipts, feeVars>>

SolanaInit ==
  /\ RelayInit
  /\ validators = {} /\ threshold = 0
  /\ receipts = {} /\ sn = 0
  /\ fees = [n \in Nets |-> None] /\ balance = 0

\* get_message_hash: what is hashed and signed.
GetMessageHash(src, n, m) == <<src>> \o Digits[n] \o <<m>> \o <<Here>>

\* A signature of k on these bytes is to be had.
Available(k, bytes) ==
  \/ k \in Faulty
  \/ \E e \in emitted : GetMessageHash(e.src, e.sn, e.msg) = bytes

\* (mutant: a validator counts as often as it signed)
UniqueValidatorsEach(sigs) == {i \in DOMAIN sigs : sigs[i] \in validators}
\* The different validators among the signers.
UniqueValidators(sigs) == Range(sigs) \cap validators

\* verify_signatures; recover_pubkey panics if nothing is recovered.
VerifySignatures(sigs) ==
  /\ None \notin Range(sigs)
  /\ Cardinality(UniqueValidators(sigs)) >= threshold

\* (mutant: the account may exist)
InitReceiptIfNeeded(src, n) == receipts' = receipts \cup {<<src, n>>}
\* The receipt account is created.
InitReceipt(src, n) ==
  /\ <<src, n>> \notin receipts
  /\ receipts' = receipts \cup {<<src, n>>}

RecvMessage(src, n, m, sigs) ==
  /\ \A k \in Range(sigs) \ {None} : Available(k, GetMessageHash(src, n, m))
  /\ InitReceipt(src, n)
  /\ VerifySignatures(sigs)
  /\ Deliver([src |-> src, sn |-> n, msg |-> m],
             Trusted(validators, threshold))
  /\ UNCHANGED <<emitted, outbox, validators, threshold, feeVars>>

GetFee(to, response) == fees[to][1] + IF response THEN fees[to][2] ELSE 0

NextConnSn == sn + 1

\* The signer pays exactly the fee, if it has it.
SendMessage(to, sign, m, value) ==
  /\ NextConnSn \in ConnSns
  /\ fees[to] # None
  /\ LET fee == IF sign < 0 THEN 0 ELSE GetFee(to, sign > 0)
     IN  fee <= value /\ balance' = balance + fee
  /\ sn' = NextConnSn
  /\ outbox' = outbox \cup {[to |-> to, sn |-> NextConnSn, msg |-> m]}
  /\ UNCHANGED <<emitted, delivered, validators, threshold, receipts, fees>>

UpdateValidators(keys, t) ==
  /\ Cardinality(Range(keys)) >= t
  /\ Cardinality(Range(keys)) <= MaxValidators
  /\ validators' = Range(keys)
  /\ threshold' = t
  /\ UNCHANGED <<relayVars, receipts, feeVars>>

\* (mutant: any threshold)
SetThresholdAny(t) ==
  /\ threshold' = t
  /\ UNCHANGED <<relayVars, validators, receipts, feeVars>>
SetThreshold(t) ==
  /\ Cardinality(validators) >= t
  /\ threshold' = t
  /\ UNCHANGED <<relayVars, validators, receipts, feeVars>>

SetFee(net, fee) ==
  /\ fees' = [fees EXCEPT ![net] = fee]
  /\ UNCHANGED <<relayVars, validators, threshold, receipts, sn,
                 balance>>

\* What the account holds above its rent.
ClaimFees ==
  /\ balance' = 0
  /\ UNCHANGED <<relayVars, validators, threshold, receipts, sn,
                 fees>>

PeerEmits(src, m) ==
  /\ Emit(src, m)
  /\ UNCHANGED <<delivered, outbox, validators, threshold, receipts,
                 feeVars>>

SolanaNext ==
  \/ \E src \in Nets, m \in Msgs : PeerEmits(src, m)
  \/ \E src \in Nets, n \in ConnSns, m \in Msgs, sigs \in SigLists :
       RecvMessage(src, n, m, sigs)
  \/ \E to \in Nets, sign \in SnSigns, m \in Msgs, v \in MsgValues :
       SendMessage(to, sign, m, v)
  \/ \E u \in Updates : UpdateValidators(u[1], u[2])
  \/ \E t \in Thresholds : SetThreshold(t)
  \/ \E net \in Nets, fee \in FeeValues : SetFee(net, fee)
  \/ ClaimFees

SolanaSpec == SolanaInit /\ [][SolanaNext]_vars

-----------------------------------------------------------------------------
\* There are always validators enough to meet the threshold, in whatever
\* order the admin replaces the validators and sets the threshold
\* (update_validators, set_threshold).
ThresholdReachable == threshold <= Cardinality(validators)

=============================================================================
