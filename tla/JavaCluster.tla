---------------------------- MODULE JavaCluster ----------------------------
(***************************************************************************)
(* The cluster connection of the ICON port (ClusterConnection.java).  A    *)
(* failed require, or a null that is used, reverts the transaction and is  *)
(* a guard that is false.  The array of validators keeps the places that   *)
(* clearing it emptied: None stands for null.                              *)
(***************************************************************************)
EXTENDS ClusterRelay, SequencesExt

CONSTANT MaxSlots                \* bound: places of the array of validators

VARIABLES validators,            \* ArrayDB: sequence of keys and None
          validatorsThreshold,   \* None until it is first set
          receipts,              \* {<<srcNetwork, _connSn>>}
          connSn,
          fees,                  \* network -> <<messageFees, responseFees>>
          balance

feeVars == <<connSn, fees, balance>>
vars == <<relayVars, validators, validatorsThreshold, receipts, feeVars>>

JavaInit ==
  /\ RelayInit
  /\ validators = <<>> /\ validatorsThreshold = None
  /\ receipts = {} /\ connSn = 0
  /\ fees = [n \in Nets |-> <<0, 0>>] /\ balance = 0

\* getMessageHash: what is hashed and signed.
GetMessageHash(src, n, m) == <<src>> \o Digits[n] \o <<m>> \o <<Here>>

\* A signature of k on these bytes is to be had.
Available(k, bytes) ==
  \/ k \in Faulty
  \/ \E e \in emitted : GetMessageHash(e.src, e.sn, e.msg) = bytes

\* (mutant: a validator counts as often as it signed)
UniqueValidatorsEach(read) ==
  {i \in DOMAIN read : read[i] \in Range(validators)}
\* The different validators among the signers.
UniqueValidators(read) == Range(read) \cap Range(validators)

\* The loop over the signatures ends as soon as there are enough; one from
\* which nothing is recovered reverts if it is reached.
EnoughValidators(sigs) ==
  \E n \in 0..Len(sigs) :
    LET read == SubSeq(sigs, 1, n)
    IN  /\ None \notin Range(read)
        /\ Cardinality(UniqueValidators(read)) >= validatorsThreshold
        /\ n = 0 => Len(sigs) = 0

\* (mutant: receipts are not looked at)
NoReceiptWanted(src, n) == TRUE
NoReceipt(src, n) == <<src, n>> \notin receipts

RecvMessageWithSignatures(src, n, m, sigs) ==
  /\ \A k \in Range(sigs) \ {None} : Available(k, GetMessageHash(src, n, m))
  /\ validatorsThreshold # None
  /\ Len(sigs) >= validatorsThreshold
  /\ EnoughValidators(sigs)
  /\ NoReceipt(src, n)
  /\ receipts' = receipts \cup {<<src, n>>}
  /\ Deliver([src |-> src, sn |-> n, msg |-> m],
             Trusted(Range(validators), validatorsThreshold))
  /\ UNCHANGED <<emitted, outbox, validators, validatorsThreshold, feeVars>>

GetFee(to, response) == fees[to][1] + IF response THEN fees[to][2] ELSE 0

SendMessage(to, sign, m, value) ==
  /\ connSn + 1 \in ConnSns
  /\ value >= IF sign < 0 THEN 0 ELSE GetFee(to, sign > 0)
  /\ connSn' = connSn + 1
  /\ balance' = balance + value
  /\ outbox' = outbox \cup {[to |-> to, sn |-> connSn + 1, msg |-> m]}
  /\ UNCHANGED <<emitted, delivered, validators, validatorsThreshold,
                 receipts, fees>>

\* clearValidators, then every key that is not there yet.
Cleared == [i \in DOMAIN validators |-> None]
Installed(keys) ==
  FoldLeft(LAMBDA vs, k : IF k \in Range(vs) THEN vs ELSE Append(vs, k),
           Cleared, keys)

UpdateValidators(keys, threshold) ==
  /\ Len(Installed(keys)) <= MaxSlots
  /\ validators' = Installed(keys)
  /\ Len(Installed(keys)) >= threshold
  /\ validatorsThreshold' = threshold
  /\ UNCHANGED <<relayVars, receipts, feeVars>>

SetRequiredValidatorCount(count) ==
  /\ validatorsThreshold' = count
  /\ UNCHANGED <<relayVars, validators, receipts, feeVars>>

SetFee(net, fee) ==
  /\ fees' = [fees EXCEPT ![net] = fee]
  /\ UNCHANGED <<relayVars, validators, validatorsThreshold, receipts, connSn,
                 balance>>

ClaimFees ==
  /\ balance' = 0
  /\ UNCHANGED <<relayVars, validators, validatorsThreshold, receipts, connSn,
                 fees>>

PeerEmits(src, m) ==
  /\ Emit(src, m)
  /\ UNCHANGED <<delivered, outbox, validators, validatorsThreshold, receipts,
                 feeVars>>

JavaNext ==
  \/ \E src \in Nets, m \in Msgs : PeerEmits(src, m)
  \/ \E src \in Nets, n \in ConnSns, m \in Msgs, sigs \in SigLists :
       RecvMessageWithSignatures(src, n, m, sigs)
  \/ \E to \in Nets, sign \in SnSigns, m \in Msgs, v \in MsgValues :
       SendMessage(to, sign, m, v)
  \/ \E u \in Updates : UpdateValidators(u[1], u[2])
  \/ \E t \in Thresholds : SetRequiredValidatorCount(t)
  \/ \E net \in Nets, fee \in FeeValues : SetFee(net, fee)
  \/ ClaimFees

JavaSpec == JavaInit /\ [][JavaNext]_vars

=============================================================================
