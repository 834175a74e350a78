--------------------------- MODULE RelayAggregator --------------------------
(***************************************************************************)
(* The relay aggregator of ICON (contracts/javascore/aggregator): relayers *)
(* submit their signatures of packets that they saw on a source chain; a   *)
(* packet with enough of them is acknowledged, once, with an event that    *)
(* carries the signatures.  The admin replaces relayers and threshold      *)
(* while packets are under way.                                            *)
(*                                                                         *)
(* A packet is a model value (its id is a hash of all its fields); the     *)
(* signature of a relayer stands for itself and is not verified here.  The *)
(* list of relayers is a sequence from 1, the source's indices are one     *)
(* less.                                                                   *)
(***************************************************************************)
EXTENDS Naturals, Sequences, FiniteSets, Functions

CONSTANTS Relayer,     \* accounts that may be relayers
          Pkt,         \* packets
          MaxChanges   \* bound: changes by the admin

VARIABLES
  relayers,             \* the list
  relayersLookup,       \* the same as a lookup table
  signatureThreshold,
  acknowledgedPackets,
  packets,              \* packets that wait for signatures
  signatures            \* packet -> relayers whose signature is stored

(* History: acks are the acknowledgements [pkt, sigs, threshold] in their  *)
(* order, signed who submitted which packet, changes the changes of the    *)
(* admin.                                                                  *)
VARIABLES acks, signed, changes

relVars == <<relayers, relayersLookup, signatureThreshold, changes>>
pktVars == <<acknowledgedPackets, packets, signatures, acks, signed>>
aggregatorVars == <<relVars, pktVars>>

AggregatorInit ==
  /\ relayers = <<>> /\ relayersLookup = {} /\ signatureThreshold = 1
  /\ acknowledgedPackets = {} /\ packets = {}
  /\ signatures = [p \in Pkt |-> {}]
  /\ acks = <<>> /\ signed = {} /\ changes = 0

-----------------------------------------------------------------------------
(***************************************************************************)
(* The relayers                                                            *)
(***************************************************************************)
\* Both loops of setRelayers work on the list and on the lookup table.
Roster == [list : Seq(Relayer), lookup : SUBSET Relayer]

AddRelayer(ros, r) ==
  IF r \in ros.lookup
  THEN ros
  ELSE [list |-> Append(ros.list, r), lookup |-> ros.lookup \cup {r}]

\* (mutant: the gap is not filled with the relayer that was popped)
RemoveRelayerPop(ros, r) ==
  [list |-> SubSeq(ros.list, 1, Len(ros.list) - 1), lookup |-> ros.lookup \ {r}]
\* removeRelayer pops the last of the list and puts it in the place of the one
\* to remove, if that is not the last one itself.
RemoveRelayer(ros, r) ==
  [list |-> [i \in 1..(Len(ros.list) - 1) |->
               IF ros.list[i] = r THEN ros.list[Len(ros.list)] ELSE ros.list[i]],
   lookup |-> ros.lookup \ {r}]

AddAll(ros, new) ==
  LET add[i \in 0..Len(new)] ==
        IF i = 0 THEN ros ELSE AddRelayer(add[i - 1], new[i])
  IN  add[Len(new)]

\* The loop that removes the old relayers walks the list by index while
\* removals shorten and reorder it.
RemoveOld(ros, new) ==
  LET after[i \in 0..Len(ros.list)] ==
        IF i = 0
        THEN ros
        ELSE LET x == after[i - 1]
             IN  IF i > Len(x.list) \/ x.list[i] \in Range(new)
                 THEN x
                 ELSE RemoveRelayer(x, x.list[i])
  IN  after[Len(ros.list)]

ValidThreshold(threshold, list) == threshold > 0 /\ threshold <= Len(list)

Change == changes < MaxChanges /\ changes' = changes + 1

\* setRelayers; an empty list changes the threshold alone.
SetRelayers(new, threshold) ==
  LET old == [list |-> relayers, lookup |-> relayersLookup]
      ros == IF new = <<>> THEN old ELSE RemoveOld(AddAll(old, new), new)
  IN  /\ Change
      /\ relayers' = ros.list
      /\ relayersLookup' = ros.lookup
      /\ ValidThreshold(threshold, ros.list)
      /\ signatureThreshold' = threshold
      /\ UNCHANGED pktVars

SetSignatureThreshold(threshold) ==
  /\ Change
  /\ ValidThreshold(threshold, relayers)
  /\ signatureThreshold' = threshold
  /\ UNCHANGED <<relayers, relayersLookup, pktVars>>

-----------------------------------------------------------------------------
(***************************************************************************)
(* Packets                                                                 *)
(***************************************************************************)
\* (mutant: those of former relayers too)
GetSignaturesAll(sigs) == sigs
\* The signatures of current relayers among those given.
GetSignatures(sigs) == sigs \cap Range(relayers)

\* (mutant: more than the threshold)
SignatureThresholdReachedMore(sigs) ==
  Cardinality(GetSignatures(sigs)) > signatureThreshold
SignatureThresholdReached(sigs) ==
  Cardinality(GetSignatures(sigs)) >= signatureThreshold

\* (mutant: an acknowledged packet starts over)
AcknowledgeNot(p) == UNCHANGED acknowledgedPackets
Acknowledge(p) == acknowledgedPackets' = acknowledgedPackets \cup {p}

\* removePacket clears the signatures of the current relayers.
RemovePacket(p, sigs) ==
  /\ packets' = packets \ {p}
  /\ signatures' = [signatures EXCEPT ![p] = sigs \ Range(relayers)]

\* submitPacket of a packet not yet acknowledged (for others it does nothing)
\* by a relayer who has not signed it yet.
SubmitPacket(r, p) ==
  LET sigs == signatures[p] \cup {r}
  IN  /\ r \in relayersLookup
      /\ p \notin acknowledgedPackets
      /\ r \notin signatures[p]
      /\ IF SignatureThresholdReached(sigs)
         THEN /\ acks' = Append(acks, [pkt |-> p, sigs |-> GetSignatures(sigs),
                                       threshold |-> signatureThreshold])
              /\ Acknowledge(p)
              /\ RemovePacket(p, sigs)
         ELSE /\ packets' = packets \cup {p}
              /\ signatures' = [signatures EXCEPT ![p] = sigs]
              /\ UNCHANGED <<acks, acknowledgedPackets>>
      /\ signed' = signed \cup {<<r, p>>}
      /\ UNCHANGED relVars

AggregatorNext ==
  \/ \E n \in 0..Cardinality(Relayer) : \E new \in [1..n -> Relayer] :
       \E threshold \in 0..Cardinality(Relayer) : SetRelayers(new, threshold)
  \/ \E threshold \in 0..Cardinality(Relayer) : SetSignatureThreshold(threshold)
  \/ \E r \in Relayer, p \in Pkt : SubmitPacket(r, p)

AggregatorSpec == AggregatorInit /\ [][AggregatorNext]_aggregatorVars

\* Relayers watch the source chains and submit what they see there.
AggregatorFairSpec ==
  AggregatorSpec /\ \A r \in Relayer, p \in Pkt : WF_aggregatorVars(SubmitPacket(r, p))

-----------------------------------------------------------------------------
\* The list that signatures are counted over has the relayers that may submit,
\* each once, however removals reorder it (addRelayer, removeRelayer): else
\* a relayer would count twice or a valid signature not at all.
LookupMatchesList ==
  /\ Range(relayers) = relayersLookup
  /\ IsInjective(relayers)

\* A packet is acknowledged at most once, with signatures that relayers really
\* submitted for it, at least as many as the threshold then in force
\* (submitPacket), while relayers come, go and return.
AcknowledgedOnceByQuorum ==
  /\ \A i, j \in DOMAIN acks : acks[i].pkt = acks[j].pkt => i = j
  /\ \A i \in DOMAIN acks :
       /\ Cardinality(acks[i].sigs) >= acks[i].threshold
       /\ \A r \in acks[i].sigs : <<r, acks[i].pkt>> \in signed

\* Acknowledged packets carry signatures of relayers of that moment only: a
\* step never acknowledges with the signature of a former relayer.
AcknowledgedByRelayers ==
  [][Len(acks') > Len(acks) =>
       /\ acks'[Len(acks')].sigs \subseteq relayersLookup
       /\ Cardinality(acks'[Len(acks')].sigs) >= signatureThreshold]_aggregatorVars

\* A packet of which no signature is stored yet is acknowledged once one relayer
\* submitted it, unless the admin changes relayers or threshold meanwhile: no
\* signature is lost and no submission blocked.
Acknowledged ==
  \A p \in Pkt, c \in 0..MaxChanges :
    [](changes = c /\ signatures[p] = {} =>
         [](p \in packets => <>(p \in acknowledgedPackets \/ changes # c)))

=============================================================================
