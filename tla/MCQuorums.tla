------------------------------ MODULE MCQuorums -----------------------------
(***************************************************************************)
(* The two contracts that collect signatures of others, for TLC: the relay *)
(* aggregator of ICON or, in other behaviours, the manager of              *)
(* multi-signatures on Sui.                                                *)
(***************************************************************************)
EXTENDS RelayAggregator

CONSTANTS Tx, Digests, MaxWallets, MaxProposals, m1, m2, m3

VARIABLES onSui, wallets, walletProposals, proposals, votes, executed

suiVars == <<wallets, walletProposals, proposals, votes, executed>>

\* Three signers of equal weight, two of different weight, one without weight,
\* one who is listed twice.
Lists == {<<<<m1, 1>>, <<m2, 1>>, <<m3, 1>>>>, <<<<m3, 2>>, <<m1, 1>>>>,
          <<<<m3, 0>>, <<m1, 1>>, <<m2, 3>>>>, <<<<m1, 1>>, <<m1, 1>>, <<m2, 1>>>>}

\* Two kinds of keys, and raw signatures with the other scheme of the same length.
Flags == [m \in {m1, m2, m3} |-> IF m = m3 THEN "Secp256r1" ELSE "ED25519"]

Sui == INSTANCE SuiMultisig
         WITH Member <- {m1, m2, m3}, SignerLists <- Lists, Thresholds <- {0, 2, 3},
              KeyFlag <- Flags, Schemes <- {"ED25519", "Secp256k1", "Secp256r1"}

MCInit == AggregatorInit /\ Sui!Init /\ onSui \in BOOLEAN

MCNext ==
  \/ ~onSui /\ AggregatorNext /\ UNCHANGED <<onSui, suiVars>>
  \/ onSui /\ Sui!Next /\ UNCHANGED <<onSui, aggregatorVars>>

MCSpec ==
  /\ MCInit /\ [][MCNext]_<<onSui, aggregatorVars, suiVars>>
  /\ \A r \in Relayer, p \in Pkt : WF_aggregatorVars(SubmitPacket(r, p))

-----------------------------------------------------------------------------
\* A proposal is marked as approved exactly when its command can be had, and
\* then as many members as the threshold asks for signed it (if no key was
\* registered twice), whatever the order of votes: approve_proposal and
\* get_execute_command count separately.
ApprovedMeansExecutable == Sui!ApprovedMeansExecutable /\ Sui!EnoughMembers

\* Every command that is handed out for a wallet without a key that was
\* registered twice carries a signature of the proposed transaction for every
\* bit, and Sui accepts it, although the number of signatures is compared with
\* the threshold here and their weights there (get_execute_command): unless a
\* signer was registered without weight, or a member gave a signature that begins
\* with another scheme than the key's, which verify_pubkey lets pass.
CommandAccepted == Sui!CommandAccepted

=============================================================================
