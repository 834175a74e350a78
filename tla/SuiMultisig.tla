---------------------------- MODULE SuiMultisig -----------------------------
(***************************************************************************)
(* The manager of multi-signatures on Sui (multisig.move): it collects the *)
(* signatures of the members of a wallet for a proposed transaction and    *)
(* puts them together to the command that Sui executes.                    *)
(*                                                                         *)
(* A member stands for key and address (a hash of the key).  The address   *)
(* of a wallet is a hash of its signers and threshold: a wallet stands for *)
(* it.  A transaction is proposed by its bytes or its digest; a signature  *)
(* is of the digest in both cases.  A raw signature is a scheme, the       *)
(* signature proper (by a key, of a transaction) and the key.  An abort is *)
(* a guard that is false.  Lists count from 1, bits of the bitmap too.     *)
(***************************************************************************)
EXTENDS Naturals, FiniteSetsExt, SequencesExt

CONSTANTS Member,         \* accounts
          KeyFlag,        \* member -> scheme of its key, the key's first byte
          Schemes,        \* schemes that raw signatures may begin with
          SignerLists,    \* lists of <<member, weight>> that may be registered
          Thresholds,     \* thresholds that may be given with them
          Tx,             \* what may be proposed: transactions
          Digests,        \* and those given by their digest, of 32 bytes
          MaxWallets, MaxProposals   \* bounds

VARIABLES wallets,           \* [signers, threshold]
          walletProposals,   \* wallet -> list of proposal ids
          proposals,         \* id -> [wallet, tx, isDigest, approved]
          votes              \* <<id, member>> -> signature

VARIABLE executed            \* history: commands emitted, [id, multisig]

vars == <<wallets, walletProposals, proposals, votes, executed>>

Signature == [scheme : Schemes, by : Member, tx : Tx]

Init ==
  /\ wallets = {} /\ walletProposals = <<>>
  /\ proposals = <<>> /\ votes = <<>> /\ executed = {}

-----------------------------------------------------------------------------
ValidThreshold(threshold) == threshold > 0

RegisterWallet(signers, threshold) ==
  LET w == [signers |-> signers, threshold |-> threshold]
  IN  /\ Cardinality(wallets) < MaxWallets
      /\ ValidThreshold(threshold)
      /\ w \notin wallets
      /\ wallets' = wallets \cup {w}
      /\ walletProposals' = [v \in wallets' |-> IF v = w THEN <<>>
                                                ELSE walletProposals[v]]
      /\ UNCHANGED <<proposals, votes, executed>>

OnlyMember(w, m) == \E i \in DOMAIN w.signers : w.signers[i][1] = m

\* Proposals are numbered from 1, here and by get_proposal_id.
CreateProposal(m, w, tx) ==
  LET p == [wallet |-> w, tx |-> tx, isDigest |-> tx \in Digests,
            approved |-> FALSE]
  IN  /\ Len(proposals) < MaxProposals
      /\ OnlyMember(w, m)
      /\ proposals' = Append(proposals, p)
      /\ walletProposals' = [walletProposals EXCEPT ![w] =
                               Append(@, Len(proposals) + 1)]
      /\ UNCHANGED <<wallets, votes, executed>>

\* The signatures for a proposal, in the order of the signers of its wallet.
Signatures(id, vs) ==
  LET signers == proposals[id].wallet.signers
      voted == SelectSeq(signers, LAMBDA s : <<id, s[1]>> \in DOMAIN vs)
  IN  [i \in DOMAIN voted |-> vs[<<id, voted[i][1]>>]]

\* The weights of the signers at some places.
WeightAt(signers, bits) ==
  MapThenSumSet(LAMBDA i : signers[i][2], bits \cap DOMAIN signers)

\* split_signature goes by the scheme only for the length of the key.
KeyLength(scheme) == IF scheme = "ED25519" THEN 32 ELSE 33

\* (mutant: the key need not be that of the caller)
VerifyAnyPubkey(m, p, sig) ==
  /\ KeyFlag[m] \in {"ED25519", "Secp256k1", "Secp256r1"}
  /\ sig.tx = p.tx
\* verify_pubkey: the raw signature carries the caller's key and is by it, of
\* this transaction, in the scheme of the key whatever scheme it begins with.
VerifyPubkey(m, p, sig) ==
  /\ KeyLength(sig.scheme) = KeyLength(KeyFlag[m]) /\ sig.by = m
  /\ KeyFlag[m] \in {"ED25519", "Secp256k1", "Secp256r1"}
  /\ sig.tx = p.tx

\* (mutant: one more than the threshold)
ApprovedByMore(id, vs) ==
  Len(Signatures(id, vs)) > proposals[id].wallet.threshold
\* (mutant: the weights of the voters are added up)
ApprovedByWeight(id, vs) ==
  LET w == proposals[id].wallet
  IN  WeightAt(w.signers, {i \in DOMAIN w.signers :
                             <<id, w.signers[i][1]>> \in DOMAIN vs})
        >= w.threshold
\* approve_proposal compares the number of signatures with the threshold.
ApprovedBy(id, vs) ==
  Len(Signatures(id, vs)) >= proposals[id].wallet.threshold

ApproveProposal(m, id, sig) ==
  LET vs == [k \in DOMAIN votes \cup {<<id, m>>} |->
               IF k = <<id, m>> THEN sig ELSE votes[k]]
  IN  /\ id \in DOMAIN proposals
      /\ OnlyMember(proposals[id].wallet, m)
      /\ VerifyPubkey(m, proposals[id], sig)
      /\ <<id, m>> \notin DOMAIN votes
      /\ votes' = vs
      /\ proposals' = IF ApprovedBy(id, vs)
                      THEN [proposals EXCEPT ![id].approved = TRUE]
                      ELSE proposals
      /\ UNCHANGED <<wallets, walletProposals, executed>>

\* get_pub_key_index: the first place of a key, 0 if there is none.
GetPubKeyIndex(signers, m) ==
  SelectInSeq(signers, LAMBDA s : s[1] = m)

\* (mutant: the bit after that of the signer)
BitOfNext(signers, m) == GetPubKeyIndex(signers, m) + 1
BitOf(signers, m) == GetPubKeyIndex(signers, m)

\* create_multi_signature, which keeps the schemes of the raw signatures; it
\* aborts for a signature of a foreign key.
CreateMultiSignature(sigs, w) ==
  [signatures |-> sigs,
   bitmap |-> {BitOf(w.signers, sigs[i].by) : i \in DOMAIN sigs},
   signers |-> w.signers, threshold |-> w.threshold]

\* get_execute_command does not abort.
Executable(id) ==
  Len(Signatures(id, votes)) >= proposals[id].wallet.threshold

\* execute_event, which emits the command of get_execute_command.
ExecuteEvent(id) ==
  /\ id \in DOMAIN proposals
  /\ Executable(id)
  /\ executed' = executed \cup
       {[id |-> id, multisig |-> CreateMultiSignature(Signatures(id, votes),
                                                      proposals[id].wallet)]}
  /\ UNCHANGED <<wallets, walletProposals, proposals, votes>>

Next ==
  \/ \E signers \in SignerLists, threshold \in Thresholds :
       RegisterWallet(signers, threshold)
  \/ \E m \in Member, w \in wallets, tx \in Tx : CreateProposal(m, w, tx)
  \/ \E m \in Member, id \in 1..MaxProposals, sig \in Signature :
       ApproveProposal(m, id, sig)
  \/ \E id \in 1..MaxProposals : ExecuteEvent(id)

Spec == Init /\ [][Next]_vars

-----------------------------------------------------------------------------
\* No two signers of the wallet are the same, each has a weight.
DistinctSigners(w) ==
  \A i, j \in DOMAIN w.signers : w.signers[i][1] = w.signers[j][1] => i = j
Weighted(w) == \A i \in DOMAIN w.signers : w.signers[i][2] > 0

\* A proposal is marked as approved exactly when its command can be had,
\* whatever the order of votes: approve_proposal and get_execute_command count
\* separately.
ApprovedMeansExecutable ==
  \A id \in DOMAIN proposals : proposals[id].approved <=> Executable(id)

\* As many members as the threshold asks for signed an approved proposal, if no
\* key was registered twice.
EnoughMembers ==
  \A id \in DOMAIN proposals :
    proposals[id].approved /\ DistinctSigners(proposals[id].wallet) =>
      Cardinality({m \in Member : <<id, m>> \in DOMAIN votes})
        >= proposals[id].wallet.threshold

\* A multi-signature has one signature of the transaction for every bit, in the
\* order of the signers.
InOrder(ms, tx) ==
  LET bits == SetToSortSeq(ms.bitmap, LAMBDA i, j : i < j)
  IN  /\ Len(bits) = Len(ms.signatures)
      /\ ms.bitmap \subseteq DOMAIN ms.signers
      /\ \A i \in DOMAIN bits :
           /\ ms.signatures[i].by = ms.signers[bits[i]][1]
           /\ ms.signatures[i].tx = tx

\* Its signatures begin with the schemes of their keys.
InScheme(ms) ==
  \A i \in DOMAIN ms.signatures :
    ms.signatures[i].scheme = KeyFlag[ms.signatures[i].by]

\* How Sui judges it: each signature in its scheme, and the weights of the
\* signers reach the threshold.
SuiAccepts(ms, tx) ==
  /\ InOrder(ms, tx) /\ InScheme(ms)
  /\ WeightAt(ms.signers, ms.bitmap) >= ms.threshold

\* Every command that is handed out for a wallet without a key that was
\* registered twice carries a signature of the proposed transaction for every
\* bit, and Sui accepts it, although the number of signatures is compared with
\* the threshold here and their weights there (get_execute_command): unless a
\* signer was registered without weight, or a member gave a signature that begins
\* with another scheme than the key's, which verify_pubkey lets pass.
CommandAccepted ==
  \A c \in executed :
    LET w == proposals[c.id].wallet
        tx == proposals[c.id].tx
    IN  DistinctSigners(w) =>
          /\ InOrder(c.multisig, tx)
          /\ Weighted(w) /\ InScheme(c.multisig) => SuiAccepts(c.multisig, tx)

=============================================================================
