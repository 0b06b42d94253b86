------------------------------- MODULE Merkle -------------------------------
(***************************************************************************)
(* The Merkle tree over the audit log, its inclusion proofs (src/audit.c)  *)
(* and the commands that make one or sign the root while other processes   *)
(* append (vault.c).                                                       *)
(* A hash is kept as the term it hashes; the hash of entry i is named i,   *)
(* since a committed entry never changes and its id is hashed with it.     *)
(* Whether the log verifies is kept as the one thing the commands see of   *)
(* it: the key under which audit_verify_chain accepts it, if any is left.  *)
(* Vault shows how that is lost (runs vault_fork and vault_stale).         *)
(***************************************************************************)
EXTENDS SequencesExt, Integers

CONSTANTS
    MaxEntries,   \* bound: length of the log
    MaxKey,       \* bound: generations of KEK_audit
    MaxProofs,    \* bound: distinct proofs handed out
    MaxSignatures \* bound: distinct roots signed

ASSUME MerkleAssumption ==
    {MaxEntries, MaxKey, MaxProofs, MaxSignatures} \subseteq Nat

VARIABLES
    size,      \* entries committed in the log
    chain,     \* the key under which the whole log verifies, 0 if none
    stored,    \* the key of the stored credentials
    sess,      \* the key cached by the session that proves and verifies
    pc,        \* the next statement of the one prover or signer
    loc,       \* its locals: entry id, leaf counts, root, proof
    proofs,    \* proofs handed out
    signatures \* signatures of roots handed out

logVars == <<size, chain, stored>>

merkleVars == <<logVars, sess, pc, loc, proofs, signatures>>

-----------------------------------------------------------------------------
(* Trees *)

audit_hash_merkle_leaf(e) == [leaf |-> e]

audit_hash_merkle_internal(l, r) == [left |-> l, right |-> r]

Leaves(n) == [i \in 1..n |-> audit_hash_merkle_leaf(i)]

(* Mutant of audit_reduce_merkle_level: an odd last node is dropped. *)
ReduceDropsLast(level) ==
    [i \in 1..(Len(level) \div 2) |->
        audit_hash_merkle_internal(level[2*i - 1], level[2*i])]

(* Neighbours are paired; an odd last node is paired with itself. *)
audit_reduce_merkle_level(level) ==
    [i \in 1..((Len(level) + 1) \div 2) |->
        audit_hash_merkle_internal(level[2*i - 1],
            level[IF 2*i > Len(level) THEN 2*i - 1 ELSE 2*i])]

(* The loop of audit_compute_merkle_root and audit_build_merkle_proof on n   *)
(* leaves: the level after k rounds.                                        *)
Levels(n) ==
    LET level[k \in Nat] == IF k = 0 THEN Leaves(n)
                            ELSE audit_reduce_merkle_level(level[k - 1])
    IN  level

(* It ends with the first level of one node. *)
Rounds(n) ==
    CHOOSE k \in 0..n : /\ Len(Levels(n)[k]) = 1
                        /\ \A j \in 0..(k - 1) : Len(Levels(n)[j]) # 1

(* The root of an empty log is all zeros. *)
RootOf(n) == IF n = 0 THEN <<>> ELSE Levels(n)[Rounds(n)][1]

(* The neighbour of the node at a zero-based index, or the node itself. *)
Sibling(level, index) ==
    LET s == IF index % 2 = 0 THEN index + 1 ELSE index - 1
    IN  level[(IF s >= Len(level) THEN index ELSE s) + 1]

(* index /= 2 in every round, in the proof's loop and in its verification. *)
Indices(index) ==
    LET at[k \in Nat] == IF k = 0 THEN index ELSE at[k - 1] \div 2 IN at

audit_build_merkle_proof(n, index) ==
    [k \in 1..Rounds(n) |-> Sibling(Levels(n)[k - 1], Indices(index)[k - 1])]

(* count = (count + 1) / 2 in every round of the verification ... *)
Counts(count) ==
    LET at[k \in Nat] == IF k = 0 THEN count ELSE (at[k - 1] + 1) \div 2 IN at

(* ... which ends at 1. *)
ProofLength(count) ==
    CHOOSE k \in 0..count : /\ Counts(count)[k] <= 1
                            /\ \A j \in 0..(k - 1) : Counts(count)[j] > 1

(* The hash after k rounds. *)
Climb(node, index, proof) ==
    LET at[k \in Nat] ==
          IF k = 0 THEN node
          ELSE IF Indices(index)[k - 1] % 2 = 0
                 THEN audit_hash_merkle_internal(at[k - 1], proof[k])
                 ELSE audit_hash_merkle_internal(proof[k], at[k - 1])
    IN  at

(* Mutant of IndexInTree: any index is accepted. *)
IndexAny(index, count) == count # 0

(* leaf_count == 0 || leaf_index >= leaf_count is refused. *)
IndexInTree(index, count) == count # 0 /\ index < count

audit_verify_merkle_proof(e, index, count, proof, root) ==
    /\ IndexInTree(index, count)
    /\ Len(proof) = ProofLength(count)
    /\ Climb(audit_hash_merkle_leaf(e), index, proof)[Len(proof)] = root

(* Every link, and every signature made with this key; an empty log has     *)
(* none to check.                                                           *)
audit_verify_chain(key) == size = 0 \/ chain = key

(* verify-proof: the log must verify with the session's key and hold the    *)
(* entry, whose hash is read from there.                                    *)
vault_audit_verify_merkle_proof(e, index, count, proof, root) ==
    /\ audit_verify_chain(sess)
    /\ e \in 1..size
    /\ audit_verify_merkle_proof(e, index, count, proof, root)

(* What audit-sign-root signs, and audit-verify-root-sig puts together from *)
(* its arguments.  An ML-DSA signature is kept as the message it signs.     *)
RootMessage(root, count) == [root |-> root, count |-> count]

cli_run_audit_verify_root_sig(root, count, signature) ==
    signature = RootMessage(root, count)

-----------------------------------------------------------------------------
(* vault_audit_merkle_proof and vault_audit_sign_root: separate queries, no *)
(* transaction                                                              *)

NoLocals == [id |-> 0, rootCount |-> 0, root |-> <<>>, count |-> 0]

Init ==
    /\ size = 0
    /\ chain = 1 /\ stored = 1 /\ sess = 1
    /\ pc = "idle"
    /\ loc = NoLocals
    /\ proofs = {}
    /\ signatures = {}

(* Any process commits an entry, with the key it has cached and the last    *)
(* hash it has read: either may have been overtaken.                        *)
AppendEntry(key, linked) ==
    /\ size < MaxEntries
    /\ linked \/ size > 0
    /\ size' = size + 1
    /\ chain' = IF linked /\ audit_verify_chain(key) THEN key ELSE 0
    /\ UNCHANGED <<stored, sess, pc, loc, proofs, signatures>>

(* Another process rotates the keys: only from a log that verifies, which   *)
(* it signs anew and to which it adds its own entry.                        *)
Rotate ==
    /\ size < MaxEntries /\ stored < MaxKey
    /\ audit_verify_chain(stored)
    /\ size' = size + 1
    /\ stored' = stored + 1
    /\ chain' = stored'
    /\ UNCHANGED <<sess, pc, loc, proofs, signatures>>

(* The session is unlocked with the stored credentials. *)
Unlock ==
    /\ pc = "idle"
    /\ sess' = stored
    /\ UNCHANGED <<logVars, pc, loc, proofs, signatures>>

(* The chain verifies and the entry is there. *)
ProveStart(id) ==
    /\ pc = "idle" /\ Cardinality(proofs) < MaxProofs
    /\ audit_verify_chain(sess)
    /\ pc' = "rootCount"
    /\ loc' = [NoLocals EXCEPT !.id = id]
    /\ UNCHANGED <<logVars, sess, proofs, signatures>>

(* The chain verifies; a signature speaks for no entry. *)
SignStart ==
    /\ pc = "idle" /\ Cardinality(signatures) < MaxSignatures
    /\ audit_verify_chain(sess)
    /\ pc' = "rootCount"
    /\ loc' = NoLocals
    /\ UNCHANGED <<logVars, sess, proofs, signatures>>

AfterRoot == IF loc.id = 0 THEN "sign" ELSE "proofCount"

(* audit_load_merkle_leaves counts the entries, then selects them, once for *)
(* the root; an empty log has none to select ...                            *)
CountForRoot ==
    /\ pc = "rootCount"
    /\ loc' = [loc EXCEPT !.rootCount = size]
    /\ pc' = IF size = 0 THEN AfterRoot ELSE "rootLeaves"
    /\ UNCHANGED <<logVars, sess, proofs, signatures>>

(* Mutant of AllSelected: rows beyond the counted ones are taken too. *)
AnySelected(count) == TRUE

(* index >= count in the loop, or index != count after it, is an error. *)
AllSelected(count) == size = count

LoadForRoot ==
    /\ pc = "rootLeaves"
    /\ AllSelected(loc.rootCount)
    /\ loc' = [loc EXCEPT !.root = RootOf(size)]
    /\ pc' = AfterRoot
    /\ UNCHANGED <<logVars, sess, proofs, signatures>>

(* backup_mldsa_sign: the private key is loaded and the message signed. *)
Sign ==
    /\ pc = "sign"
    /\ signatures' = signatures \cup {RootMessage(loc.root, loc.rootCount)}
    /\ pc' = "idle"
    /\ loc' = NoLocals
    /\ UNCHANGED <<logVars, sess, proofs>>

(* ... and once for the proof. *)
CountForProof ==
    /\ pc = "proofCount"
    /\ loc' = [loc EXCEPT !.count = size]
    /\ pc' = "proofLeaves"
    /\ UNCHANGED <<logVars, sess, proofs, signatures>>

(* Mutant of SameTree: the two leaf counts are not compared. *)
AnyTree(rootCount, count) == TRUE

(* root_leaf_count != *leaf_count is an error. *)
SameTree(rootCount, count) == rootCount = count

LoadForProof ==
    /\ pc = "proofLeaves"
    /\ AllSelected(loc.count)
    /\ SameTree(loc.rootCount, loc.count)
    /\ proofs' = proofs \cup {[id |-> loc.id, index |-> loc.id - 1,
                               count |-> loc.count, root |-> loc.root,
                               proof |-> audit_build_merkle_proof(size, loc.id - 1)]}
    /\ pc' = "idle"
    /\ loc' = NoLocals
    /\ UNCHANGED <<logVars, sess, signatures>>

(* The log grew between two queries, a query fails, or the key file does   *)
(* not open.                                                               *)
ProveFail ==
    /\ pc # "idle"
    /\ pc' = "idle"
    /\ loc' = NoLocals
    /\ UNCHANGED <<logVars, sess, proofs, signatures>>

Next ==
    \/ \E key \in 1..stored, linked \in BOOLEAN : AppendEntry(key, linked)
    \/ Rotate \/ Unlock
    \/ \E id \in 1..size : ProveStart(id)
    \/ CountForRoot \/ LoadForRoot \/ CountForProof \/ LoadForProof
    \/ SignStart \/ Sign
    \/ ProveFail

Spec == Init /\ [][Next]_merkleVars

-----------------------------------------------------------------------------
(* Properties *)

(* Root and proof come from separate queries, and others append, fork the   *)
(* chain or rotate in between: yet verify-proof accepts a proof handed out  *)
(* with its root at any later time, as long as the log verifies with the    *)
(* session's key.  Where it does not, that is why the proof is refused.     *)
ProofsVerify ==
    \A x \in proofs :
        vault_audit_verify_merkle_proof(x.id, x.index, x.count, x.proof, x.root)
            <=> audit_verify_chain(sess)

(* A proof speaks for one entry at one place: it verifies neither another   *)
(* entry nor the same one elsewhere, although an odd last node is hashed    *)
(* twice.                                                                   *)
ProofsBind ==
    \A x \in proofs : \A e \in 1..MaxEntries, index \in 0..(2 * x.count) :
        audit_verify_merkle_proof(e, index, x.count, x.proof, x.root) =>
            e = x.id /\ index = x.index

(* A saved root shows a truncated log: no two lengths have the same root.   *)
RootShowsLength ==
    LET root == RootOf(size) IN \A n \in 0..(size - 1) : RootOf(n) # root

(* A signed root speaks for one state of the log: count and leaves come     *)
(* from separate queries, yet every signature handed out verifies, for some *)
(* length the log has had, the root of that length with that length, and    *)
(* with no other root and no other length.                                  *)
SignedRootsBind ==
    \A s \in signatures : \E n \in 0..size : \A m \in 0..MaxEntries :
        LET root == RootOf(m) IN
        \A count \in 0..MaxEntries :
            cli_run_audit_verify_root_sig(root, count, s) <=> m = n /\ count = n
=============================================================================
