------------------------------ MODULE AuditLog ------------------------------
(***************************************************************************)
(* The tamper-evident log of src/src/audit.c as pure operators.            *)
(*                                                                         *)
(* A log is a sequence; the position of an entry is its entry_id, the      *)
(* INTEGER PRIMARY KEY that audit_next_entry_id computes as MAX + 1.       *)
(* Hashes and MACs are abstracted to what they bind:                       *)
(*   prev  the entry whose hash is stored in prev_hash, 0 for the zero     *)
(*         hash of the first entry (a committed entry never changes its    *)
(*         hashed fields, so its position names its hash);                 *)
(*   key   the generation of KEK_audit that made hmac_signature;           *)
(*   idx   how many times that key was ratcheted before signing.           *)
(***************************************************************************)
EXTENDS Naturals, Sequences

(* SELECT entry_hash ... ORDER BY entry_id DESC LIMIT 1, or the zero hash. *)
audit_get_last_hash(log) == Len(log)

(* MAX(entry_id) + 1. *)
audit_next_entry_id(log) == Len(log) + 1

(* COUNT of the entries: the ratchet index of the next signature. *)
audit_count_entries(log) == Len(log)

(* The fields audit_log_event binds to one INSERT. *)
AuditEntry(prev, idx, key, act, tgt, ver) ==
    [prev |-> prev, idx |-> idx, key |-> key,
     act |-> act, tgt |-> tgt, ver |-> ver]

(* audit_log_event where nobody can write in between: its three reads and  *)
(* its INSERT see the same log (the caller holds the write transaction).   *)
audit_log_event(log, key, act, tgt, ver) ==
    Append(log, AuditEntry(audit_get_last_hash(log),
                           audit_count_entries(log), key, act, tgt, ver))

(* Every entry stores the hash of the entry right before it. *)
ChainLinked(log) == \A i \in DOMAIN log : log[i].prev = i - 1

(* Mutant of audit_verify_chain: signatures are not checked. *)
VerifyLinksOnly(log, key) == ChainLinked(log)

(* audit_verify_chain: ids in order, links, and each signature made with   *)
(* this key ratcheted once per preceding entry.                            *)
audit_verify_chain(log, key) ==
    \A i \in DOMAIN log : /\ log[i].prev = i - 1
                          /\ log[i].key = key
                          /\ log[i].idx = i - 1

(* An entry whose hmac_signature alone is replaced. *)
Resigned(log, key, i) ==
    AuditEntry(log[i].prev, i - 1, key, log[i].act, log[i].tgt, log[i].ver)

(* Mutant of audit_resign_chain: the walk stops one entry early, and the    *)
(* last row keeps its old signature.                                       *)
ResignAllButLast(log, key) ==
    [i \in 1..Len(log) |-> IF i = Len(log) THEN log[i] ELSE Resigned(log, key, i)]

(* audit_resign_chain rewrites hmac_signature only.  It refuses a log whose *)
(* links do not hold (ChainLinked is its guard).                           *)
audit_resign_chain(log, key) == [i \in 1..Len(log) |-> Resigned(log, key, i)]
=============================================================================
