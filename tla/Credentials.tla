----------------------------- MODULE Credentials -----------------------------
(***************************************************************************)
(* How a command opens the vault (Storage), gets its keys                   *)
(* (vault_unlock_internal, src/src/vault.c), uses them and closes it, and   *)
(* how the stored credentials change.                                       *)
(*                                                                          *)
(* The metadata table holds four blobs: salt, verifier, and the metadata    *)
(* key wrapped under a nonce.  They are read by four SELECTs with a key     *)
(* derivation in between, and written by one transaction (of `init` or of   *)
(* a rotation).  Argon2id and the KDF are abstracted to what they depend    *)
(* on: a master key is the pair of the password and the salt.               *)
(***************************************************************************)
EXTENDS Storage

CONSTANTS
    Passwords,   \* master passwords
    None,        \* an absent blob, key or password
    MaxSalt,     \* bound: salts ever drawn
    MaxFailures  \* bound: auth_failures rows

Key == [pw: Passwords, salt: 1..MaxSalt]

ASSUME CredentialsAssumption ==
    /\ None \notin Passwords \cup Key
    /\ MaxSalt \in Nat /\ MaxFailures \in Nat

VARIABLES
    meta,      \* the four blobs, as committed
    inUse,     \* keys some row is wrapped by or some entry signed with
    failures,  \* rows of auth_failures
    nextSalt,  \* the next fresh salt (a nonce is named by the salt it came with)
    pc,
    loc,       \* password, blobs read so far, and as history whether another
               \* init filled the vault after this one had found it empty
    sess,      \* [key, meta] in g_subkeys, or None
    replaced   \* history: an init has replaced what another had stored

credVars == <<meta, inUse, failures, nextSalt, pc, loc, sess, replaced>>

vars == <<storageVars, credVars>>

(* Mutant of Wrap: the metadata key is zeroed before it is encrypted. *)
WrapZeroed(key, nonce, mk) == [by |-> key, nonce |-> nonce, meta |-> None]

(* A wrapped metadata key opens only under its wrapping key and nonce. *)
Wrap(key, nonce, mk) == [by |-> key, nonce |-> nonce, meta |-> mk]

Blobs == [salt: 0..MaxSalt, verifier: Key \cup {None}, nonce: 0..MaxSalt,
          wrapped: [by: Key, nonce: 1..MaxSalt, meta: Key] \cup {None}]

NoBlobs == [salt |-> 0, verifier |-> None, nonce |-> 0, wrapped |-> None]

NoLocals == [pw |-> None, blobs |-> NoBlobs, raced |-> FALSE]

(* kdf_derive_master_key; the verifier is a hash of the result. *)
Derive(pw, salt) == [pw |-> pw, salt |-> salt]

(* Mutant of Stored: the transaction covers the salt and the verifier only. *)
StoredNoMetaKey(key, mk) == [meta EXCEPT !.salt = key.salt, !.verifier = key]

(* What the transaction of store_auth_metadata, or of a rotation, leaves. *)
Stored(key, mk) ==
    [salt |-> key.salt, verifier |-> key, nonce |-> key.salt,
     wrapped |-> Wrap(key, key.salt, mk)]

Goto(p, step) == pc' = [pc EXCEPT ![p] = step]

(* The operation ends with the process locked, its locals zeroed. *)
EndLocked(p) ==
    /\ Goto(p, "idle")
    /\ loc' = [loc EXCEPT ![p] = NoLocals]

Init ==
    /\ StorageInit
    /\ meta = NoBlobs
    /\ inUse = {}
    /\ failures = 0
    /\ nextSalt = 1
    /\ pc = [p \in Procs |-> "idle"]
    /\ loc = [p \in Procs |-> NoLocals]
    /\ sess = [p \in Procs |-> None]
    /\ replaced = FALSE

-----------------------------------------------------------------------------
(* vault_unlock_internal *)

(* storage_get_db() must be set; then vault_lock_state. *)
Unlock(p, pw) ==
    /\ Ready(p) /\ pc[p] = "idle"
    /\ sess' = [sess EXCEPT ![p] = None]
    /\ loc' = [loc EXCEPT ![p].pw = pw]
    /\ Goto(p, "salt")
    /\ UNCHANGED <<meta, inUse, failures, nextSalt, replaced>>

ReadSalt(p) ==
    /\ pc[p] = "salt"
    /\ loc' = [loc EXCEPT ![p].blobs.salt = meta.salt]
    /\ Goto(p, "verifier")
    /\ UNCHANGED <<meta, inUse, failures, nextSalt, sess, replaced>>

(* Mutant of FoundEmpty: the verifier is not looked at. *)
NoSaltFound(salt, verifier) == salt = 0

(* Neither the salt nor the verifier is there. *)
FoundEmpty(salt, verifier) == salt = 0 /\ verifier = None

(* The second SELECT of vault_load_auth_metadata and what follows from it:  *)
(* an empty vault may be filled by `init` (vault_unlock) only, not by       *)
(* vault_unlock_existing; one blob without the other is corruption; both    *)
(* are compared with the password.                                          *)
ReadVerifier(p) ==
    LET salt == loc[p].blobs.salt
        verifier == meta.verifier
        empty == FoundEmpty(salt, verifier)
    IN  /\ pc[p] = "verifier"
        /\ \/ /\ empty /\ cmd[p] = "init" /\ nextSalt <= MaxSalt
              /\ loc' = [loc EXCEPT ![p].blobs.salt = nextSalt]
              /\ nextSalt' = nextSalt + 1
              /\ Goto(p, "store")
           \/ /\ empty /\ cmd[p] = "open"
              /\ EndLocked(p) /\ UNCHANGED nextSalt
           \/ /\ ~empty /\ (salt = 0) # (verifier = None)
              /\ EndLocked(p) /\ UNCHANGED nextSalt
           \/ /\ salt # 0 /\ verifier # None
              /\ Goto(p, IF Derive(loc[p].pw, salt) = verifier THEN "nonce"
                                                              ELSE "refuse")
              /\ UNCHANGED <<loc, nextSalt>>
        /\ UNCHANGED <<meta, inUse, failures, sess, replaced>>

(* vault_log_auth_failure_untrusted, in autocommit mode; if it fails too    *)
(* (the write lock is taken) the caller sees a storage error.               *)
Refuse(p) ==
    /\ pc[p] = "refuse"
    /\ failures' = IF failures < MaxFailures THEN failures + 1 ELSE failures
    /\ EndLocked(p)
    /\ UNCHANGED <<meta, inUse, nextSalt, sess, replaced>>

(* vault_store_auth_metadata: INSERT OR REPLACE of all four blobs in one    *)
(* transaction, without another look at what is there.  A new vault's       *)
(* metadata key comes from its first master key.                            *)
Store(p) ==
    LET key == Derive(loc[p].pw, loc[p].blobs.salt) IN
    /\ pc[p] = "store"
    /\ meta' = Stored(key, key)
    /\ replaced' = (replaced \/ meta # NoBlobs)
    /\ Goto(p, "idle")
    /\ sess' = [sess EXCEPT ![p] = [key |-> key, meta |-> key]]
    /\ loc' = [q \in Procs |->
                 IF q = p THEN NoLocals
                 ELSE [loc[q] EXCEPT !.raced = @ \/ pc[q] = "store"]]
    /\ UNCHANGED <<inUse, failures, nextSalt>>

ReadNonce(p) ==
    /\ pc[p] = "nonce"
    /\ loc' = [loc EXCEPT ![p].blobs.nonce = meta.nonce]
    /\ Goto(p, "wrapped")
    /\ UNCHANGED <<meta, inUse, failures, nextSalt, sess, replaced>>

(* Mutant of Opens: AEAD decryption that accepts any wrapping key. *)
OpensAny(blob, nonce, key) == blob # None

(* crypto_aead_..._decrypt succeeds. *)
Opens(blob, nonce, key) == blob # None /\ blob.nonce = nonce /\ blob.by = key

(* vault_load_meta_key's second SELECT, and the end of the unlock. *)
ReadWrapped(p) ==
    LET key == Derive(loc[p].pw, loc[p].blobs.salt) IN
    /\ pc[p] = "wrapped"
    /\ EndLocked(p)
    /\ sess' = IF Opens(meta.wrapped, loc[p].blobs.nonce, key)
                 THEN [sess EXCEPT ![p] = [key |-> key, meta |-> meta.wrapped.meta]]
                 ELSE sess
    /\ UNCHANGED <<meta, inUse, failures, nextSalt, replaced>>

(* A SELECT, the derivation, an allocation or the transaction fails. *)
Fail(p) ==
    /\ pc[p] # "idle"
    /\ EndLocked(p)
    /\ UNCHANGED <<meta, inUse, failures, nextSalt, sess, replaced>>

-----------------------------------------------------------------------------
(* Sessions *)

Idle(p) == Ready(p) /\ pc[p] = "idle"

Unlocked(p) == Idle(p) /\ sess[p] # None

(* main, after the command: vault_close wipes the keys and closes the       *)
(* database.                                                                *)
Close(p) ==
    /\ Idle(p)
    /\ StorageClose(p)
    /\ sess' = [sess EXCEPT ![p] = None]
    /\ UNCHANGED <<meta, inUse, failures, nextSalt, pc, loc, replaced>>

(* The process dies, at any point. *)
Crash(p) ==
    /\ Die(p)
    /\ EndLocked(p)
    /\ sess' = [sess EXCEPT ![p] = None]
    /\ UNCHANGED <<meta, inUse, failures, nextSalt, replaced>>

(* Any logged operation: its row and its entry are under the cached keys. *)
Use(p) ==
    /\ Unlocked(p)
    /\ inUse' = inUse \cup {sess[p].key}
    /\ UNCHANGED <<meta, failures, nextSalt, pc, loc, sess, replaced>>

(* Mutant of KeptMetaKey: the metadata key is replaced with the others. *)
FreshMetaKey(p, key) == key

(* The metadata key is wrapped again by a rotation, never replaced. *)
KeptMetaKey(p, key) == sess[p].meta

(* vault_rotate_kek, committed: everything in use must be under the cached  *)
(* keys; the rotation's own entry is signed with the new key.               *)
Rotate(p, pw) ==
    LET key == Derive(pw, nextSalt)
        mk == KeptMetaKey(p, key) IN
    /\ Unlocked(p) /\ nextSalt <= MaxSalt
    /\ inUse \subseteq {sess[p].key}
    /\ nextSalt' = nextSalt + 1
    /\ meta' = Stored(key, mk)
    /\ inUse' = {key}
    /\ sess' = [sess EXCEPT ![p] = [key |-> key, meta |-> mk]]
    /\ UNCHANGED <<failures, pc, loc, replaced>>

(* The steps of a process that has the database open. *)
VaultStep(p) ==
    \/ \E pw \in Passwords : Unlock(p, pw) \/ Rotate(p, pw)
    \/ ReadSalt(p) \/ ReadVerifier(p) \/ Refuse(p) \/ Store(p)
    \/ ReadNonce(p) \/ ReadWrapped(p) \/ Fail(p) \/ Use(p)

Next ==
    \/ StorageStep /\ UNCHANGED credVars
    \/ \E p \in Procs : VaultStep(p) /\ UNCHANGED storageVars
    \/ \E p \in Procs : Close(p) \/ Crash(p)

Spec == Init /\ [][Next]_vars

-----------------------------------------------------------------------------
(* Properties *)

(* Every variable has its type; the stored blobs are there together, and    *)
(* keys are held only by a process that has the database open.              *)
TypeOK ==
    /\ StorageTypeOK
    /\ meta \in Blobs
    /\ inUse \subseteq Key
    /\ failures \in 0..MaxFailures
    /\ nextSalt \in 1..(MaxSalt + 1)
    /\ pc \in [Procs -> {"idle", "salt", "verifier", "refuse", "store", "nonce", "wrapped"}]
    /\ loc \in [Procs -> [pw: Passwords \cup {None}, blobs: Blobs, raced: BOOLEAN]]
    /\ sess \in [Procs -> [key: Key, meta: Key] \cup {None}]
    /\ \A p \in Procs : sess[p] # None => Ready(p)
    /\ replaced \in BOOLEAN

(* However its four reads interleave with an init or a rotation, an unlock  *)
(* that succeeds holds exactly the keys stored at that moment: it never     *)
(* mixes two generations.  (This is why Vault takes an unlock as one step.) *)
UnlockIsAtomic ==
    [][\A p \in Procs : pc[p] = "wrapped" /\ sess'[p] # None =>
          meta = Stored(sess'[p].key, sess'[p].meta)]_vars

(* Every session finds names under the same metadata key, across rotations  *)
(* and repeated init: lookups of one process are valid for all, unless two  *)
(* init raced for the empty vault.                                          *)
OneMetaKey ==
    replaced \/ \A p, q \in Procs :
        sess[p] # None /\ sess[q] # None => sess[p].meta = sess[q].meta

(* What is stored can be unlocked: the blobs belong together, so some       *)
(* password always opens the vault once it is initialised, whoever won.     *)
AlwaysOpenable ==
    meta = NoBlobs \/ \E key, mk \in Key :
        meta = [salt |-> key.salt, verifier |-> key, nonce |-> key.salt,
                wrapped |-> [by |-> key, nonce |-> key.salt, meta |-> mk]]

(* init never takes an existing vault over: it replaces stored credentials  *)
(* only if it had found the vault empty before the first of them were       *)
(* stored.                                                                  *)
InitReplacesOnlyRacing ==
    [][\A p \in Procs : pc[p] = "store" /\ meta' # meta =>
          meta = NoBlobs \/ loc[p].raced]_vars
=============================================================================
