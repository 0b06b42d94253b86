-------------------------------- MODULE Vault --------------------------------
(***************************************************************************)
(* Several fuin processes sharing one vault database (src/src/vault.c,     *)
(* audit.c, key_manager.c, storage.c, sql/schema.sql).                     *)
(*                                                                         *)
(* Each process caches the keys it derived when it unlocked.  A mutating   *)
(* operation reads what it needs with separate SELECTs, then runs its      *)
(* writes in one BEGIN IMMEDIATE transaction; a read of a secret appends   *)
(* its audit entry outside any transaction.  SQLite in WAL mode gives the  *)
(* rest: one writer at a time, readers see the last commit, a writer that  *)
(* finds the lock taken fails at once (no busy timeout is ever set), and a *)
(* crash leaves the last commit.                                           *)
(***************************************************************************)
EXTENDS AuditLog, Integers, FiniteSets

CONSTANTS
    Procs,            \* processes that may open the vault
    Names,            \* secret names (their keyed lookup hashes)
    Values,           \* plaintexts
    Passwords,        \* master passwords
    FirstPassword,    \* the password given to `fuin init`
    None,             \* no process, no name, no value
    Ops,              \* the operations sessions issue in this instance
    IntMax,           \* INT_MAX, the largest version
    Int64Max,         \* INT64_MAX, the largest nonce counter
    MaxLog,           \* bound: no operation starts on a log this long
    MaxKek            \* bound: generations of master key ever derived

AllOps == {"put", "delete", "rollback", "get", "rotate"}

(* audit_action of the operations. *)
Actions == {"CREATE", "UPDATE", "DELETE", "ROLLBACK", "READ", "ROTATE_KEK"}

ASSUME VaultAssumption ==
    /\ FirstPassword \in Passwords
    /\ None \notin Procs \cup Names \cup Values \cup Passwords \cup Actions
    /\ Ops \subseteq AllOps
    /\ IntMax \in Nat \ {0} /\ Int64Max \in Nat \ {0}
    /\ MaxLog \in Nat /\ MaxKek \in Nat

VARIABLES
    db,        \* the database as last committed
    work,      \* the database as the open write transaction sees it
    writer,    \* the process inside BEGIN IMMEDIATE ... COMMIT, or None
    pc,        \* what each process executes next
    sess,      \* generation of the keys in g_subkeys, 0 when locked
    loc,       \* locals of the operation each process is executing
    nextKek,   \* the next salt, hence master key, ever drawn
    returned   \* plaintexts handed to callers, with name and version

vars == <<db, work, writer, pc, sess, loc, nextKek, returned>>

-----------------------------------------------------------------------------
(* Types *)

Row == [name: Names, ver: 1..IntMax, ctr: 1..Int64Max, kek: Nat,
        val: Values, archived: BOOLEAN]

LogEntry == [prev: Nat, idx: Nat, key: Nat, act: Actions,
             tgt: Names \cup {None}, ver: Nat]

Database == [rows: SUBSET Row, log: Seq(LogEntry),
             auth: [kek: Nat, pw: Passwords]]

(* Locals: the action to be logged, the arguments, the version and counter  *)
(* computed before the transaction, audit_log_event's reads (last, nid,     *)
(* cnt), and the new credentials of a rotation.                             *)
Locals == [act: Actions \cup {None}, name: Names \cup {None},
           val: Values \cup {None}, ver: Nat, ctr: Nat,
           last: Nat, nid: Nat, cnt: Nat,
           auth: [kek: Nat, pw: Passwords \cup {None}]]

NoAuth == [kek |-> 0, pw |-> None]

Call(act, n, x, v, c, a) ==
    [act |-> act, name |-> n, val |-> x, ver |-> v, ctr |-> c,
     last |-> 0, nid |-> 0, cnt |-> 0, auth |-> a]

NoLocals == Call(None, None, None, 0, 0, NoAuth)

(* Steps inside the write transaction. *)
TxnSteps == {"archive", "insert", "verify", "rewrap", "auth", "resign",
             "log", "commit"}

Steps == {"closed", "idle", "bounds", "begin", "last", "next", "count",
          "append"} \cup TxnSteps

-----------------------------------------------------------------------------
(* Queries on the secrets table *)

RowsOf(rows, n) == {r \in rows : r.name = n}

Unarchived(rows, n) == {r \in RowsOf(rows, n) : ~r.archived}

(* VAULT_SQL_ACTIVE_ROW: not archived and the highest version of its name. *)
ActiveRow(rows, n) ==
    {r \in Unarchived(rows, n) : \A q \in RowsOf(rows, n) : q.ver <= r.ver}

(* vault_find_secret_history_bounds: MAX(version), MAX(nonce_counter) over *)
(* archived rows too; 0, 0 stands for "no history".                        *)
HistoryBounds(rows, n, v, c) ==
    IF RowsOf(rows, n) = {}
      THEN v = 0 /\ c = 0
      ELSE /\ \E r \in RowsOf(rows, n) : r.ver = v
           /\ \E r \in RowsOf(rows, n) : r.ctr = c
           /\ \A r \in RowsOf(rows, n) : r.ver <= v /\ r.ctr <= c

(* Mutant of Exhausted: the limit is noticed one version too late. *)
ExhaustedLate(v, c) == v > IntMax \/ c > Int64Max

(* max_version == INT_MAX || max_nonce_counter == INT64_MAX *)
Exhausted(v, c) == v = IntMax \/ c = Int64Max

(* Mutants of ConstraintsAllow: a schema that lacks one of the indexes. *)
UniqueVersionOnly(rows, n, v) == \A r \in RowsOf(rows, n) : r.ver # v

UniqueActiveOnly(rows, n, v) == Unarchived(rows, n) = {}

(* The schema lets a row of version v in: UNIQUE(name, version), and the    *)
(* partial unique index idx_secrets_name_active on unarchived rows.         *)
ConstraintsAllow(rows, n, v) ==
    /\ \A r \in RowsOf(rows, n) : r.ver # v
    /\ Unarchived(rows, n) = {}

(* Mutant of ArchiveRows: DELETE in place of UPDATE. *)
DropRows(rows, n) == rows \ Unarchived(rows, n)

(* UPDATE secrets SET is_archived = 1 WHERE name = ? AND is_archived = 0. *)
ArchiveRows(rows, n) ==
    {IF r.name = n THEN [r EXCEPT !.archived = TRUE] ELSE r : r \in rows}

(* key_manager_unwrap_dek: the AEAD tag of a DEK checks under the KEK that  *)
(* wrapped it and no other.                                                 *)
Unwraps(r, k) == r.kek = k

(* key_manager_rewrap_dek: the same DEK under another KEK. *)
Rewrapped(r, k) == [r EXCEPT !.kek = k]

(* Mutant of RewrapRows: archived versions are left out. *)
RewrapActive(rows, k) ==
    {IF r.archived THEN r ELSE Rewrapped(r, k) : r \in rows}

(* key_manager_rotate_kek: the DEK of every row, archived ones too. *)
RewrapRows(rows, k) == {Rewrapped(r, k) : r \in rows}

(* crypto_engine_decrypt: unwrap the DEK, check its commitment and the tag. *)
Decrypts(r, k) == Unwraps(r, k)

(* crypto_engine_encrypt_with_algorithm: what an operation's locals become  *)
(* under a KEK, as a row that is not archived.                              *)
Encrypted(l, k) ==
    [name |-> l.name, ver |-> l.ver, ctr |-> l.ctr, kek |-> k, val |-> l.val,
     archived |-> FALSE]

-----------------------------------------------------------------------------
(* Sessions *)

Goto(p, step) == pc' = [pc EXCEPT ![p] = step]

(* An operation returns to its caller; its locals are zeroed. *)
Return(p) == Goto(p, "idle") /\ loc' = [loc EXCEPT ![p] = NoLocals]

Init ==
    /\ db = [rows |-> {}, log |-> <<>>,
             auth |-> [kek |-> 1, pw |-> FirstPassword]]
    /\ work = db
    /\ writer = None
    /\ pc = [p \in Procs |-> "closed"]
    /\ sess = [p \in Procs |-> 0]
    /\ loc = [p \in Procs |-> NoLocals]
    /\ nextKek = 2
    /\ returned = {}

(* vault_unlock_existing with the right password: the keys derived from the *)
(* stored salt are cached.  Its metadata reads are one step here.           *)
Unlock(p, pw) ==
    /\ pc[p] \in {"closed", "idle"}
    /\ pw = db.auth.pw
    /\ sess' = [sess EXCEPT ![p] = db.auth.kek]
    /\ Goto(p, "idle")
    /\ UNCHANGED <<db, work, writer, loc, nextKek, returned>>

(* A failed unlock, and vault_close, forget the keys first. *)
Lock(p) ==
    /\ pc[p] = "idle"
    /\ sess' = [sess EXCEPT ![p] = 0]
    /\ Goto(p, "closed")
    /\ UNCHANGED <<db, work, writer, loc, nextKek, returned>>

(* The process dies wherever it is; SQLite rolls its transaction back. *)
Crash(p) ==
    /\ pc[p] # "closed"
    /\ IF writer = p THEN writer' = None /\ work' = db
                     ELSE UNCHANGED <<writer, work>>
    /\ sess' = [sess EXCEPT ![p] = 0]
    /\ loc' = [loc EXCEPT ![p] = NoLocals]
    /\ Goto(p, "closed")
    /\ UNCHANGED <<db, nextKek, returned>>

-----------------------------------------------------------------------------
(* What each operation reads before its transaction *)

(* vault_require_unlocked, and the bound on the length of behaviours. *)
MayStart(p, op) ==
    /\ op \in Ops
    /\ pc[p] = "idle"
    /\ sess[p] # 0
    /\ Len(db.log) < MaxLog

(* vault_put_with_options: vault_find_secret_metadata decides between      *)
(* CREATE and UPDATE.                                                      *)
PutFind(p, n, v) ==
    /\ MayStart(p, "put")
    /\ loc' = [loc EXCEPT ![p] =
                 Call(IF ActiveRow(db.rows, n) # {} THEN "UPDATE" ELSE "CREATE",
                      n, v, 0, 0, NoAuth)]
    /\ Goto(p, "bounds")
    /\ UNCHANGED <<db, work, writer, sess, nextKek, returned>>

(* vault_rollback: decrypt the version to restore; a row wrapped by another *)
(* key fails its commitment check and the operation ends there.             *)
RollbackFind(p, n, r) ==
    /\ MayStart(p, "rollback")
    /\ r \in RowsOf(db.rows, n)
    /\ Decrypts(r, sess[p])
    /\ loc' = [loc EXCEPT ![p] = Call("ROLLBACK", n, r.val, 0, 0, NoAuth)]
    /\ Goto(p, "bounds")
    /\ UNCHANGED <<db, work, writer, sess, nextKek, returned>>

(* vault_find_secret_history_bounds, a later SELECT: the new row takes the  *)
(* next version and the next nonce counter, unless either is exhausted.     *)
ReadBounds(p) ==
    /\ pc[p] = "bounds"
    /\ \E v \in 0..IntMax, c \in 0..Int64Max :
         /\ HistoryBounds(db.rows, loc[p].name, v, c)
         /\ IF Exhausted(v, c)
              THEN Return(p)
              ELSE /\ loc' = [loc EXCEPT ![p] =
                        Call(@.act, @.name, @.val, v + 1, c + 1, NoAuth)]
                   /\ Goto(p, "begin")
    /\ UNCHANGED <<db, work, writer, sess, nextKek, returned>>

(* vault_delete: the version it will report is the one active now. *)
DeleteFind(p, n, r) ==
    /\ MayStart(p, "delete")
    /\ r \in ActiveRow(db.rows, n)
    /\ loc' = [loc EXCEPT ![p] = Call("DELETE", n, None, r.ver, 0, NoAuth)]
    /\ Goto(p, "begin")
    /\ UNCHANGED <<db, work, writer, sess, nextKek, returned>>

(* vault_rotate_kek: a fresh salt, hence fresh keys, for the new password. *)
RotateDerive(p, pw) ==
    /\ MayStart(p, "rotate")
    /\ nextKek <= MaxKek
    /\ loc' = [loc EXCEPT ![p] = Call("ROTATE_KEK", None, None, 0, 0,
                                      [kek |-> nextKek, pw |-> pw])]
    /\ nextKek' = nextKek + 1
    /\ Goto(p, "begin")
    /\ UNCHANGED <<db, work, writer, sess, returned>>

-----------------------------------------------------------------------------
(* The write transaction *)

FirstTxnStep(l) ==
    CASE l.act = "ROTATE_KEK" -> "verify"
      [] l.act = "CREATE"     -> "insert"
      [] OTHER                -> "archive"

(* storage_begin_transaction: BEGIN IMMEDIATE. *)
Begin(p) ==
    /\ pc[p] = "begin"
    /\ writer = None
    /\ writer' = p
    /\ Goto(p, FirstTxnStep(loc[p]))
    /\ UNCHANGED <<db, work, sess, loc, nextKek, returned>>

(* Mutant of BeginFail: a busy handler that waits for the lock. *)
BeginWaits(p) == pc[p] = "begin" /\ writer # None /\ UNCHANGED vars

(* Another process holds the write lock (SQLITE_BUSY, never retried), or    *)
(* the statement fails otherwise: the operation ends.                       *)
BeginFail(p) ==
    /\ pc[p] = "begin"
    /\ Return(p)
    /\ UNCHANGED <<db, work, writer, sess, nextKek, returned>>

(* Mutant of Archive: the number of rows changed is not looked at. *)
ArchiveUnchecked(p) ==
    /\ pc[p] = "archive"
    /\ work' = [work EXCEPT !.rows = ArchiveRows(@, loc[p].name)]
    /\ Goto(p, IF loc[p].act = "DELETE" THEN "log" ELSE "insert")
    /\ UNCHANGED <<db, writer, sess, loc, nextKek, returned>>

(* vault_archive_active_secret: more than one row changed is an error, and  *)
(* so is none unless the caller is vault_rollback.                          *)
Archive(p) ==
    LET hit == Unarchived(work.rows, loc[p].name) IN
    /\ pc[p] = "archive"
    /\ \A r, q \in hit : r = q
    /\ loc[p].act # "ROLLBACK" => hit # {}
    /\ work' = [work EXCEPT !.rows = ArchiveRows(@, loc[p].name)]
    /\ Goto(p, IF loc[p].act = "DELETE" THEN "log" ELSE "insert")
    /\ UNCHANGED <<db, writer, sess, loc, nextKek, returned>>

(* vault_insert_secret; the DEK is wrapped by the cached KEK. *)
Insert(p) ==
    /\ pc[p] = "insert"
    /\ ConstraintsAllow(work.rows, loc[p].name, loc[p].ver)
    /\ work' = [work EXCEPT !.rows = @ \cup {Encrypted(loc[p], sess[p])}]
    /\ Goto(p, "log")
    /\ UNCHANGED <<db, writer, sess, loc, nextKek, returned>>

(* rotate_kek refuses to start from a log that does not verify. *)
RotateVerify(p) ==
    /\ pc[p] = "verify"
    /\ audit_verify_chain(work.log, sess[p])
    /\ Goto(p, "rewrap")
    /\ UNCHANGED <<db, work, writer, sess, loc, nextKek, returned>>

(* key_manager_rotate_kek: every row, archived ones too, must unwrap under  *)
(* the old key.                                                             *)
RotateRewrap(p) ==
    /\ pc[p] = "rewrap"
    /\ \A r \in work.rows : Unwraps(r, sess[p])
    /\ work' = [work EXCEPT !.rows = RewrapRows(@, loc[p].auth.kek)]
    /\ Goto(p, "auth")
    /\ UNCHANGED <<db, writer, sess, loc, nextKek, returned>>

(* The wrapped metadata key, the salt and the verifier of the new password. *)
RotateAuth(p) ==
    /\ pc[p] = "auth"
    /\ work' = [work EXCEPT !.auth = loc[p].auth]
    /\ Goto(p, "resign")
    /\ UNCHANGED <<db, writer, sess, loc, nextKek, returned>>

RotateResign(p) ==
    /\ pc[p] = "resign"
    /\ ChainLinked(work.log)
    /\ work' = [work EXCEPT !.log = audit_resign_chain(@, loc[p].auth.kek)]
    /\ Goto(p, "log")
    /\ UNCHANGED <<db, writer, sess, loc, nextKek, returned>>

(* vault_log_success signs with the cached keys; a rotation already signs   *)
(* with the new one.                                                        *)
SigningKey(p) ==
    IF loc[p].act = "ROTATE_KEK" THEN loc[p].auth.kek ELSE sess[p]

(* The audit entry of the operation, inside its transaction. *)
LogInTxn(p) ==
    LET l == loc[p] IN
    /\ pc[p] = "log"
    /\ work' = [work EXCEPT !.log =
                  audit_log_event(@, SigningKey(p), l.act, l.name, l.ver)]
    /\ Goto(p, "commit")
    /\ UNCHANGED <<db, writer, sess, loc, nextKek, returned>>

(* After its COMMIT a rotation swaps the cached keys. *)
KeysAfter(p) ==
    IF loc[p].act = "ROTATE_KEK" THEN [sess EXCEPT ![p] = loc[p].auth.kek]
                                 ELSE sess

(* storage_commit_transaction succeeds. *)
Commit(p) ==
    /\ pc[p] = "commit"
    /\ db' = work
    /\ writer' = None
    /\ sess' = KeysAfter(p)
    /\ Return(p)
    /\ UNCHANGED <<work, nextKek, returned>>

(* Mutants of TxnFail: the error path commits, or forgets to end the        *)
(* transaction.                                                             *)
TxnFailCommits(p) ==
    /\ pc[p] \in TxnSteps
    /\ db' = work
    /\ writer' = None
    /\ Return(p)
    /\ UNCHANGED <<work, sess, nextKek, returned>>

TxnFailLeaks(p) ==
    /\ pc[p] \in TxnSteps
    /\ Return(p)
    /\ UNCHANGED <<db, work, writer, sess, nextKek, returned>>

(* A statement of the transaction fails (a constraint, a refused check, an  *)
(* I/O error, the COMMIT itself): ROLLBACK and return the error.            *)
TxnFail(p) ==
    /\ pc[p] \in TxnSteps
    /\ work' = db
    /\ writer' = None
    /\ Return(p)
    /\ UNCHANGED <<db, sess, nextKek, returned>>

-----------------------------------------------------------------------------
(* vault_read_secret: decrypt, then append a READ entry in autocommit mode, *)
(* one statement at a time.                                                 *)

GetFind(p, n, r) ==
    /\ MayStart(p, "get")
    /\ r \in RowsOf(db.rows, n)
    /\ Decrypts(r, sess[p])
    /\ loc' = [loc EXCEPT ![p] = Call("READ", n, r.val, r.ver, 0, NoAuth)]
    /\ Goto(p, "last")
    /\ UNCHANGED <<db, work, writer, sess, nextKek, returned>>

ReadLastHash(p) ==
    /\ pc[p] = "last"
    /\ loc' = [loc EXCEPT ![p].last = audit_get_last_hash(db.log)]
    /\ Goto(p, "next")
    /\ UNCHANGED <<db, work, writer, sess, nextKek, returned>>

ReadNextId(p) ==
    /\ pc[p] = "next"
    /\ loc' = [loc EXCEPT ![p].nid = audit_next_entry_id(db.log)]
    /\ Goto(p, "count")
    /\ UNCHANGED <<db, work, writer, sess, nextKek, returned>>

ReadCount(p) ==
    /\ pc[p] = "count"
    /\ loc' = [loc EXCEPT ![p].cnt = audit_count_entries(db.log)]
    /\ Goto(p, "append")
    /\ UNCHANGED <<db, work, writer, sess, nextKek, returned>>

(* Mutant of EntryIdFree: no PRIMARY KEY on entry_id. *)
EntryIdAny(log, id) == TRUE

(* entry_id is the PRIMARY KEY; an id read earlier is at most Len(log) + 1, *)
(* so a free one is the next.                                               *)
EntryIdFree(log, id) == id \notin DOMAIN log

(* Mutant of AppendRead: INSERT OR REPLACE. *)
AppendReadReplaces(p) ==
    LET l == loc[p]
        e == AuditEntry(l.last, l.cnt, sess[p], l.act, l.name, l.ver)
    IN
    /\ pc[p] = "append"
    /\ writer = None
    /\ db' = [db EXCEPT !.log = IF l.nid \in DOMAIN @ THEN [@ EXCEPT ![l.nid] = e]
                                                      ELSE Append(@, e)]
    /\ work' = db'
    /\ returned' = returned \cup {[name |-> l.name, ver |-> l.ver, val |-> l.val]}
    /\ Return(p)
    /\ UNCHANGED <<writer, sess, nextKek>>

(* The INSERT needs the write lock and a free entry_id; only then does the  *)
(* caller see the plaintext.                                                *)
AppendRead(p) ==
    LET l == loc[p] IN
    /\ pc[p] = "append"
    /\ writer = None
    /\ EntryIdFree(db.log, l.nid)
    /\ db' = [db EXCEPT !.log = Append(@, AuditEntry(l.last, l.cnt, sess[p],
                                           l.act, l.name, l.ver))]
    /\ work' = db'
    /\ returned' = returned \cup {[name |-> l.name, ver |-> l.ver, val |-> l.val]}
    /\ Return(p)
    /\ UNCHANGED <<writer, sess, nextKek>>

(* Steps outside a transaction at which a statement or a computation may    *)
(* fail.                                                                    *)
OpenSteps == {"bounds", "last", "next", "count", "append"}

(* Mutant of OpFail: the output of a failed read is not zeroed. *)
OpFailKeepsOutput(p) ==
    /\ pc[p] \in OpenSteps
    /\ Return(p)
    /\ returned' = IF loc[p].act # "READ" THEN returned
                   ELSE returned \cup {[name |-> loc[p].name, ver |-> loc[p].ver,
                                        val |-> loc[p].val]}
    /\ UNCHANGED <<db, work, writer, sess, nextKek>>

(* Lock taken, entry_id already used, an I/O, clock or cipher error: the    *)
(* operation returns it, and a read zeroes its output.                      *)
OpFail(p) ==
    /\ pc[p] \in OpenSteps
    /\ Return(p)
    /\ UNCHANGED <<db, work, writer, sess, nextKek, returned>>

-----------------------------------------------------------------------------
(* Specification *)

StartOp(p) ==
    \/ \E n \in Names, v \in Values : PutFind(p, n, v)
    \/ \E n \in Names, r \in db.rows : \/ RollbackFind(p, n, r)
                                       \/ DeleteFind(p, n, r)
                                       \/ GetFind(p, n, r)
    \/ \E pw \in Passwords : RotateDerive(p, pw)

(* One step of an operation that has begun. *)
Step(p) ==
    \/ ReadBounds(p) \/ Begin(p) \/ BeginFail(p)
    \/ Archive(p) \/ Insert(p)
    \/ RotateVerify(p) \/ RotateRewrap(p) \/ RotateAuth(p) \/ RotateResign(p)
    \/ LogInTxn(p) \/ Commit(p) \/ TxnFail(p)
    \/ ReadLastHash(p) \/ ReadNextId(p) \/ ReadCount(p)
    \/ AppendRead(p) \/ OpFail(p)

Next == \E p \in Procs :
    \/ \E pw \in Passwords : Unlock(p, pw)
    \/ Lock(p) \/ Crash(p) \/ StartOp(p) \/ Step(p)

Spec == Init /\ [][Next]_vars

(* The operating system keeps scheduling a process that is not dead. *)
FairSpec == Spec /\ \A p \in Procs : WF_vars(Step(p))
=============================================================================
