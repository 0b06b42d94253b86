-------------------------- MODULE VaultProperties --------------------------
(***************************************************************************)
(* What a vault shared by several processes promises.                      *)
(***************************************************************************)
EXTENDS Vault

(* Every variable has its type; in particular no row version or nonce       *)
(* counter ever exceeds INT_MAX / INT64_MAX (vault.c:2049).                 *)
TypeOK ==
    /\ db \in Database
    /\ work \in Database
    /\ writer \in Procs \cup {None}
    /\ pc \in [Procs -> Steps]
    /\ sess \in [Procs -> Nat]
    /\ loc \in [Procs -> Locals]
    /\ nextKek \in Nat
    /\ returned \subseteq [name: Names, ver: Nat, val: Values]

-----------------------------------------------------------------------------
(* The secrets table *)

(* A row that is not archived is the only such row of its name and carries  *)
(* the highest version, whatever the interleaving of put, rollback and      *)
(* delete: otherwise VAULT_SQL_ACTIVE_ROW would hide it while the partial   *)
(* index kept every later put of that name from inserting.                  *)
LatestIsActive(rows) ==
    \A r \in rows : ~r.archived =>
        \A q \in RowsOf(rows, r.name) : q.ver <= r.ver /\ (q # r => q.archived)

ActiveIsLatest == LatestIsActive(db.rows)

(* Versions of a name have no gap and no duplicate, and each carries the    *)
(* nonce counter of its rank: a counter is never used twice for a name      *)
(* although it is computed from a read made before the transaction.         *)
Gapless(rows) ==
    \A r \in rows :
        /\ r.ctr = r.ver
        /\ \A v \in 1..r.ver : \E q \in RowsOf(rows, r.name) : q.ver = v
        /\ \A q \in RowsOf(rows, r.name) : q.ver = r.ver => q = r

GaplessVersions == Gapless(db.rows)

(* "Updates never overwrite": a committed version keeps its name, counter   *)
(* and value for ever, and an archived one is never made active again.      *)
HistoryImmutable ==
    [][\A r \in db.rows : \E q \in db'.rows :
          /\ q.name = r.name /\ q.ver = r.ver /\ q.ctr = r.ctr /\ q.val = r.val
          /\ r.archived => q.archived]_db

(* The committed rows seen as an abstract store. *)
VersionsOf(rows, n) == {r.ver : r \in RowsOf(rows, n)}

ValueOf(rows, n, v) == (CHOOSE r \in RowsOf(rows, n) : r.ver = v).val

Store == INSTANCE SecretStore WITH
    MaxVersion <- IntMax,
    hist <- [n \in Names |->
               [v \in VersionsOf(db.rows, n) |-> ValueOf(db.rows, n, v)]],
    live <- [n \in Names |-> Unarchived(db.rows, n) # {}]

(* However processes interleave, crash or fail, what they commit is a       *)
(* history of atomic writes and deletes of a versioned store.               *)
ImplementsStore == Store!Spec

-----------------------------------------------------------------------------
(* The audit log *)

Creations == {"CREATE", "UPDATE", "ROLLBACK"}

Mutations(log, n) ==
    {i \in DOMAIN log : log[i].tgt = n /\ log[i].act \in Creations \cup {"DELETE"}}

(* "Every operation is appended to the audit log", atomically with it: the  *)
(* last mutation logged for a name says which version is active, or that    *)
(* none is.                                                                 *)
AuditReplays ==
    \A n \in Names :
      /\ RowsOf(db.rows, n) # {} => Mutations(db.log, n) # {}
      /\ \A i \in Mutations(db.log, n) :
           (\A j \in Mutations(db.log, n) : j <= i) =>
             IF db.log[i].act = "DELETE"
               THEN Unarchived(db.rows, n) = {}
               ELSE \E r \in Unarchived(db.rows, n) : r.ver = db.log[i].ver

(* A committed entry keeps every hashed field and its place for ever;       *)
(* rotation may only replace its signature.                                 *)
AuditAppendOnly ==
    [][/\ Len(db'.log) >= Len(db.log)
       /\ \A i \in DOMAIN db.log :
            LET old == db.log[i]  new == db'.log[i] IN
            /\ new.prev = old.prev /\ new.act = old.act
            /\ new.tgt = old.tgt /\ new.ver = old.ver]_db

(* audit.c:191: entry i is signed with the key ratcheted i times, although  *)
(* a READ counts the entries and inserts in separate statements.            *)
RatchetIndex == \A i \in DOMAIN db.log : db.log[i].idx = i - 1

(* A plaintext reaches a caller only once a READ of that version is in the  *)
(* log, and it is the value the version was stored with.                    *)
ReadsAudited ==
    \A x \in returned :
        /\ \E i \in DOMAIN db.log : /\ db.log[i].act = "READ"
                                    /\ db.log[i].tgt = x.name
                                    /\ db.log[i].ver = x.ver
        /\ \E r \in RowsOf(db.rows, x.name) : r.ver = x.ver /\ r.val = x.val

(* The log verifies under the current password. *)
ChainVerifies == audit_verify_chain(db.log, db.auth.kek)

(* The log is one chain: each entry stores the hash of its predecessor. *)
ChainIsLinked == ChainLinked(db.log)

(* Each DELETE entry stands for one version retired, and names none newer:   *)
(* vault_delete takes the version it reports before BEGIN, so a put may     *)
(* overtake it (the entry then names an older version than the one it       *)
(* archives) and two deletes of one version may race (only one is logged).  *)
DeletesRetire ==
    \A n \in Names : \A i \in Mutations(db.log, n) :
        db.log[i].act = "DELETE" =>
          \E j \in Mutations(db.log, n) :
            /\ j < i /\ db.log[j].ver >= db.log[i].ver
            /\ db.log[j].act \in Creations
            /\ \A k \in Mutations(db.log, n) : k <= j \/ k >= i

-----------------------------------------------------------------------------
(* Keys *)

(* Every stored secret can be decrypted with the current password. *)
EveryRowUnwraps == \A r \in db.rows : r.kek = db.auth.kek

(* What a process is about to commit rests on something another process has *)
(* replaced since: the keys in g_subkeys, or the last hash a READ took.     *)
StaleKeys(p) == pc[p] \in {"append", "commit"} /\ sess[p] # db.auth.kek

StaleLink(p) == pc[p] = "append" /\ loc[p].last # audit_get_last_hash(db.log)

(* A log that verifies and rows that unwrap under the current password stay *)
(* so through every operation, rotation, failure and crash; the only ways   *)
(* to lose that are the two of runs vault_fork and vault_stale.             *)
OnlyStaleBreaks ==
    [][/\ ChainVerifies /\ ~ChainVerifies' =>
            \E p \in Procs : pc'[p] # pc[p] /\ (StaleKeys(p) \/ StaleLink(p))
       /\ EveryRowUnwraps /\ ~EveryRowUnwraps' =>
            \E p \in Procs : pc'[p] # pc[p] /\ StaleKeys(p)]_vars

(* A rotation replaces all or nothing: when the stored credentials change,  *)
(* every DEK and every audit signature is already under the new key.        *)
RotationTotal ==
    [][db'.auth # db.auth =>
         /\ \A r \in db'.rows : r.kek = db'.auth.kek
         /\ audit_verify_chain(db'.log, db'.auth.kek)]_db

(* Only a session holding the current keys can rotate them: a session left  *)
(* behind by a rotation is refused by audit_verify_chain.                   *)
OnlyCurrentRotates ==
    [][db'.auth # db.auth =>
         \E p \in Procs : /\ sess[p] = db.auth.kek
                          /\ sess'[p] = db'.auth.kek]_<<db, sess>>

-----------------------------------------------------------------------------
(* Transactions and progress *)

(* Only an operation between BEGIN and COMMIT/ROLLBACK owns the write lock, *)
(* and outside of it nothing uncommitted is left.                           *)
NoTxnLeak ==
    /\ \A p \in Procs : pc[p] \in TxnSteps <=> writer = p
    /\ writer = None => work = db

(* Every operation returns or its process dies: nobody waits for the lock.  *)
OperationsEnd ==
    \A p \in Procs : pc[p] \notin {"idle", "closed"} ~> pc[p] \in {"idle", "closed"}
=============================================================================
