-------------------------- MODULE VaultAuditProofs --------------------------
(***************************************************************************)
(* The audit log and the rotation of the master key under concurrency.     *)
(* The links of the chain may break (run vault_fork); what holds whatever  *)
(* the interleaving is proved here: the ratchet index, that nothing        *)
(* committed changes, that rotations are total and never stale, that the   *)
(* log replays to the table, that reads are logged, that only a stale step *)
(* breaks the chain or a row, and that every DELETE entry retires one      *)
(* version.  A last section adds what a process that has the vault to      *)
(* itself may rely on.                                                     *)
(***************************************************************************)
EXTENDS VaultProofs

Ratcheted(log) == \A i \in 1..Len(log) : log[i].idx = i - 1

(* B continues A; signatures may differ. *)
Grows(A, B) ==
    /\ Len(A) <= Len(B)
    /\ \A i \in 1..Len(A) : /\ B[i].prev = A[i].prev /\ B[i].act = A[i].act
                            /\ B[i].tgt = A[i].tgt /\ B[i].ver = A[i].ver

(* The first entry is always under the current key: a stale session can     *)
(* only append, and there is none while the log is empty.                   *)
FirstSigned(base) ==
    base.log # <<>> => base.log[1].key = base.auth.kek

(* What a reader holds between its three SELECTs and its INSERT. *)
Counted(p) ==
    /\ pc[p] \in {"count", "append"} => loc[p].nid \in 1..(Len(db.log) + 1)
    /\ pc[p] = "append" => loc[p].cnt \in (loc[p].nid - 1)..Len(db.log)

InRotation(p) == pc[p] \in TxnSteps /\ loc[p].act = "ROTATE_KEK"

(* How far the writer's rotation is. *)
Rotating(p) ==
    /\ pc[p] \in TxnSteps /\ ~InRotation(p) =>
           work.auth = db.auth /\ FirstSigned(work)
    /\ pc[p] \in {"verify", "rewrap", "auth"} => work.auth = db.auth /\ work.log = db.log
    /\ InRotation(p) /\ pc[p] # "verify" => sess[p] = db.auth.kek
    /\ InRotation(p) /\ pc[p] \in {"auth", "resign", "log", "commit"} =>
           \A r \in work.rows : r.kek = loc[p].auth.kek
    /\ InRotation(p) /\ pc[p] \in {"resign", "log", "commit"} => work.auth = loc[p].auth
    /\ InRotation(p) /\ pc[p] \in {"log", "commit"} =>
           audit_verify_chain(work.log, loc[p].auth.kek)

AuditInv ==
    /\ TypeInv
    /\ NoTxnLeak
    /\ Ratcheted(db.log) /\ Ratcheted(work.log)
    /\ Grows(db.log, work.log)
    /\ FirstSigned(db)
    /\ db.log = <<>> => \A p \in Procs : sess[p] \in {0, db.auth.kek}
    /\ \A p \in Procs : pc[p] \notin {"closed", "idle"} => sess[p] # 0
    /\ \A p \in Procs : pc[p] = "commit" => work.log # <<>>
    /\ \A p \in Procs : Counted(p)
    /\ \A p \in Procs : Rotating(p)

(* x is stored as version v of n. *)
Stored(rows, n, v, x) == \E r \in RowsOf(rows, n) : r.ver = v /\ r.val = x

(* What a reader decrypted is still stored when it logs the READ. *)
Held(p) ==
    pc[p] \in {"last", "next", "count", "append"} =>
        Stored(db.rows, loc[p].name, loc[p].ver, loc[p].val)

ReadInv ==
    /\ TableInv
    /\ AuditInv
    /\ ReadsAudited
    /\ \A p \in Procs : Held(p)

(* i is the last mutation of n. *)
LastMutation(log, n, i) ==
    i \in Mutations(log, n) /\ \A j \in Mutations(log, n) : j <= i

(* What the entry of a mutation says of n is true of the table. *)
Tells(rows, n, act, v) ==
    IF act = "DELETE" THEN Unarchived(rows, n) = {}
                      ELSE \E r \in Unarchived(rows, n) : r.ver = v

(* The log, replayed, gives the state of n. *)
Replays(rows, log, n) ==
    /\ RowsOf(rows, n) # {} => \E i \in 1..Len(log) : LastMutation(log, n, i)
    /\ \A i \in 1..Len(log) :
         LastMutation(log, n, i) => Tells(rows, n, log[i].act, log[i].ver)

(* The open transaction runs ahead of its audit entry for one name, and     *)
(* only until it is logged.                                                 *)
Ahead(p) ==
    LET l == loc[p] IN
    pc[p] \in TxnSteps =>
        /\ \A n \in Names : n # l.name \/ pc[p] = "commit" =>
              Replays(work.rows, work.log, n)
        /\ pc[p] = "log" /\ l.act # "ROTATE_KEK" => Tells(work.rows, l.name, l.act, l.ver)

ReplayInv ==
    /\ StoreInv
    /\ AuditInv
    /\ \A n \in Names : Replays(db.rows, db.log, n)
    /\ \A p \in Procs : Ahead(p)

(* Every DELETE of n comes right after the entry that made the version it   *)
(* retires active, and names none newer.                                    *)
Retires(log, n) ==
    \A i \in Mutations(log, n) : log[i].act = "DELETE" =>
        \E j \in Mutations(log, n) :
            /\ j < i /\ log[j].ver >= log[i].ver /\ log[j].act \in Creations
            /\ \A k \in Mutations(log, n) : k <= j \/ k >= i

(* The open transaction, as far as its keys and its entry go; and the       *)
(* version a delete will report, which later commits leave in the table.    *)
Pending(p) ==
    LET l == loc[p] IN
    /\ pc[p] \in TxnSteps \ {"commit"} /\ l.act # "ROTATE_KEK" => work.log = db.log
    /\ pc[p] = "commit" /\ l.act # "ROTATE_KEK" =>
           work.log = audit_log_event(db.log, sess[p], l.act, l.name, l.ver)
    /\ pc[p] \in TxnSteps /\ l.act # "ROTATE_KEK" =>
           \A r \in work.rows : r.kek = sess[p] \/ \E q \in db.rows : q.kek = r.kek
    /\ pc[p] \in TxnSteps => \A n \in Names : Retires(work.log, n)
    /\ l.act = "DELETE" => \E r \in RowsOf(db.rows, l.name) : r.ver = l.ver

RaceInv ==
    /\ ReplayInv
    /\ \A n \in Names : Retires(db.log, n)
    /\ \A p \in Procs : Pending(p)

(* One process has the vault to itself. *)
SoleProcess == \A p, q \in Procs : p = q

AllUnder(rows, k) == \A r \in rows : r.kek = k

(* What an operation that nobody can interrupt still knows. *)
Undisturbed(p) ==
    LET l == loc[p] IN
    /\ sess[p] \in {0, db.auth.kek}
    /\ pc[p] \in {"next", "count", "append"} => l.last = Len(db.log)
    /\ pc[p] \in TxnSteps \ {"commit"} /\ l.act # "ROTATE_KEK" => work.log = db.log
    /\ pc[p] \in TxnSteps /\ l.act # "ROTATE_KEK" =>
           /\ AllUnder(work.rows, db.auth.kek)
           /\ audit_verify_chain(work.log, db.auth.kek)

SoleInv ==
    /\ ReplayInv
    /\ ChainVerifies
    /\ EveryRowUnwraps
    /\ \A p \in Procs : Undisturbed(p)

-----------------------------------------------------------------------------
(* What the two writers of the log do to it *)

(* A log grows from itself. *)
LEMMA GrowsRefl == ASSUME NEW A \in Seq(LogEntry) PROVE Grows(A, A)
  BY DEF Grows

(* Growth of the log composes. *)
LEMMA GrowsTrans ==
    ASSUME NEW A \in Seq(LogEntry), NEW B \in Seq(LogEntry), NEW C \in Seq(LogEntry),
           Grows(A, B), Grows(B, C)
    PROVE  Grows(A, C)
<1>1. Len(A) \in Nat /\ Len(B) \in Nat /\ Len(C) \in Nat
  OBVIOUS
<1> QED
  BY <1>1 DEF Grows

(* audit_log_event: an INSERT at the end. *)
LEMMA AppendLog ==
    ASSUME NEW log \in Seq(LogEntry), NEW e \in LogEntry
    PROVE  /\ Append(log, e) \in Seq(LogEntry) /\ Append(log, e) # <<>>
           /\ Len(Append(log, e)) = Len(log) + 1
           /\ Append(log, e)[Len(log) + 1] = e
           /\ \A i \in 1..Len(log) : Append(log, e)[i] = log[i]
           /\ Grows(log, Append(log, e))
           /\ Ratcheted(log) /\ e.idx = Len(log) => Ratcheted(Append(log, e))
           /\ log # <<>> => Append(log, e)[1] = log[1]
           /\ log = <<>> => Append(log, e)[1] = e
<1>1. /\ Append(log, e) \in Seq(LogEntry) /\ Append(log, e) # <<>>
      /\ Len(Append(log, e)) = Len(log) + 1
      /\ Append(log, e)[Len(log) + 1] = e
      /\ \A i \in 1..Len(log) : Append(log, e)[i] = log[i]
      /\ Len(log) \in Nat
  OBVIOUS
<1>2. Grows(log, Append(log, e))
  BY <1>1 DEF Grows
<1>3. ASSUME Ratcheted(log), e.idx = Len(log) PROVE Ratcheted(Append(log, e))
  BY <1>1, <1>3 DEF Ratcheted
<1>4. log # <<>> => Append(log, e)[1] = log[1]
  BY <1>1
<1>5. log = <<>> => Append(log, e)[1] = e
  BY <1>1
<1> QED
  BY <1>1, <1>2, <1>3, <1>4, <1>5

(* audit_resign_chain: signatures only. *)
LEMMA ResignLog ==
    ASSUME NEW log \in Seq(LogEntry), NEW k \in Nat
    PROVE  /\ Ratcheted(audit_resign_chain(log, k))
           /\ Grows(log, audit_resign_chain(log, k))
           /\ ChainLinked(log) => audit_verify_chain(audit_resign_chain(log, k), k)
<1> DEFINE new == audit_resign_chain(log, k)
<1>1. new \in Seq(LogEntry) /\ Len(new) = Len(log) /\ Len(log) \in Nat
  BY ResignType
<1>2. \A i \in 1..Len(log) :
        /\ new[i].prev = log[i].prev /\ new[i].act = log[i].act
        /\ new[i].tgt = log[i].tgt /\ new[i].ver = log[i].ver
        /\ new[i].idx = i - 1 /\ new[i].key = k
  <2> TAKE i \in 1..Len(log)
  <2>1. new[i] = AuditEntry(log[i].prev, i - 1, k, log[i].act, log[i].tgt, log[i].ver)
    BY ResignType DEF Resigned
  <2> HIDE DEF new
  <2> QED
    BY <2>1 DEF AuditEntry
<1> HIDE DEF new
<1>3. Ratcheted(new) /\ Grows(log, new)
  BY <1>1, <1>2 DEF Ratcheted, Grows
<1>4. DOMAIN new = 1..Len(log) /\ DOMAIN log = 1..Len(log)
  BY <1>1
<1>5. ChainLinked(log) => audit_verify_chain(new, k)
  BY <1>1, <1>2, <1>4 DEF ChainLinked, audit_verify_chain
<1> QED
  BY <1>3, <1>5 DEF new

(* Logging at the end of a log that verifies, with the key it verifies      *)
(* under, keeps it so.                                                      *)
LEMMA LogVerifies ==
    ASSUME NEW log \in Seq(LogEntry), NEW k \in Nat, NEW act, NEW tgt, NEW ver,
           audit_log_event(log, k, act, tgt, ver) \in Seq(LogEntry),
           audit_verify_chain(log, k)
    PROVE  audit_verify_chain(audit_log_event(log, k, act, tgt, ver), k)
<1> DEFINE e == AuditEntry(Len(log), Len(log), k, act, tgt, ver)
           new == Append(log, e)
<1>1. /\ Len(log) \in Nat /\ Len(new) = Len(log) + 1 /\ DOMAIN new = 1..(Len(log) + 1)
      /\ DOMAIN log = 1..Len(log)
      /\ \A i \in 1..Len(log) : new[i] = log[i]
      /\ new[Len(log) + 1] = e
  OBVIOUS
<1>2. e.prev = Len(log) /\ e.idx = Len(log) /\ e.key = k
  BY DEF AuditEntry
<1>3. audit_log_event(log, k, act, tgt, ver) = new
  BY DEF audit_log_event, audit_get_last_hash, audit_count_entries
<1> HIDE DEF e, new
<1>4. \A i \in 1..(Len(log) + 1) : new[i].prev = i - 1 /\ new[i].key = k /\ new[i].idx = i - 1
  <2> TAKE i \in 1..(Len(log) + 1)
  <2>1. CASE i \in 1..Len(log)
    BY <1>1, <2>1 DEF audit_verify_chain
  <2>2. CASE i = Len(log) + 1
    BY <1>1, <1>2, <2>2
  <2> QED
    BY <1>1, <2>1, <2>2
<1> QED
  BY <1>1, <1>3, <1>4 DEF audit_verify_chain

-----------------------------------------------------------------------------
(* The invariant *)

(* The empty log of a new vault satisfies the invariant. *)
LEMMA InitAudit == Init => AuditInv
<1> SUFFICES ASSUME Init PROVE AuditInv
  OBVIOUS
<1>1. TypeInv /\ NoTxnLeak
  BY InitTable DEF TableInv
<1>2. db.log = <<>> /\ work.log = <<>>
  BY DEF Init
<1>3. Ratcheted(db.log) /\ Ratcheted(work.log) /\ Grows(db.log, work.log) /\ FirstSigned(db)
  BY <1>2 DEF Ratcheted, Grows, FirstSigned
<1>4. \A p \in Procs : pc[p] = "closed" /\ sess[p] = 0
  BY DEF Init
<1>5. \A p \in Procs : Counted(p) /\ Rotating(p)
  BY <1>4 DEF Counted, Rotating, InRotation, TxnSteps
<1> QED
  BY <1>1, <1>3, <1>4, <1>5 DEF AuditInv

(* The logs stay ratcheted and only grow. *)
LEMMA NextLogs ==
    ASSUME AuditInv, [Next]_vars
    PROVE  /\ Ratcheted(db'.log) /\ Ratcheted(work'.log)
           /\ Grows(db'.log, work'.log) /\ Grows(db.log, db'.log)
<1> DEFINE Goal == /\ Ratcheted(db'.log) /\ Ratcheted(work'.log)
                   /\ Grows(db'.log, work'.log) /\ Grows(db.log, db'.log)
<1>0. /\ db \in Database /\ work \in Database
      /\ db.log \in Seq(LogEntry) /\ work.log \in Seq(LogEntry)
      /\ Ratcheted(db.log) /\ Ratcheted(work.log) /\ Grows(db.log, work.log)
      /\ Grows(db.log, db.log) /\ Grows(work.log, work.log)
      /\ TypeInv /\ \A p \in Procs : loc[p] \in Locals /\ Fit(pc[p], loc[p]) /\ sess[p] \in Nat
  BY GrowsRefl DEF AuditInv, TypeInv, TypeOK, Database
<1>1. ASSUME db'.log = db.log, work'.log = work.log \/ work'.log = db'.log
      PROVE  Goal
  BY <1>0, <1>1
<1>2. ASSUME NEW p \in Procs, LogInTxn(p) PROVE Goal
  <2> DEFINE e == AuditEntry(Len(work.log), Len(work.log), SigningKey(p),
                             loc[p].act, loc[p].name, loc[p].ver)
  <2>1. db' = db /\ work'.log = Append(work.log, e)
    BY <1>0, <1>2 DEF LogInTxn, Database, audit_log_event, audit_get_last_hash,
      audit_count_entries
  <2>2. loc[p].act \in Actions /\ SigningKey(p) \in Nat /\ Len(work.log) \in Nat
    BY <1>0, <1>2 DEF LogInTxn, Fit, TxnSteps, SigningKey, Locals
  <2>3. e \in LogEntry /\ e.idx = Len(work.log)
    BY <1>0, <2>2 DEF AuditEntry, LogEntry, Locals
  <2> HIDE DEF e
  <2>4. /\ Append(work.log, e) \in Seq(LogEntry)
        /\ Grows(work.log, Append(work.log, e)) /\ Ratcheted(Append(work.log, e))
    BY <1>0, <2>3, AppendLog
  <2> QED
    BY <1>0, <2>1, <2>4, GrowsTrans
<1>3. ASSUME NEW p \in Procs, RotateResign(p) PROVE Goal
  <2>1. db' = db /\ work'.log = audit_resign_chain(work.log, loc[p].auth.kek)
    BY <1>0, <1>3 DEF RotateResign, Database
  <2>2. loc[p].auth.kek \in Nat
    BY <1>0 DEF Locals
  <2>3. /\ work'.log \in Seq(LogEntry)
        /\ Grows(work.log, work'.log) /\ Ratcheted(work'.log)
    BY <1>0, <2>1, <2>2, ResignLog, ResignType
  <2> QED
    BY <1>0, <2>1, <2>3, GrowsTrans
<1>4. ASSUME NEW p \in Procs, AppendRead(p) PROVE Goal
  <2> DEFINE e == AuditEntry(loc[p].last, loc[p].cnt, sess[p],
                             loc[p].act, loc[p].name, loc[p].ver)
  <2>1. db'.log = Append(db.log, e) /\ work'.log = db'.log
    BY <1>0, <1>4 DEF AppendRead, Database
  <2>2. loc[p].act \in Actions
    BY <1>0, <1>4 DEF AppendRead, Fit, Actions
  <2>3. e \in LogEntry /\ e.idx = loc[p].cnt
    BY <1>0, <2>2 DEF AuditEntry, LogEntry, Locals
  <2>4. loc[p].cnt = Len(db.log)
    <3>1. /\ loc[p].nid \in 1..(Len(db.log) + 1) /\ loc[p].cnt \in (loc[p].nid - 1)..Len(db.log)
          /\ loc[p].nid \notin DOMAIN db.log
      BY <1>4 DEF AppendRead, EntryIdFree, AuditInv, Counted
    <3>2. DOMAIN db.log = 1..Len(db.log) /\ Len(db.log) \in Nat
      BY <1>0
    <3> QED
      BY <3>1, <3>2
  <2> HIDE DEF e
  <2>5. /\ Append(db.log, e) \in Seq(LogEntry)
        /\ Grows(db.log, Append(db.log, e)) /\ Ratcheted(Append(db.log, e))
    BY <1>0, <2>3, <2>4, AppendLog
  <2> QED
    BY <2>1, <2>5, GrowsRefl
<1>5. ASSUME NEW p \in Procs, Commit(p) PROVE Goal
  BY <1>0, <1>5 DEF Commit
<1>6. ASSUME NEW p \in Procs,
             \/ RotateAuth(p) \/ RotateRewrap(p) \/ RotateVerify(p) \/ Archive(p) \/ Insert(p)
             \/ Begin(p) \/ BeginFail(p) \/ TxnFail(p) \/ OpFail(p)
             \/ ReadBounds(p) \/ ReadLastHash(p) \/ ReadNextId(p) \/ ReadCount(p)
      PROVE  db' = db /\ (work'.log = work.log \/ work'.log = db'.log)
  BY <1>0, <1>6 DEF RotateAuth, RotateRewrap, RotateVerify, Archive, Insert, Begin,
    BeginFail, TxnFail, OpFail, ReadBounds, ReadLastHash, ReadNextId, ReadCount, Database
<1>7. ASSUME NEW p \in Procs,
             \/ \E pw \in Passwords : Unlock(p, pw)
             \/ Lock(p) \/ Crash(p) \/ StartOp(p)
      PROVE  db' = db /\ (work' = work \/ work' = db')
  BY <1>7 DEF Unlock, Lock, Crash, StartOp, PutFind, RollbackFind, DeleteFind, GetFind,
    RotateDerive
<1>8. CASE UNCHANGED vars
  BY <1>1, <1>8 DEF vars
<1>9. CASE Next
  <2>1. PICK p \in Procs : \/ \E pw \in Passwords : Unlock(p, pw)
                           \/ Lock(p) \/ Crash(p) \/ StartOp(p) \/ Step(p)
    BY <1>9 DEF Next
  <2>2. CASE Step(p)
    BY <1>1, <1>2, <1>3, <1>4, <1>5, <1>6, <2>2 DEF Step
  <2>3. CASE ~Step(p)
    BY <1>1, <1>7, <2>1, <2>3
  <2> QED
    BY <2>2, <2>3
<1> QED
  BY <1>8, <1>9

(* The reads of an append stay within the log as it grows. *)
LEMMA NextCounted ==
    ASSUME AuditInv, [Next]_vars, NEW q \in Procs
    PROVE  Counted(q)'
<1>0. /\ pc \in [Procs -> Steps] /\ loc \in [Procs -> Locals] /\ Counted(q)
      /\ db.log \in Seq(LogEntry) /\ TypeInv /\ TypeInv'
      /\ loc[q].nid \in Nat /\ loc[q].cnt \in Nat
  BY NextType DEF AuditInv, TypeInv, TypeOK, Database, Locals
<1>1. Len(db.log) \in Nat /\ Len(db'.log) \in Nat /\ Len(db.log) <= Len(db'.log)
  BY <1>0, NextLogs, SMTT(30) DEF Grows, TypeInv, TypeOK, Database
<1>2. ASSUME loc'[q] = loc[q], pc'[q] = pc[q] PROVE Counted(q)'
  BY <1>0, <1>1, <1>2 DEF Counted
<1>3. ASSUME pc'[q] \notin {"count", "append"} PROVE Counted(q)'
  BY <1>3 DEF Counted
<1>4. ASSUME ReadNextId(q) PROVE Counted(q)'
  BY <1>0, <1>1, <1>4 DEF ReadNextId, Goto, Counted, audit_next_entry_id, Locals
<1>5. ASSUME ReadCount(q) PROVE Counted(q)'
  BY <1>0, <1>1, <1>5 DEF ReadCount, Goto, Counted, audit_count_entries, Locals
<1>6. ASSUME \/ \E pw \in Passwords : Unlock(q, pw)
             \/ Lock(q) \/ Crash(q) \/ StartOp(q) \/ Step(q),
             ~ReadNextId(q), ~ReadCount(q)
      PROVE  pc'[q] \notin {"count", "append"}
  BY <1>0, <1>6 DEF Unlock, Lock, Crash, StartOp, PutFind, RollbackFind, DeleteFind,
    GetFind, RotateDerive, Step, ReadBounds, Begin, FirstTxnStep, BeginFail, Archive, Insert,
    RotateVerify, RotateRewrap, RotateAuth, RotateResign, LogInTxn, Commit, TxnFail,
    ReadLastHash, AppendRead, OpFail, Return, Goto
<1>7. CASE UNCHANGED vars
  BY <1>2, <1>7 DEF vars
<1>8. CASE Next
  BY <1>0, <1>2, <1>3, <1>4, <1>5, <1>6, <1>8, OthersStay DEF Next
<1> QED
  BY <1>7, <1>8

(* An operation runs with keys, and only LogInTxn leads to COMMIT. *)
LEMMA NextSess ==
    ASSUME AuditInv, [Next]_vars, NEW q \in Procs
    PROVE  /\ pc'[q] \notin {"closed", "idle"} => sess'[q] # 0
           /\ pc'[q] = "commit" => work'.log # <<>>
<1>0. /\ pc \in [Procs -> Steps] /\ sess \in [Procs -> Nat] /\ loc \in [Procs -> Locals]
      /\ work \in Database /\ work.log \in Seq(LogEntry) /\ TypeInv /\ NoTxnLeak
      /\ pc[q] \notin {"closed", "idle"} => sess[q] # 0
      /\ pc[q] = "commit" => work.log # <<>>
      /\ pc[q] \in TxnSteps <=> writer = q
  BY DEF AuditInv, TypeInv, TypeOK, Database, NoTxnLeak
<1>1. CASE UNCHANGED vars
  BY <1>0, <1>1 DEF vars
<1>2. ASSUME NEW p \in Procs, p # q,
             \/ \E pw \in Passwords : Unlock(p, pw)
             \/ Lock(p) \/ Crash(p) \/ StartOp(p) \/ Step(p)
      PROVE  /\ pc'[q] \notin {"closed", "idle"} => sess'[q] # 0
             /\ pc'[q] = "commit" => work'.log # <<>>
  <2>1. loc'[q] = loc[q] /\ pc'[q] = pc[q] /\ sess'[q] = sess[q]
    BY <1>0, <1>2, OthersStay
  <2>2. ASSUME pc[q] = "commit" PROVE work' = work
    <3>1. writer = q /\ writer # p /\ pc[p] \notin TxnSteps
      BY <1>0, <1>2, <2>2 DEF NoTxnLeak, TxnSteps
    <3>2. writer # None
      BY <3>1, VaultAssumption
    <3> QED
      BY <1>2, <3>1, <3>2 DEF Unlock, Lock, Crash, StartOp, PutFind, RollbackFind,
        DeleteFind, GetFind, RotateDerive, Step, ReadBounds, Begin, BeginFail, Archive,
        Insert, RotateVerify, RotateRewrap, RotateAuth, RotateResign, LogInTxn, Commit,
        TxnFail, ReadLastHash, ReadNextId, ReadCount, AppendRead, OpFail, TxnSteps
  <2> QED
    BY <1>0, <2>1, <2>2
<1>3. ASSUME \/ \E pw \in Passwords : Unlock(q, pw)
             \/ Lock(q) \/ Crash(q) \/ BeginFail(q) \/ Commit(q) \/ TxnFail(q)
             \/ AppendRead(q) \/ OpFail(q)
      PROVE  pc'[q] \in {"closed", "idle"}
  BY <1>0, <1>3 DEF Unlock, Lock, Crash, BeginFail, Commit, TxnFail, AppendRead, OpFail,
    Return, Goto
<1>4. ASSUME StartOp(q) PROVE sess'[q] # 0 /\ pc'[q] # "commit"
  BY <1>0, <1>4 DEF StartOp, PutFind, RollbackFind, DeleteFind, GetFind, RotateDerive,
    MayStart, Goto
<1>5. ASSUME ReadBounds(q) \/ ReadLastHash(q) \/ ReadNextId(q) \/ ReadCount(q) \/ Begin(q)
             \/ Archive(q) \/ Insert(q) \/ RotateVerify(q) \/ RotateRewrap(q)
             \/ RotateAuth(q) \/ RotateResign(q)
      PROVE  sess'[q] # 0 /\ pc'[q] # "commit"
  BY <1>0, <1>5 DEF ReadBounds, ReadLastHash, ReadNextId, ReadCount, Begin, FirstTxnStep,
    Archive, Insert, RotateVerify, RotateRewrap, RotateAuth, RotateResign, Return, Goto
<1>6. ASSUME LogInTxn(q) PROVE sess'[q] # 0 /\ work'.log # <<>>
  <2>1. sess'[q] # 0
    BY <1>0, <1>6 DEF LogInTxn
  <2>2. work'.log = audit_log_event(work.log, SigningKey(q), loc[q].act, loc[q].name, loc[q].ver)
    BY <1>0, <1>6 DEF LogInTxn, Database
  <2> QED
    BY <1>0, <2>1, <2>2 DEF audit_log_event
<1>7. CASE Next
  <2>1. PICK p \in Procs : \/ \E pw \in Passwords : Unlock(p, pw)
                           \/ Lock(p) \/ Crash(p) \/ StartOp(p) \/ Step(p)
    BY <1>7 DEF Next
  <2>2. CASE p = q
    BY <1>3, <1>4, <1>5, <1>6, <2>1, <2>2 DEF Step
  <2> QED
    BY <1>2, <2>1, <2>2
<1> QED
  BY <1>1, <1>7

(* The first signature, and the sessions of a vault never logged to. *)
LEMMA NextFirst ==
    ASSUME AuditInv, [Next]_vars
    PROVE  /\ FirstSigned(db')
           /\ db'.log = <<>> => \A p \in Procs : sess'[p] \in {0, db'.auth.kek}
<1>0. /\ pc \in [Procs -> Steps] /\ sess \in [Procs -> Nat] /\ loc \in [Procs -> Locals]
      /\ db \in Database /\ db.log \in Seq(LogEntry) /\ TypeInv /\ FirstSigned(db)
      /\ work \in Database /\ work.log \in Seq(LogEntry)
      /\ db.log = <<>> => \A p \in Procs : sess[p] \in {0, db.auth.kek}
      /\ \A p \in Procs : /\ pc[p] \notin {"closed", "idle"} => sess[p] # 0
                          /\ pc[p] = "commit" => work.log # <<>>
                          /\ Rotating(p) /\ Fit(pc[p], loc[p]) /\ loc[p] \in Locals
  BY DEF AuditInv, TypeInv, TypeOK, Database
<1>1. ASSUME NEW p \in Procs, AppendRead(p)
      PROVE  FirstSigned(db') /\ db'.log # <<>>
  <2> DEFINE e == AuditEntry(loc[p].last, loc[p].cnt, sess[p],
                             loc[p].act, loc[p].name, loc[p].ver)
  <2>1. db'.log = Append(db.log, e) /\ db'.auth = db.auth
    BY <1>0, <1>1 DEF AppendRead, Database
  <2>2. loc[p].act \in Actions /\ sess[p] # 0 /\ sess[p] \in Nat
    BY <1>0, <1>1 DEF AppendRead, Fit, Actions
  <2>3. e \in LogEntry /\ e.key = sess[p]
    BY <1>0, <2>2 DEF AuditEntry, LogEntry, Locals
  <2> HIDE DEF e
  <2>4. /\ Append(db.log, e) # <<>>
        /\ db.log # <<>> => Append(db.log, e)[1] = db.log[1]
        /\ db.log = <<>> => Append(db.log, e)[1] = e
    BY <1>0, <2>3, AppendLog, SMTT(30)
  <2> QED
    BY <1>0, <2>1, <2>2, <2>3, <2>4 DEF FirstSigned
<1>2. ASSUME NEW p \in Procs, Commit(p)
      PROVE  FirstSigned(db') /\ db'.log # <<>>
  <2>1. db' = work /\ pc[p] = "commit" /\ work.log # <<>>
    BY <1>0, <1>2 DEF Commit
  <2>2. FirstSigned(work)
    <3>1. CASE InRotation(p)
      <4>1. audit_verify_chain(work.log, loc[p].auth.kek) /\ work.auth = loc[p].auth
        BY <1>0, <2>1, <3>1 DEF Rotating
      <4>2. 1 \in DOMAIN work.log
        BY <1>0, <2>1
      <4> QED
        BY <4>1, <4>2 DEF FirstSigned, audit_verify_chain
    <3>2. CASE ~InRotation(p)
      BY <1>0, <2>1, <3>2 DEF Rotating, TxnSteps
    <3> QED
      BY <3>1, <3>2
  <2> QED
    BY <2>1, <2>2
<1>3. CASE \A p \in Procs : ~AppendRead(p) /\ ~Commit(p)
  BY <1>0, <1>3, DbWriters
<1> QED
  BY <1>1, <1>2, <1>3

(* The progress of a rotation, one case per statement. *)
LEMMA NextRotating ==
    ASSUME AuditInv, [Next]_vars, NEW q \in Procs
    PROVE  Rotating(q)'
<1>0. /\ pc \in [Procs -> Steps] /\ sess \in [Procs -> Nat] /\ loc \in [Procs -> Locals]
      /\ db \in Database /\ db.log \in Seq(LogEntry)
      /\ work \in Database /\ work.log \in Seq(LogEntry) /\ work.rows \in SUBSET Row
      /\ TypeInv /\ TypeInv' /\ NoTxnLeak /\ FirstSigned(db) /\ Grows(db.log, work.log)
      /\ db.log = <<>> => sess[q] \in {0, db.auth.kek}
      /\ pc[q] \notin {"closed", "idle"} => sess[q] # 0
      /\ Rotating(q) /\ Fit(pc[q], loc[q]) /\ loc[q] \in Locals
      /\ sess[q] \in Nat /\ loc[q].auth.kek \in Nat
  BY NextType DEF AuditInv, TypeInv, TypeOK, Database, Locals
<1>1. ASSUME pc'[q] \notin TxnSteps PROVE Rotating(q)'
  BY <1>1 DEF Rotating, InRotation, TxnSteps
<1>2. ASSUME pc'[q] = pc[q], loc'[q] = loc[q], sess'[q] = sess[q], db' = db, work' = work
      PROVE  Rotating(q)'
  BY <1>0, <1>2 DEF Rotating, InRotation
<1>3. ASSUME Begin(q) PROVE Rotating(q)'
  <2>1. /\ work = db /\ work' = work /\ db' = db /\ loc' = loc /\ sess' = sess
        /\ pc'[q] = FirstTxnStep(loc[q])
    BY <1>0, <1>3 DEF Begin, Goto, NoTxnLeak
  <2>2. /\ loc[q].act = "ROTATE_KEK" => pc'[q] = "verify"
        /\ loc[q].act # "ROTATE_KEK" => pc'[q] \in {"insert", "archive"}
    BY <2>1 DEF FirstTxnStep
  <2> QED
    BY <1>0, <2>1, <2>2 DEF Rotating, InRotation
<1>4. ASSUME Archive(q) \/ Insert(q) PROVE Rotating(q)'
  <2>1. /\ loc[q].act # "ROTATE_KEK" /\ pc[q] \in TxnSteps /\ pc'[q] \in {"insert", "log"}
        /\ db' = db /\ loc' = loc /\ sess' = sess
    BY <1>0, <1>4 DEF Archive, Insert, Goto, Fit, TxnSteps, Writers
  <2>2. work'.auth = work.auth /\ work'.log = work.log
    BY <1>0, <1>4 DEF Archive, Insert, Database
  <2> QED
    BY <1>0, <2>1, <2>2 DEF Rotating, InRotation, FirstSigned
<1>5. ASSUME RotateVerify(q) PROVE Rotating(q)'
  <2>1. /\ loc[q].act = "ROTATE_KEK" /\ pc[q] = "verify" /\ pc'[q] = "rewrap"
        /\ db' = db /\ work' = work /\ loc' = loc /\ sess' = sess
        /\ audit_verify_chain(work.log, sess[q])
    BY <1>0, <1>5 DEF RotateVerify, Goto, Fit
  <2>2. work.log = db.log /\ work.auth = db.auth
    BY <1>0, <2>1 DEF Rotating
  <2>3. sess[q] = db.auth.kek
    <3>1. CASE db.log = <<>>
      BY <1>0, <2>1, <3>1
    <3>2. CASE db.log # <<>>
      <4>1. 1 \in DOMAIN db.log
        BY <1>0, <3>2
      <4> QED
        BY <1>0, <2>1, <2>2, <3>2, <4>1 DEF audit_verify_chain, FirstSigned
    <3> QED
      BY <3>1, <3>2
  <2> QED
    BY <2>1, <2>2, <2>3 DEF Rotating, InRotation, TxnSteps
<1>6. ASSUME RotateRewrap(q) PROVE Rotating(q)'
  <2>1. /\ loc[q].act = "ROTATE_KEK" /\ pc[q] = "rewrap" /\ pc'[q] = "auth"
        /\ db' = db /\ loc' = loc /\ sess' = sess
    BY <1>0, <1>6 DEF RotateRewrap, Goto, Fit
  <2>2. /\ work'.log = work.log /\ work'.auth = work.auth
        /\ work'.rows = RewrapRows(work.rows, loc[q].auth.kek)
    BY <1>0, <1>6 DEF RotateRewrap, Database
  <2>3. \A r \in work'.rows : r.kek = loc[q].auth.kek
    BY <1>0, <2>2 DEF RewrapRows, Rewrapped, Row
  <2>4. work.auth = db.auth /\ work.log = db.log /\ sess[q] = db.auth.kek
    BY <1>0, <2>1 DEF Rotating, InRotation, TxnSteps
  <2> QED
    BY <2>1, <2>2, <2>3, <2>4 DEF Rotating, InRotation, TxnSteps
<1>7. ASSUME RotateAuth(q) PROVE Rotating(q)'
  <2>1. /\ loc[q].act = "ROTATE_KEK" /\ pc[q] = "auth" /\ pc'[q] = "resign"
        /\ db' = db /\ loc' = loc /\ sess' = sess
    BY <1>0, <1>7 DEF RotateAuth, Goto, Fit
  <2>2. work'.rows = work.rows /\ work'.auth = loc[q].auth
    BY <1>0, <1>7 DEF RotateAuth, Database
  <2>3. sess[q] = db.auth.kek /\ \A r \in work.rows : r.kek = loc[q].auth.kek
    BY <1>0, <2>1 DEF Rotating, InRotation, TxnSteps
  <2> QED
    BY <2>1, <2>2, <2>3 DEF Rotating, InRotation, TxnSteps
<1>8. ASSUME RotateResign(q) PROVE Rotating(q)'
  <2>1. /\ loc[q].act = "ROTATE_KEK" /\ pc[q] = "resign" /\ pc'[q] = "log"
        /\ db' = db /\ loc' = loc /\ sess' = sess /\ ChainLinked(work.log)
    BY <1>0, <1>8 DEF RotateResign, Goto, Fit
  <2>2. /\ work'.rows = work.rows /\ work'.auth = work.auth
        /\ work'.log = audit_resign_chain(work.log, loc[q].auth.kek)
    BY <1>0, <1>8 DEF RotateResign, Database
  <2>3. /\ sess[q] = db.auth.kek /\ work.auth = loc[q].auth
        /\ \A r \in work.rows : r.kek = loc[q].auth.kek
    BY <1>0, <2>1 DEF Rotating, InRotation, TxnSteps
  <2>4. audit_verify_chain(work'.log, loc[q].auth.kek)
    BY <1>0, <2>1, <2>2, ResignLog
  <2> QED
    BY <2>1, <2>2, <2>3, <2>4 DEF Rotating, InRotation, TxnSteps
<1>9. ASSUME LogInTxn(q) PROVE Rotating(q)'
  <2> DEFINE new == audit_log_event(work.log, SigningKey(q), loc[q].act, loc[q].name, loc[q].ver)
  <2>1. /\ pc[q] = "log" /\ pc'[q] = "commit" /\ db' = db /\ loc' = loc /\ sess' = sess
    BY <1>0, <1>9 DEF LogInTxn, Goto
  <2>2. work'.rows = work.rows /\ work'.auth = work.auth /\ work'.log = new
    BY <1>0, <1>9 DEF LogInTxn, Database
  <2>3. new \in Seq(LogEntry)
    BY <1>0, <2>2 DEF TypeInv, TypeOK, Database
  <2>4. CASE loc[q].act = "ROTATE_KEK"
    <3>1. /\ sess[q] = db.auth.kek /\ work.auth = loc[q].auth
          /\ \A r \in work.rows : r.kek = loc[q].auth.kek
          /\ audit_verify_chain(work.log, loc[q].auth.kek)
      BY <1>0, <2>1, <2>4 DEF Rotating, InRotation, TxnSteps
    <3>2. audit_verify_chain(new, loc[q].auth.kek)
      BY <1>0, <2>3, <2>4, <3>1, LogVerifies DEF SigningKey
    <3> HIDE DEF new
    <3> QED
      BY <2>1, <2>2, <2>4, <3>1, <3>2 DEF Rotating, InRotation, TxnSteps
  <2>5. CASE loc[q].act # "ROTATE_KEK"
    <3> DEFINE e == AuditEntry(Len(work.log), Len(work.log), sess[q],
                               loc[q].act, loc[q].name, loc[q].ver)
    <3>1. work.auth = db.auth /\ FirstSigned(work)
      BY <1>0, <2>1, <2>5 DEF Rotating, InRotation, TxnSteps
    <3>2. new = Append(work.log, e)
      BY <2>5 DEF audit_log_event, audit_get_last_hash, audit_count_entries, SigningKey
    <3>3. e \in LogEntry /\ e.key = sess[q]
      <4>1. loc[q].act \in Actions /\ Len(work.log) \in Nat
        BY <1>0, <2>1 DEF Fit, TxnSteps
      <4> QED
        BY <1>0, <4>1 DEF AuditEntry, LogEntry, Locals
    <3>4. /\ work.log # <<>> => Append(work.log, e)[1] = work.log[1]
          /\ work.log = <<>> => Append(work.log, e)[1] = e
      <4> HIDE DEF e
      <4> QED
        BY <1>0, <3>3, AppendLog
    <3>5. work.log = <<>> => db.log = <<>>
      BY <1>0 DEF Grows
    <3>6. work.log = <<>> => sess[q] = db.auth.kek
      BY <1>0, <2>1, <3>5
    <3> HIDE DEF new, e
    <3>7. FirstSigned(work')
      BY <2>2, <3>1, <3>2, <3>3, <3>4, <3>6 DEF FirstSigned
    <3> QED
      BY <2>1, <2>2, <2>5, <3>1, <3>7 DEF Rotating, InRotation, TxnSteps
  <2> QED
    BY <2>4, <2>5
<1>10. ASSUME \/ \E pw \in Passwords : Unlock(q, pw)
              \/ Lock(q) \/ Crash(q) \/ StartOp(q) \/ ReadBounds(q) \/ BeginFail(q)
              \/ Commit(q) \/ TxnFail(q) \/ ReadLastHash(q) \/ ReadNextId(q) \/ ReadCount(q)
              \/ AppendRead(q) \/ OpFail(q)
       PROVE  pc'[q] \notin TxnSteps
  BY <1>0, <1>10 DEF Unlock, Lock, Crash, StartOp, PutFind, RollbackFind, DeleteFind,
    GetFind, RotateDerive, ReadBounds, BeginFail, Commit, TxnFail, ReadLastHash,
    ReadNextId, ReadCount, AppendRead, OpFail, Return, Goto, TxnSteps
<1>11. CASE UNCHANGED vars
  BY <1>2, <1>11 DEF vars
<1>12. CASE Next
  <2>1. PICK p \in Procs : \/ \E pw \in Passwords : Unlock(p, pw)
                           \/ Lock(p) \/ Crash(p) \/ StartOp(p) \/ Step(p)
    BY <1>12 DEF Next
  <2>2. CASE p = q
    BY <1>1, <1>3, <1>4, <1>5, <1>6, <1>7, <1>8, <1>9, <1>10, <2>1, <2>2 DEF Step
  <2>3. CASE p # q
    <3>1. loc'[q] = loc[q] /\ pc'[q] = pc[q] /\ sess'[q] = sess[q]
      BY <1>0, <2>1, <2>3, OthersStay
    <3>2. pc[q] \in TxnSteps => db' = db /\ work' = work
      BY <1>0, <2>1, <2>3, WriterAlone
    <3> QED
      BY <1>1, <1>2, <3>1, <3>2
  <2> QED
    BY <2>2, <2>3
<1> QED
  BY <1>11, <1>12

(* Every step keeps the invariant on the audit log. *)
LEMMA NextAudit == AuditInv /\ [Next]_vars => AuditInv'
<1> SUFFICES ASSUME AuditInv, [Next]_vars PROVE AuditInv'
  OBVIOUS
<1>1. TypeInv' /\ NoTxnLeak'
  BY NextType, NextLeak DEF AuditInv
<1> QED
  BY <1>1, NextLogs, NextFirst, NextSess, NextCounted, NextRotating DEF AuditInv

(* The invariant on the audit log holds in every behaviour. *)
LEMMA AuditInvariant == Spec => []AuditInv
  BY InitAudit, NextAudit, PTL DEF Spec

-----------------------------------------------------------------------------
(* Results *)

(* Entry i is signed with the key ratcheted i - 1 times whatever happens    *)
(* between the COUNT and the INSERT of a READ (audit.c:191, 1086).          *)
THEOREM RatchetIndexHolds == Spec => []RatchetIndex
<1>1. AuditInv => RatchetIndex
  <2> SUFFICES ASSUME AuditInv PROVE RatchetIndex
    OBVIOUS
  <2>1. DOMAIN db.log = 1..Len(db.log)
    BY DEF AuditInv, TypeInv, TypeOK, Database
  <2> QED
    BY <2>1 DEF AuditInv, Ratcheted, RatchetIndex
<1> QED
  BY <1>1, AuditInvariant, PTL

(* No committed entry is ever removed, moved or changed, rotation included. *)
THEOREM AuditAppendOnlyHolds == Spec => AuditAppendOnly
<1>1. AuditInv /\ [Next]_vars =>
        [/\ Len(db'.log) >= Len(db.log)
         /\ \A i \in DOMAIN db.log :
              LET old == db.log[i]  new == db'.log[i] IN
              /\ new.prev = old.prev /\ new.act = old.act
              /\ new.tgt = old.tgt /\ new.ver = old.ver]_db
  <2> SUFFICES ASSUME AuditInv, [Next]_vars
               PROVE  /\ Len(db'.log) >= Len(db.log)
                      /\ \A i \in DOMAIN db.log :
                           LET old == db.log[i]  new == db'.log[i] IN
                           /\ new.prev = old.prev /\ new.act = old.act
                           /\ new.tgt = old.tgt /\ new.ver = old.ver
    OBVIOUS
  <2>1. DOMAIN db.log = 1..Len(db.log) /\ Len(db.log) \in Nat /\ Len(db'.log) \in Nat
    BY NextType DEF AuditInv, TypeInv, TypeOK, Database
  <2> QED
    BY <2>1, NextLogs DEF Grows
<1> QED
  BY <1>1, AuditInvariant, PTL DEF Spec, AuditAppendOnly

(* When the stored credentials change, one commit has put every DEK and     *)
(* every signature under the new key (vault.c:2966-3014).                   *)
THEOREM RotationTotalHolds == Spec => RotationTotal
<1>1. AuditInv /\ [Next]_vars =>
        [db'.auth # db.auth =>
           /\ \A r \in db'.rows : r.kek = db'.auth.kek
           /\ audit_verify_chain(db'.log, db'.auth.kek)]_db
  <2> SUFFICES ASSUME AuditInv, [Next]_vars, db'.auth # db.auth
               PROVE  /\ \A r \in db'.rows : r.kek = db'.auth.kek
                      /\ audit_verify_chain(db'.log, db'.auth.kek)
    OBVIOUS
  <2>1. \A p \in Procs : AppendRead(p) => db'.auth = db.auth
    BY DEF AppendRead, AuditInv, TypeInv, TypeOK, Database
  <2>2. PICK p \in Procs : Commit(p)
    BY <2>1, DbWriters DEF AuditInv
  <2>3. db' = work /\ pc[p] = "commit" /\ Rotating(p)
    BY <2>2 DEF Commit, AuditInv
  <2>4. InRotation(p)
    BY <2>3 DEF Rotating, TxnSteps
  <2> QED
    BY <2>3, <2>4 DEF Rotating
<1> QED
  BY <1>1, AuditInvariant, PTL DEF Spec, RotationTotal

(* Only a session that holds the current keys ever replaces them: one left  *)
(* behind by another process's rotation is refused (vault.c:2971).          *)
THEOREM OnlyCurrentRotatesHolds == Spec => OnlyCurrentRotates
<1>1. AuditInv /\ [Next]_vars =>
        [db'.auth # db.auth =>
           \E p \in Procs : /\ sess[p] = db.auth.kek
                            /\ sess'[p] = db'.auth.kek]_<<db, sess>>
  <2> SUFFICES ASSUME AuditInv, [Next]_vars, db'.auth # db.auth
               PROVE  \E p \in Procs : /\ sess[p] = db.auth.kek
                                       /\ sess'[p] = db'.auth.kek
    OBVIOUS
  <2>1. \A p \in Procs : AppendRead(p) => db'.auth = db.auth
    BY DEF AppendRead, AuditInv, TypeInv, TypeOK, Database
  <2>2. PICK p \in Procs : Commit(p)
    BY <2>1, DbWriters DEF AuditInv
  <2>3. db' = work /\ pc[p] = "commit" /\ Rotating(p) /\ sess \in [Procs -> Nat]
    BY <2>2 DEF Commit, AuditInv, TypeInv, TypeOK
  <2>4. InRotation(p)
    BY <2>3 DEF Rotating, TxnSteps
  <2>5. sess[p] = db.auth.kek /\ work.auth = loc[p].auth
    BY <2>3, <2>4 DEF Rotating
  <2>6. sess'[p] = loc[p].auth.kek
    BY <2>2, <2>3, <2>4 DEF Commit, KeysAfter, InRotation
  <2> QED
    BY <2>3, <2>5, <2>6
<1> QED
  BY <1>1, AuditInvariant, PTL DEF Spec, OnlyCurrentRotates

-----------------------------------------------------------------------------
(* Reads *)

(* A stored version stays stored in every table that carries it. *)
LEMMA StoredMono ==
    ASSUME NEW A, NEW B, Carries(A, B), NEW n, NEW v, NEW x, Stored(A, n, v, x)
    PROVE  Stored(B, n, v, x)
  BY DEF Stored, Carries, RowsOf

(* The version a reader decrypted stays stored until the READ is logged. *)
LEMMA NextHeld ==
    ASSUME ReadInv, [Next]_vars, NEW q \in Procs
    PROVE  Held(q)'
<1>0. /\ pc \in [Procs -> Steps] /\ loc \in [Procs -> Locals] /\ loc[q] \in Locals
      /\ TypeInv /\ Held(q) /\ Carries(db.rows, db'.rows)
  BY NextRows DEF ReadInv, TableInv, TypeInv, TypeOK
<1>1. ASSUME pc[q] \in {"last", "next", "count", "append"},
             loc'[q].name = loc[q].name, loc'[q].ver = loc[q].ver, loc'[q].val = loc[q].val
      PROVE  Held(q)'
  BY <1>0, <1>1, StoredMono DEF Held
<1>2. ASSUME pc'[q] \notin {"last", "next", "count", "append"} PROVE Held(q)'
  BY <1>2 DEF Held
<1>3. ASSUME ReadLastHash(q) \/ ReadNextId(q) \/ ReadCount(q) PROVE Held(q)'
  <2>1. /\ pc[q] \in {"last", "next", "count", "append"}
        /\ loc'[q].name = loc[q].name /\ loc'[q].ver = loc[q].ver /\ loc'[q].val = loc[q].val
    BY <1>0, <1>3 DEF ReadLastHash, ReadNextId, ReadCount, Locals
  <2> QED
    BY <1>1, <2>1
<1>4. ASSUME NEW n \in Names, NEW r \in db.rows, GetFind(q, n, r) PROVE Held(q)'
  <2>1. /\ r \in RowsOf(db.rows, n) /\ db' = db
        /\ loc'[q].name = n /\ loc'[q].ver = r.ver /\ loc'[q].val = r.val
    BY <1>0, <1>4 DEF GetFind, Call
  <2> QED
    BY <2>1 DEF Held, Stored
<1>5. ASSUME \/ \E pw \in Passwords : Unlock(q, pw)
             \/ Lock(q) \/ Crash(q) \/ Step(q)
             \/ (\E n \in Names, v \in Values : PutFind(q, n, v))
             \/ (\E n \in Names, r \in db.rows : RollbackFind(q, n, r) \/ DeleteFind(q, n, r))
             \/ (\E pw \in Passwords : RotateDerive(q, pw)),
             ~ReadLastHash(q), ~ReadNextId(q), ~ReadCount(q)
      PROVE  pc'[q] \notin {"last", "next", "count", "append"}
  BY <1>0, <1>5 DEF Unlock, Lock, Crash, PutFind, RollbackFind, DeleteFind,
    RotateDerive, Step, ReadBounds, Begin, FirstTxnStep, BeginFail, Archive, Insert,
    RotateVerify, RotateRewrap, RotateAuth, RotateResign, LogInTxn, Commit, TxnFail,
    AppendRead, OpFail, Return, Goto
<1>6. CASE UNCHANGED vars
  BY <1>0, <1>6 DEF vars, Held
<1>7. CASE Next
  <2>1. PICK p \in Procs : \/ \E pw \in Passwords : Unlock(p, pw)
                           \/ Lock(p) \/ Crash(p) \/ StartOp(p) \/ Step(p)
    BY <1>7 DEF Next
  <2>2. CASE p = q
    BY <1>2, <1>3, <1>4, <1>5, <2>1, <2>2 DEF StartOp
  <2>3. CASE p # q
    <3>1. loc'[q] = loc[q] /\ pc'[q] = pc[q]
      BY <1>0, <2>1, <2>3, OthersStay
    <3> QED
      BY <1>1, <1>2, <3>1
  <2> QED
    BY <2>2, <2>3
<1> QED
  BY <1>6, <1>7

(* What was returned stays in the log and in the table; AppendRead returns  *)
(* a plaintext together with its entry.                                     *)
LEMMA NextReads ==
    ASSUME ReadInv, [Next]_vars
    PROVE  ReadsAudited'
<1>0. /\ loc \in [Procs -> Locals] /\ TypeInv /\ TypeInv'
      /\ db \in Database /\ db.log \in Seq(LogEntry) /\ db'.log \in Seq(LogEntry)
      /\ Carries(db.rows, db'.rows) /\ Grows(db.log, db'.log) /\ ReadsAudited
  BY NextType, NextRows, NextLogs DEF ReadInv, TableInv, TypeInv, TypeOK, Database
<1>1. /\ DOMAIN db.log = 1..Len(db.log) /\ DOMAIN db'.log = 1..Len(db'.log)
      /\ Len(db.log) \in Nat /\ Len(db'.log) \in Nat
  BY <1>0
<1> DEFINE Logged(log, x) ==
             \E i \in 1..Len(log) :
                log[i].act = "READ" /\ log[i].tgt = x.name /\ log[i].ver = x.ver
<1>2. SUFFICES ASSUME NEW x \in returned'
               PROVE  Logged(db'.log, x) /\ Stored(db'.rows, x.name, x.ver, x.val)
  BY <1>1 DEF ReadsAudited, Stored
<1>3. CASE x \in returned
  <2>1. Logged(db.log, x) /\ Stored(db.rows, x.name, x.ver, x.val)
    BY <1>0, <1>1, <1>3 DEF ReadsAudited, Stored
  <2>2. Stored(db'.rows, x.name, x.ver, x.val)
    BY <1>0, <2>1, StoredMono
  <2>3. Logged(db'.log, x)
    BY <1>0, <1>1, <2>1 DEF Grows
  <2> QED
    BY <2>2, <2>3
<1>4. CASE x \notin returned
  <2>1. PICK p \in Procs : AppendRead(p)
    <3>1. returned' # returned
      BY <1>2, <1>4
    <3>2. PICK p \in Procs : \/ \E pw \in Passwords : Unlock(p, pw)
                             \/ Lock(p) \/ Crash(p) \/ StartOp(p) \/ Step(p)
      BY <3>1 DEF Next, vars
    <3>3. Step(p)
      BY <3>1, <3>2 DEF Unlock, Lock, Crash, StartOp, PutFind, RollbackFind, DeleteFind,
        GetFind, RotateDerive
    <3> QED
      BY <3>1, <3>3 DEF Step, ReadBounds, Begin, BeginFail, Archive, Insert,
        RotateVerify, RotateRewrap, RotateAuth, RotateResign, LogInTxn, Commit, TxnFail,
        ReadLastHash, ReadNextId, ReadCount, OpFail
  <2> DEFINE l == loc[p]
             e == AuditEntry(l.last, l.cnt, sess[p], l.act, l.name, l.ver)
  <2>2. /\ pc[p] = "append" /\ db'.log = Append(db.log, e) /\ db'.rows = db.rows
        /\ returned' = returned \cup {[name |-> l.name, ver |-> l.ver, val |-> l.val]}
    BY <1>0, <2>1 DEF AppendRead, Database
  <2>3. l.act = "READ" /\ Stored(db.rows, l.name, l.ver, l.val)
    BY <1>0, <2>2 DEF ReadInv, Held, TypeInv, Fit
  <2>4. x.name = l.name /\ x.ver = l.ver /\ x.val = l.val
    BY <1>4, <2>2
  <2>5. e.act = "READ" /\ e.tgt = l.name /\ e.ver = l.ver
    BY <2>3 DEF AuditEntry
  <2> HIDE DEF e, l
  <2>6. db'.log[Len(db.log) + 1] = e /\ Len(db'.log) = Len(db.log) + 1
    BY <1>0, <2>2
  <2>7. Logged(db'.log, x)
    <3>1. Len(db.log) + 1 \in 1..Len(db'.log)
      BY <1>1, <2>6
    <3> QED
      BY <2>4, <2>5, <2>6, <3>1
  <2> QED
    BY <2>2, <2>3, <2>4, <2>7
<1> QED
  BY <1>3, <1>4

(* However reads, writes, rotations and crashes interleave, a plaintext     *)
(* reaches a caller only once the READ of its version is in the log, and it *)
(* is the value stored as that version (vault.c:1474).                      *)
THEOREM ReadsAuditedHolds == Spec => []ReadsAudited
<1>1. Init => ReadInv
  <2> SUFFICES ASSUME Init PROVE ReadInv
    OBVIOUS
  <2>1. ReadsAudited /\ \A p \in Procs : pc[p] = "closed"
    BY DEF Init, ReadsAudited
  <2> QED
    BY <2>1, InitTable, InitAudit DEF ReadInv, Held
<1>2. ReadInv /\ [Next]_vars => ReadInv'
  BY NextTable, NextAudit, NextHeld, NextReads DEF ReadInv
<1>3. ReadInv => ReadsAudited
  BY DEF ReadInv
<1> QED
  BY <1>1, <1>2, <1>3, PTL DEF Spec

-----------------------------------------------------------------------------
(* The log replayed *)

(* The mutations of n are those of the log it grew from, unless n itself    *)
(* was mutated since.                                                       *)
LEMMA SameMutations ==
    ASSUME NEW log \in Seq(LogEntry), NEW new \in Seq(LogEntry), Grows(log, new), NEW n,
           \A i \in 1..Len(new) : i > Len(log) => i \notin Mutations(new, n)
    PROVE  Mutations(new, n) = Mutations(log, n)
<1>1. /\ DOMAIN log = 1..Len(log) /\ DOMAIN new = 1..Len(new)
      /\ Len(log) \in Nat /\ Len(new) \in Nat /\ Len(log) <= Len(new)
  BY DEF Grows
<1>2. ASSUME NEW i \in Mutations(new, n) PROVE i \in Mutations(log, n)
  <2>1. i \in 1..Len(log) /\ new[i].tgt = n /\ new[i].act \in Creations \cup {"DELETE"}
    BY <1>1, <1>2 DEF Mutations
  <2> QED
    BY <1>1, <2>1 DEF Mutations, Grows
<1>3. ASSUME NEW i \in Mutations(log, n) PROVE i \in Mutations(new, n)
  <2>1. /\ i \in 1..Len(log) /\ i \in 1..Len(new)
        /\ log[i].tgt = n /\ log[i].act \in Creations \cup {"DELETE"}
    BY <1>1, <1>3 DEF Mutations
  <2> QED
    BY <1>1, <2>1 DEF Mutations, Grows
<1> QED
  BY <1>2, <1>3

(* Entries about other names, and new signatures, leave the replay of n. *)
LEMMA ReplayLog ==
    ASSUME NEW log \in Seq(LogEntry), NEW new \in Seq(LogEntry), Grows(log, new), NEW n,
           \A i \in 1..Len(new) : i > Len(log) => i \notin Mutations(new, n),
           NEW rows, Replays(rows, log, n)
    PROVE  Replays(rows, new, n)
<1>1. Mutations(new, n) = Mutations(log, n)
  BY SameMutations
<1>2. /\ DOMAIN log = 1..Len(log) /\ Len(log) \in Nat /\ Len(new) \in Nat
      /\ Len(log) <= Len(new)
  BY DEF Grows
<1>3. RowsOf(rows, n) # {} => \E i \in 1..Len(new) : LastMutation(new, n, i)
  BY <1>1, <1>2 DEF Replays, LastMutation
<1>4. ASSUME NEW i \in 1..Len(new), LastMutation(new, n, i)
      PROVE  Tells(rows, n, new[i].act, new[i].ver)
  <2>1. LastMutation(log, n, i) /\ i \in 1..Len(log)
    BY <1>1, <1>2, <1>4 DEF LastMutation, Mutations
  <2>2. new[i].act = log[i].act /\ new[i].ver = log[i].ver
    BY <2>1 DEF Grows
  <2> QED
    BY <2>1, <2>2 DEF Replays
<1> QED
  BY <1>3, <1>4 DEF Replays

(* Every row of A and B that counts for the replay of n is in both. *)
Alike(A, B, n) ==
    /\ RowsOf(B, n) # {} => RowsOf(A, n) # {}
    /\ \A r \in Unarchived(A, n) : \E q \in Unarchived(B, n) : q.ver = r.ver
    /\ \A q \in Unarchived(B, n) : \E r \in Unarchived(A, n) : q.ver = r.ver

(* A table alike in n replays alike. *)
LEMMA ReplayRows ==
    ASSUME NEW A, NEW B, NEW log, NEW n, Alike(A, B, n), Replays(A, log, n)
    PROVE  Replays(B, log, n)
  BY DEF Alike, Replays, Tells

(* Archiving, inserting and rewrapping, as the replay of other names (or,   *)
(* for a rotation, of any name) sees them.                                  *)
LEMMA AlikeArchive ==
    ASSUME NEW rows \in SUBSET Row, NEW m, NEW n, n # m
    PROVE  Alike(rows, ArchiveRows(rows, m), n)
<1>1. RowsOf(ArchiveRows(rows, m), n) = RowsOf(rows, n)
  BY DEF RowsOf, ArchiveRows, Row
<1> QED
  BY <1>1 DEF Alike, Unarchived

(* The same for an INSERT. *)
LEMMA AlikeInsert ==
    ASSUME NEW rows, NEW x, NEW n, n # x.name
    PROVE  Alike(rows, rows \cup {x}, n)
<1>1. RowsOf(rows \cup {x}, n) = RowsOf(rows, n)
  BY DEF RowsOf
<1> QED
  BY <1>1 DEF Alike, Unarchived

(* The same for the UPDATE of every wrapped key. *)
LEMMA AlikeRewrap ==
    ASSUME NEW rows \in SUBSET Row, NEW k, NEW n
    PROVE  Alike(rows, RewrapRows(rows, k), n)
<1> DEFINE g == [r \in rows |-> [r EXCEPT !.kek = k]]
           new == RewrapRows(rows, k)
<1>1. new = {g[r] : r \in rows}
  BY DEF RewrapRows, Rewrapped
<1>2. \A r \in rows : g[r] \in new /\ g[r].name = r.name /\ g[r].ver = r.ver
                      /\ g[r].archived = r.archived
  BY <1>1 DEF Row
<1>3. \A q \in new : \E r \in rows : q = g[r]
  BY <1>1
<1> HIDE DEF g, new
<1>4. RowsOf(new, n) # {} => RowsOf(rows, n) # {}
  BY <1>2, <1>3 DEF RowsOf
<1>5. ASSUME NEW r \in Unarchived(rows, n) PROVE \E q \in Unarchived(new, n) : q.ver = r.ver
  BY <1>2 DEF Unarchived, RowsOf
<1>6. ASSUME NEW q \in Unarchived(new, n) PROVE \E r \in Unarchived(rows, n) : q.ver = r.ver
  BY <1>2, <1>3 DEF Unarchived, RowsOf
<1> QED
  BY <1>4, <1>5, <1>6 DEF Alike, new

(* The entry of a mutation of n, at the end of the log, decides its replay. *)
LEMMA ReplayOwn ==
    ASSUME NEW log \in Seq(LogEntry), NEW e \in LogEntry, NEW n, e.tgt = n,
           e.act \in Creations \cup {"DELETE"}, NEW rows, Tells(rows, n, e.act, e.ver)
    PROVE  Replays(rows, Append(log, e), n)
<1> DEFINE new == Append(log, e)
           k == Len(log) + 1
<1>1. /\ DOMAIN new = 1..k /\ Len(new) = k /\ new[k] = e /\ Len(log) \in Nat /\ k \in 1..k
  OBVIOUS
<1> HIDE DEF new, k
<1>2. k \in Mutations(new, n)
  BY <1>1 DEF Mutations
<1>3. k \in Nat /\ \A j \in Mutations(new, n) : j \in 1..k
  BY <1>1 DEF Mutations, k
<1>4. LastMutation(new, n, k)
  BY <1>2, <1>3 DEF LastMutation
<1>5. ASSUME NEW i \in 1..k, LastMutation(new, n, i) PROVE i = k
  BY <1>2, <1>3, <1>5 DEF LastMutation
<1>6. Replays(rows, new, n)
  BY <1>1, <1>4, <1>5 DEF Replays
<1> QED
  BY <1>6 DEF new

(* An audit entry as the replay of n sees it. *)
LEMMA ReplayAppend ==
    ASSUME NEW log \in Seq(LogEntry), NEW e \in LogEntry, NEW n, NEW rows,
           e.tgt # n \/ e.act \notin Creations \cup {"DELETE"}, Replays(rows, log, n)
    PROVE  Replays(rows, Append(log, e), n)
<1> DEFINE new == Append(log, e)
<1>1. /\ new \in Seq(LogEntry) /\ Grows(log, new) /\ Len(new) = Len(log) + 1
      /\ new[Len(log) + 1] = e /\ Len(log) \in Nat
  BY AppendLog
<1> HIDE DEF new
<1>2. ASSUME NEW i \in 1..Len(new), i > Len(log) PROVE i \notin Mutations(new, n)
  <2>1. i = Len(log) + 1
    BY <1>1, <1>2
  <2> QED
    BY <1>1, <2>1 DEF Mutations
<1>3. Replays(rows, new, n)
  BY <1>1, <1>2, ReplayLog
<1> QED
  BY <1>3 DEF new

(* Re-signing the chain, as any replay sees it. *)
LEMMA ReplayResign ==
    ASSUME NEW log \in Seq(LogEntry), NEW k \in Nat, NEW n, NEW rows, Replays(rows, log, n)
    PROVE  Replays(rows, audit_resign_chain(log, k), n)
<1> DEFINE new == audit_resign_chain(log, k)
<1>1. new \in Seq(LogEntry) /\ Grows(log, new) /\ Len(new) = Len(log) /\ Len(log) \in Nat
  BY ResignType, ResignLog
<1> HIDE DEF new
<1>2. \A i \in 1..Len(new) : i > Len(log) => i \notin Mutations(new, n)
  BY <1>1
<1>3. Replays(rows, new, n)
  BY <1>1, <1>2, ReplayLog
<1> QED
  BY <1>3 DEF new

(* The committed log replays to the committed table after every step. *)
LEMMA NextReplays ==
    ASSUME ReplayInv, [Next]_vars, NEW n \in Names
    PROVE  Replays(db'.rows, db'.log, n)
<1>0. /\ TypeInv /\ db \in Database /\ db.log \in Seq(LogEntry) /\ Replays(db.rows, db.log, n)
  BY DEF ReplayInv, AuditInv, TypeInv, TypeOK, Database
<1>1. ASSUME NEW p \in Procs, AppendRead(p) PROVE Replays(db'.rows, db'.log, n)
  <2> DEFINE e == AuditEntry(loc[p].last, loc[p].cnt, sess[p],
                             loc[p].act, loc[p].name, loc[p].ver)
  <2>1. db'.rows = db.rows /\ db'.log = Append(db.log, e)
    BY <1>0, <1>1 DEF AppendRead, Database
  <2>2. loc[p].act = "READ" /\ loc[p] \in Locals /\ sess[p] \in Nat
    BY <1>0, <1>1 DEF AppendRead, TypeInv, TypeOK, Fit
  <2>3. e \in LogEntry /\ e.act = "READ"
    BY <2>2 DEF AuditEntry, LogEntry, Locals, Actions
  <2>4. e.act \notin Creations \cup {"DELETE"}
    BY <2>3 DEF Creations
  <2> HIDE DEF e
  <2> QED
    BY <1>0, <2>1, <2>3, <2>4, ReplayAppend
<1>2. ASSUME NEW p \in Procs, Commit(p) PROVE Replays(db'.rows, db'.log, n)
  BY <1>2 DEF Commit, ReplayInv, Ahead, TxnSteps
<1>3. CASE \A p \in Procs : ~AppendRead(p) /\ ~Commit(p)
  BY <1>0, <1>3, DbWriters
<1> QED
  BY <1>1, <1>2, <1>3

(* How far the open transaction is ahead of its entry, case by case. *)
LEMMA NextAhead ==
    ASSUME ReplayInv, [Next]_vars, NEW q \in Procs
    PROVE  Ahead(q)'
<1>0. /\ pc \in [Procs -> Steps] /\ loc \in [Procs -> Locals] /\ loc[q] \in Locals
      /\ sess[q] \in Nat /\ loc[q].auth.kek \in Nat
      /\ db \in Database /\ work \in Database
      /\ work.rows \in SUBSET Row /\ work.log \in Seq(LogEntry)
      /\ TypeInv /\ NoTxnLeak /\ Nameless(q) /\ Ahead(q) /\ Fit(pc[q], loc[q])
      /\ \A n \in Names : Replays(db.rows, db.log, n)
  BY DEF ReplayInv, StoreInv, AuditInv, TypeInv, TypeOK, Database, Locals
<1>1. ASSUME pc'[q] \notin TxnSteps PROVE Ahead(q)'
  BY <1>1 DEF Ahead
<1>2. ASSUME pc'[q] = pc[q], loc'[q] = loc[q], work' = work PROVE Ahead(q)'
  BY <1>0, <1>2 DEF Ahead
<1>3. ASSUME Begin(q) PROVE Ahead(q)'
  <2>1. /\ work = db /\ work' = db /\ loc' = loc /\ pc'[q] \in {"archive", "insert", "verify"}
    BY <1>0, <1>3 DEF Begin, Goto, NoTxnLeak, FirstTxnStep
  <2> QED
    BY <1>0, <2>1 DEF Ahead
<1>4. ASSUME Archive(q) PROVE Ahead(q)'
  <2>1. /\ pc[q] = "archive" /\ loc' = loc /\ work'.log = work.log
        /\ work'.rows = ArchiveRows(work.rows, loc[q].name)
        /\ pc'[q] = IF loc[q].act = "DELETE" THEN "log" ELSE "insert"
    BY <1>0, <1>4 DEF Archive, Goto, Database
  <2>2. ASSUME NEW n \in Names, n # loc[q].name PROVE Replays(work'.rows, work'.log, n)
    <3>1. Replays(work.rows, work.log, n)
      BY <1>0, <2>1, <2>2 DEF Ahead, TxnSteps
    <3> QED
      BY <1>0, <2>1, <2>2, <3>1, AlikeArchive, ReplayRows
  <2>3. pc'[q] = "log" => Tells(work'.rows, loc[q].name, loc[q].act, loc[q].ver)
    BY <1>0, <2>1, ArchiveHistory DEF Tells, IsLive
  <2> QED
    BY <2>1, <2>2, <2>3 DEF Ahead
<1>5. ASSUME Insert(q) PROVE Ahead(q)'
  <2> DEFINE x == Encrypted(loc[q], sess[q])
  <2>1. /\ pc[q] = "insert" /\ pc'[q] = "log" /\ loc' = loc /\ work'.log = work.log
        /\ work'.rows = work.rows \cup {x}
    BY <1>0, <1>5 DEF Insert, Goto, Database
  <2>2. loc[q].act \in Writers
    BY <1>0, <2>1 DEF Fit
  <2>3. x.name = loc[q].name /\ x.ver = loc[q].ver /\ ~x.archived
    BY DEF Encrypted
  <2> HIDE DEF x
  <2>4. ASSUME NEW n \in Names, n # loc[q].name PROVE Replays(work'.rows, work'.log, n)
    <3>1. Replays(work.rows, work.log, n)
      BY <1>0, <2>1, <2>4 DEF Ahead, TxnSteps
    <3> QED
      BY <2>1, <2>3, <2>4, <3>1, AlikeInsert, ReplayRows
  <2>5. Tells(work'.rows, loc[q].name, loc[q].act, loc[q].ver)
    BY <2>1, <2>2, <2>3 DEF Tells, Unarchived, RowsOf, Writers
  <2> QED
    BY <2>1, <2>4, <2>5 DEF Ahead
<1>6. ASSUME RotateVerify(q) \/ RotateRewrap(q) \/ RotateAuth(q) \/ RotateResign(q)
      PROVE  Ahead(q)'
  <2>1. /\ loc[q].act = "ROTATE_KEK" /\ pc[q] \in TxnSteps /\ loc' = loc
        /\ pc'[q] \in {"rewrap", "auth", "resign", "log"}
    BY <1>0, <1>6 DEF RotateVerify, RotateRewrap, RotateAuth, RotateResign, Goto, Fit, TxnSteps
  <2>2. /\ work'.rows = work.rows \/ work'.rows = RewrapRows(work.rows, loc[q].auth.kek)
        /\ work'.log = work.log \/ work'.log = audit_resign_chain(work.log, loc[q].auth.kek)
    BY <1>0, <1>6 DEF RotateVerify, RotateRewrap, RotateAuth, RotateResign, Database
  <2>3. ASSUME NEW n \in Names, n # loc[q].name PROVE Replays(work'.rows, work'.log, n)
    <3>1. Replays(work.rows, work.log, n)
      BY <1>0, <2>1, <2>3 DEF Ahead
    <3>2. Replays(work'.rows, work.log, n)
      BY <1>0, <2>2, <3>1, AlikeRewrap, ReplayRows
    <3> QED
      BY <1>0, <2>2, <3>2, ReplayResign
  <2> QED
    BY <2>1, <2>3 DEF Ahead
<1>7. ASSUME LogInTxn(q) PROVE Ahead(q)'
  <2> DEFINE l == loc[q]
             e == AuditEntry(Len(work.log), Len(work.log), SigningKey(q), l.act, l.name, l.ver)
  <2>1. /\ pc[q] = "log" /\ pc'[q] = "commit" /\ loc' = loc /\ work'.rows = work.rows
        /\ work'.log = Append(work.log, e)
    BY <1>0, <1>7 DEF LogInTxn, Goto, Database, audit_log_event, audit_get_last_hash,
      audit_count_entries
  <2>2. l.act \in Actions \ {"READ"} /\ SigningKey(q) \in Nat /\ Len(work.log) \in Nat
    BY <1>0, <2>1 DEF Fit, TxnSteps, SigningKey
  <2>3. e \in LogEntry /\ e.act = l.act /\ e.tgt = l.name /\ e.ver = l.ver
    BY <1>0, <2>2 DEF AuditEntry, LogEntry, Locals
  <2>4. /\ \A n \in Names : n # l.name => Replays(work.rows, work.log, n)
        /\ l.act # "ROTATE_KEK" => Tells(work.rows, l.name, l.act, l.ver)
        /\ l.act = "ROTATE_KEK" => l.name \notin Names
        /\ l.act # "ROTATE_KEK" => l.act \in Creations \cup {"DELETE"}
    BY <1>0, <2>1, <2>2, VaultAssumption DEF Ahead, TxnSteps, Nameless, Actions, Creations
  <2> HIDE DEF l, e
  <2>5. ASSUME NEW n \in Names PROVE Replays(work'.rows, work'.log, n)
    <3>1. CASE n # l.name
      BY <1>0, <2>1, <2>3, <2>4, <3>1, ReplayAppend
    <3>2. CASE n = l.name
      BY <1>0, <2>1, <2>3, <2>4, <3>2, ReplayOwn
    <3> QED
      BY <3>1, <3>2
  <2> QED
    BY <2>1, <2>5 DEF Ahead
<1>8. ASSUME \/ \E pw \in Passwords : Unlock(q, pw)
             \/ Lock(q) \/ Crash(q) \/ StartOp(q) \/ ReadBounds(q) \/ BeginFail(q)
             \/ Commit(q) \/ TxnFail(q) \/ ReadLastHash(q) \/ ReadNextId(q) \/ ReadCount(q)
             \/ AppendRead(q) \/ OpFail(q)
       PROVE  pc'[q] \notin TxnSteps
  BY <1>0, <1>8 DEF Unlock, Lock, Crash, StartOp, PutFind, RollbackFind, DeleteFind,
    GetFind, RotateDerive, ReadBounds, BeginFail, Commit, TxnFail, ReadLastHash,
    ReadNextId, ReadCount, AppendRead, OpFail, Return, Goto, TxnSteps
<1>9. CASE UNCHANGED vars
  BY <1>2, <1>9 DEF vars
<1>10. CASE Next
  <2>1. PICK p \in Procs : \/ \E pw \in Passwords : Unlock(p, pw)
                           \/ Lock(p) \/ Crash(p) \/ StartOp(p) \/ Step(p)
    BY <1>10 DEF Next
  <2>2. CASE p = q
    BY <1>1, <1>3, <1>4, <1>5, <1>6, <1>7, <1>8, <2>1, <2>2 DEF Step
  <2>3. CASE p # q
    <3>1. loc'[q] = loc[q] /\ pc'[q] = pc[q]
      BY <1>0, <2>1, <2>3, OthersStay
    <3>2. pc[q] \in TxnSteps => work' = work
      BY <1>0, <2>1, <2>3, WriterAlone
    <3> QED
      BY <1>1, <1>2, <3>1, <3>2
  <2> QED
    BY <2>2, <2>3
<1> QED
  BY <1>9, <1>10

(* The invariant of the replay holds initially and is kept by every step. *)
LEMMA ReplaySteps ==
    /\ Init => ReplayInv
    /\ ReplayInv /\ [Next]_vars => ReplayInv'
<1>1. Init => ReplayInv
  <2> SUFFICES ASSUME Init PROVE ReplayInv
    OBVIOUS
  <2>1. db.rows = {} /\ db.log = <<>> /\ \A p \in Procs : pc[p] \notin TxnSteps
    BY DEF Init, TxnSteps
  <2>2. \A n \in Names : Replays(db.rows, db.log, n)
    BY <2>1 DEF Replays, RowsOf
  <2> QED
    BY <2>1, <2>2, StoreSteps, InitAudit DEF ReplayInv, Ahead
<1>2. ReplayInv /\ [Next]_vars => ReplayInv'
  BY StoreSteps, NextAudit, NextReplays, NextAhead DEF ReplayInv
<1> QED
  BY <1>1, <1>2

(* The last mutation logged for a name says which version is active, or     *)
(* that none is, after every commit and every crash of any process.         *)
THEOREM AuditReplaysHolds == Spec => []AuditReplays
<1>1. ReplayInv => AuditReplays
  <2> SUFFICES ASSUME ReplayInv, NEW n \in Names
               PROVE  /\ RowsOf(db.rows, n) # {} => Mutations(db.log, n) # {}
                      /\ \A i \in Mutations(db.log, n) :
                           (\A j \in Mutations(db.log, n) : j <= i) =>
                             IF db.log[i].act = "DELETE"
                               THEN Unarchived(db.rows, n) = {}
                               ELSE \E r \in Unarchived(db.rows, n) : r.ver = db.log[i].ver
    BY DEF AuditReplays
  <2>1. Replays(db.rows, db.log, n) /\ DOMAIN db.log = 1..Len(db.log)
    BY DEF ReplayInv, AuditInv, TypeInv, TypeOK, Database
  <2>2. Mutations(db.log, n) \subseteq 1..Len(db.log)
    BY <2>1 DEF Mutations
  <2> QED
    BY <2>1, <2>2 DEF Replays, LastMutation, Tells
<1> QED
  BY <1>1, ReplaySteps, PTL DEF Spec

-----------------------------------------------------------------------------
(* Races *)

(* Entries that delete nothing of n, and new signatures, keep what the   *)
(* DELETEs of n retire.                                                     *)
LEMMA RetiresLog ==
    ASSUME NEW log \in Seq(LogEntry), NEW new \in Seq(LogEntry), Grows(log, new), NEW n,
           \A i \in 1..Len(new) : i > Len(log) =>
               i \notin Mutations(new, n) \/ new[i].act # "DELETE",
           Retires(log, n)
    PROVE  Retires(new, n)
<1>1. /\ DOMAIN log = 1..Len(log) /\ DOMAIN new = 1..Len(new)
      /\ Len(log) \in Nat /\ Len(new) \in Nat /\ Len(log) <= Len(new)
  BY DEF Grows
<1>2. ASSUME NEW i \in 1..Len(log)
      PROVE  /\ i \in Mutations(log, n) <=> i \in Mutations(new, n)
             /\ new[i].act = log[i].act /\ new[i].ver = log[i].ver
  BY <1>1 DEF Mutations, Grows
<1>3. Mutations(log, n) \subseteq 1..Len(log) /\ Mutations(new, n) \subseteq 1..Len(new)
  BY <1>1 DEF Mutations
<1> SUFFICES ASSUME NEW i \in Mutations(new, n), new[i].act = "DELETE"
             PROVE  \E j \in Mutations(new, n) :
                      /\ j < i /\ new[j].ver >= new[i].ver /\ new[j].act \in Creations
                      /\ \A k \in Mutations(new, n) : k <= j \/ k >= i
  BY DEF Retires
<1>4. i \in 1..Len(log) /\ i \in Mutations(log, n) /\ log[i].act = "DELETE"
  BY <1>1, <1>2, <1>3
<1>5. PICK j \in Mutations(log, n) :
             /\ j < i /\ log[j].ver >= log[i].ver /\ log[j].act \in Creations
             /\ \A k \in Mutations(log, n) : k <= j \/ k >= i
  BY <1>4 DEF Retires
<1>6. j \in Mutations(new, n) /\ new[j].ver >= new[i].ver /\ new[j].act \in Creations
  BY <1>2, <1>3, <1>4, <1>5
<1>7. ASSUME NEW k \in Mutations(new, n) PROVE k <= j \/ k >= i
  <2>1. CASE k \in 1..Len(log)
    BY <1>2, <1>5, <2>1
  <2>2. CASE k \notin 1..Len(log)
    BY <1>1, <1>3, <1>4, <2>2
  <2> QED
    BY <2>1, <2>2
<1> QED
  BY <1>5, <1>6, <1>7

(* A DELETE logged when the last mutation made a version active that is not *)
(* older than the one it names.                                             *)
LEMMA RetiresDelete ==
    ASSUME NEW log \in Seq(LogEntry), NEW e \in LogEntry, NEW n, e.tgt = n,
           NEW j \in 1..Len(log), LastMutation(log, n, j),
           log[j].act \in Creations, log[j].ver >= e.ver, Retires(log, n)
    PROVE  Retires(Append(log, e), n)
<1> DEFINE new == Append(log, e)
           m == Len(log) + 1
<1>1. /\ DOMAIN log = 1..Len(log) /\ DOMAIN new = 1..m /\ new[m] = e
      /\ Len(log) \in Nat /\ m = Len(log) + 1
      /\ \A i \in 1..Len(log) : new[i] = log[i]
  OBVIOUS
<1> HIDE DEF new, m
<1>2. \A i \in 1..Len(log) : i \in Mutations(log, n) <=> i \in Mutations(new, n)
  BY <1>1 DEF Mutations
<1>3. Mutations(log, n) \subseteq 1..Len(log) /\ Mutations(new, n) \subseteq 1..m
  BY <1>1 DEF Mutations
<1> SUFFICES ASSUME NEW i \in Mutations(new, n), new[i].act = "DELETE"
             PROVE  \E k \in Mutations(new, n) :
                      /\ k < i /\ new[k].ver >= new[i].ver /\ new[k].act \in Creations
                      /\ \A u \in Mutations(new, n) : u <= k \/ u >= i
  BY DEF Retires, new
<1>4. CASE i = m
  <2>1. j \in Mutations(new, n) /\ j < i /\ new[j].ver >= new[i].ver /\ new[j].act \in Creations
    BY <1>1, <1>2, <1>4 DEF LastMutation
  <2>2. ASSUME NEW u \in Mutations(new, n) PROVE u <= j \/ u >= i
    <3>1. CASE u \in 1..Len(log)
      BY <1>2, <3>1 DEF LastMutation
    <3>2. CASE u \notin 1..Len(log)
      BY <1>1, <1>3, <1>4, <3>2
    <3> QED
      BY <3>1, <3>2
  <2> QED
    BY <2>1, <2>2
<1>5. CASE i # m
  <2>1. i \in 1..Len(log) /\ i \in Mutations(log, n) /\ log[i].act = "DELETE"
    BY <1>1, <1>2, <1>3, <1>5
  <2>2. PICK k \in Mutations(log, n) :
               /\ k < i /\ log[k].ver >= log[i].ver /\ log[k].act \in Creations
               /\ \A u \in Mutations(log, n) : u <= k \/ u >= i
    BY <2>1 DEF Retires
  <2>3. k \in Mutations(new, n) /\ new[k].ver >= new[i].ver /\ new[k].act \in Creations
    BY <1>1, <1>2, <1>3, <2>1, <2>2
  <2>4. ASSUME NEW u \in Mutations(new, n) PROVE u <= k \/ u >= i
    <3>1. CASE u \in 1..Len(log)
      BY <1>2, <2>2, <3>1
    <3>2. CASE u \notin 1..Len(log)
      BY <1>1, <1>3, <2>1, <3>2
    <3> QED
      BY <3>1, <3>2
  <2> QED
    BY <2>2, <2>3, <2>4
<1> QED
  BY <1>4, <1>5

(* An entry that deletes nothing of n. *)
LEMMA RetiresAppend ==
    ASSUME NEW log \in Seq(LogEntry), NEW e \in LogEntry, NEW n,
           e.tgt # n \/ e.act # "DELETE", Retires(log, n)
    PROVE  Retires(Append(log, e), n)
<1> DEFINE new == Append(log, e)
<1>1. /\ new \in Seq(LogEntry) /\ Grows(log, new) /\ Len(new) = Len(log) + 1
      /\ new[Len(log) + 1] = e /\ Len(log) \in Nat
  BY AppendLog
<1> HIDE DEF new
<1>2. ASSUME NEW i \in 1..Len(new), i > Len(log)
      PROVE  i \notin Mutations(new, n) \/ new[i].act # "DELETE"
  <2>1. i = Len(log) + 1
    BY <1>1, <1>2
  <2> QED
    BY <1>1, <2>1 DEF Mutations
<1>3. Retires(new, n)
  BY <1>1, <1>2, RetiresLog
<1> QED
  BY <1>3 DEF new

(* Re-signing the chain deletes nothing. *)
LEMMA RetiresResign ==
    ASSUME NEW log \in Seq(LogEntry), NEW k \in Nat, NEW n, Retires(log, n)
    PROVE  Retires(audit_resign_chain(log, k), n)
<1> DEFINE new == audit_resign_chain(log, k)
<1>1. new \in Seq(LogEntry) /\ Grows(log, new) /\ Len(new) = Len(log) /\ Len(log) \in Nat
  BY ResignType, ResignLog
<1> HIDE DEF new
<1>2. \A i \in 1..Len(new) : ~(i > Len(log))
  BY <1>1
<1>3. Retires(new, n)
  BY <1>1, <1>2, RetiresLog
<1> QED
  BY <1>3 DEF new

(* The READ entry that a reader appends: its id was free, so it counted all *)
(* entries before it.                                                       *)
LEMMA ReadEntry ==
    ASSUME AuditInv, NEW q \in Procs, AppendRead(q)
    PROVE  LET e == AuditEntry(loc[q].last, Len(db.log), sess[q], "READ",
                               loc[q].name, loc[q].ver) IN
           /\ e \in LogEntry
           /\ db'.log = Append(db.log, e)
           /\ db'.auth = db.auth /\ db'.rows = db.rows
<1>0. /\ db \in Database /\ db.log \in Seq(LogEntry) /\ Counted(q) /\ pc[q] = "append"
      /\ Fit(pc[q], loc[q]) /\ loc[q] \in Locals /\ sess[q] \in Nat
  BY DEF AuditInv, TypeInv, TypeOK, Database, AppendRead
<1>1. loc[q].act = "READ" /\ loc[q].name \in Names
  BY <1>0 DEF Fit, Actions
<1>2. DOMAIN db.log = 1..Len(db.log) /\ Len(db.log) \in Nat
  BY <1>0
<1>3. loc[q].cnt = Len(db.log)
  <2>1. /\ loc[q].nid \in 1..(Len(db.log) + 1) /\ loc[q].cnt \in (loc[q].nid - 1)..Len(db.log)
        /\ loc[q].nid \notin DOMAIN db.log
    BY <1>0 DEF AppendRead, EntryIdFree, Counted
  <2> QED
    BY <1>2, <2>1
<1>4. /\ db'.log = Append(db.log, AuditEntry(loc[q].last, loc[q].cnt, sess[q],
                                             loc[q].act, loc[q].name, loc[q].ver))
      /\ db'.auth = db.auth /\ db'.rows = db.rows
  BY <1>0 DEF AppendRead, Database
<1>5. AuditEntry(loc[q].last, Len(db.log), sess[q], "READ", loc[q].name, loc[q].ver)
          \in LogEntry
  BY <1>0, <1>1, <1>2 DEF AuditEntry, LogEntry, Locals, Actions
<1> QED
  BY <1>1, <1>3, <1>4, <1>5

(* The committed log after any step. *)
LEMMA NextRetires ==
    ASSUME RaceInv, [Next]_vars, NEW n \in Names
    PROVE  Retires(db'.log, n)
<1>0. /\ TypeInv /\ AuditInv /\ db.log \in Seq(LogEntry) /\ Retires(db.log, n)
  BY DEF RaceInv, ReplayInv, AuditInv, TypeInv, TypeOK, Database
<1>1. ASSUME NEW p \in Procs, AppendRead(p) PROVE Retires(db'.log, n)
  <2> DEFINE e == AuditEntry(loc[p].last, Len(db.log), sess[p], "READ",
                             loc[p].name, loc[p].ver)
  <2>1. e \in LogEntry /\ db'.log = Append(db.log, e)
    BY <1>0, <1>1, ReadEntry
  <2>2. e.act = "READ"
    BY DEF AuditEntry
  <2> HIDE DEF e
  <2> QED
    BY <1>0, <2>1, <2>2, RetiresAppend
<1>2. ASSUME NEW p \in Procs, Commit(p) PROVE Retires(db'.log, n)
  BY <1>2 DEF Commit, RaceInv, Pending, TxnSteps
<1>3. CASE \A p \in Procs : ~AppendRead(p) /\ ~Commit(p)
  BY <1>0, <1>3, DbWriters
<1> QED
  BY <1>1, <1>2, <1>3

(* The version that a DELETE is about to name is not newer than the one it  *)
(* has archived, which the last mutation in the log made active.            *)
LEMMA RetiresNow ==
    ASSUME RaceInv, NEW q \in Procs, pc[q] = "log", loc[q].act = "DELETE"
    PROVE  \E j \in 1..Len(db.log) :
             /\ LastMutation(db.log, loc[q].name, j)
             /\ db.log[j].act \in Creations /\ db.log[j].ver >= loc[q].ver
<1> DEFINE n == loc[q].name
<1>0. /\ n \in Names /\ db.rows \in SUBSET Row /\ TableOK(db.rows)
      /\ Replays(db.rows, db.log, n) /\ Written(q) /\ Pending(q)
  <2>1. Fit(pc[q], loc[q])
    BY DEF RaceInv, ReplayInv, AuditInv, TypeInv
  <2>2. n \in Names
    BY <2>1 DEF Fit, Actions
  <2> QED
    BY <2>2 DEF RaceInv, ReplayInv, StoreInv, TableInv, TypeInv, TypeOK, Database
<1>1. Unarchived(db.rows, n) # {}
  BY <1>0 DEF Written, IsLive, TxnSteps
<1>2. PICK x \in RowsOf(db.rows, n) : x.ver = loc[q].ver
  BY <1>0 DEF Pending
<1>3. PICK j \in 1..Len(db.log) : LastMutation(db.log, n, j)
  BY <1>0, <1>2 DEF Replays
<1>4. Tells(db.rows, n, db.log[j].act, db.log[j].ver)
  BY <1>0, <1>3 DEF Replays
<1>5. db.log[j].act # "DELETE"
  BY <1>1, <1>4 DEF Tells
<1>6. db.log[j].act \in Creations
  BY <1>3, <1>5 DEF LastMutation, Mutations
<1>7. PICK r \in Unarchived(db.rows, n) : r.ver = db.log[j].ver
  BY <1>4, <1>5 DEF Tells
<1>8. x.ver <= r.ver /\ x.ver \in Nat /\ r.ver \in Nat
  BY <1>0, <1>2, <1>7 DEF TableOK, LatestIsActive, Unarchived, RowsOf, Row
<1> QED
  BY <1>2, <1>3, <1>6, <1>7, <1>8

(* What each process has pending after any step. *)
LEMMA NextPending ==
    ASSUME RaceInv, [Next]_vars, NEW q \in Procs
    PROVE  Pending(q)'
<1>0. /\ pc \in [Procs -> Steps] /\ sess \in [Procs -> Nat] /\ loc \in [Procs -> Locals]
      /\ loc[q] \in Locals /\ sess[q] \in Nat /\ loc[q].auth.kek \in Nat
      /\ db \in Database /\ work \in Database
      /\ work.rows \in SUBSET Row /\ work.log \in Seq(LogEntry)
      /\ TypeInv /\ NoTxnLeak /\ Nameless(q) /\ Pending(q) /\ Fit(pc[q], loc[q])
      /\ \A n \in Names : Retires(db.log, n)
      /\ TableInv
  BY DEF RaceInv, ReplayInv, StoreInv, AuditInv, TypeInv, TypeOK, Database, Locals
<1>1. ASSUME pc'[q] \notin TxnSteps, loc'[q].act # "DELETE" PROVE Pending(q)'
  BY <1>1 DEF Pending, TxnSteps
<1>2. ASSUME pc'[q] = pc[q], loc'[q] = loc[q], sess'[q] = sess[q], db' = db, work' = work
      PROVE  Pending(q)'
  BY <1>0, <1>2 DEF Pending
<1>3. NoLocals.act # "DELETE"
  BY NoLocalsType, VaultAssumption DEF Actions
<1>4. ASSUME pc'[q] \notin TxnSteps, loc'[q] = loc[q] PROVE Pending(q)'
  <2>1. Carries(db.rows, db'.rows)
    BY <1>0, NextRows
  <2>2. ASSUME NEW r \in RowsOf(db.rows, loc[q].name)
        PROVE  \E x \in RowsOf(db'.rows, loc[q].name) : x.ver = r.ver
    BY <2>1, <2>2 DEF Carries, RowsOf
  <2> QED
    BY <1>0, <1>4, <2>2 DEF Pending, TxnSteps
<1>5. ASSUME StartOp(q) PROVE Pending(q)'
  <2>1. /\ pc'[q] \in {"bounds", "begin", "last"} /\ db' = db
    BY <1>0, <1>5 DEF StartOp, PutFind, RollbackFind, DeleteFind, GetFind, RotateDerive, Goto
  <2>2. \/ loc'[q].act # "DELETE"
        \/ \E n \in Names, r \in db.rows : DeleteFind(q, n, r)
    BY <1>0, <1>5 DEF StartOp, PutFind, RollbackFind, GetFind, RotateDerive, Call
  <2>3. ASSUME NEW n \in Names, NEW r \in db.rows, DeleteFind(q, n, r)
        PROVE  \E x \in RowsOf(db.rows, loc'[q].name) : x.ver = loc'[q].ver
    BY <1>0, <2>3 DEF DeleteFind, ActiveRow, Unarchived, Call
  <2> QED
    BY <1>0, <2>1, <2>2, <2>3 DEF Pending, TxnSteps
<1>6. ASSUME \/ \E pw \in Passwords : Unlock(q, pw)
             \/ Lock(q)
      PROVE  Pending(q)'
  BY <1>0, <1>4, <1>6 DEF Unlock, Lock, Goto, TxnSteps
<1>7. ASSUME \/ Crash(q) \/ BeginFail(q) \/ Commit(q) \/ TxnFail(q) \/ AppendRead(q)
             \/ OpFail(q)
      PROVE  Pending(q)'
  BY <1>0, <1>1, <1>3, <1>7 DEF Crash, BeginFail, Commit, TxnFail, AppendRead, OpFail,
    Return, Goto, TxnSteps
<1>8. ASSUME ReadBounds(q) \/ ReadLastHash(q) \/ ReadNextId(q) \/ ReadCount(q)
      PROVE  Pending(q)'
  <2>1. pc'[q] \in {"idle", "begin", "next", "count", "append"}
    BY <1>0, <1>8 DEF ReadBounds, ReadLastHash, ReadNextId, ReadCount, Return, Goto
  <2>2. loc[q].act # "DELETE"
    BY <1>0, <1>8 DEF ReadBounds, ReadLastHash, ReadNextId, ReadCount, Fit, Writers
  <2>3. loc'[q].act = loc[q].act \/ loc'[q] = NoLocals
    BY <1>0, <1>8 DEF ReadBounds, ReadLastHash, ReadNextId, ReadCount, Return, Call, Locals
  <2> QED
    BY <1>1, <1>3, <2>1, <2>2, <2>3 DEF TxnSteps
<1>9. ASSUME Begin(q) PROVE Pending(q)'
  <2>1. /\ work = db /\ work' = db /\ db' = db /\ loc' = loc /\ sess' = sess
        /\ pc'[q] \in {"archive", "insert", "verify"}
    BY <1>0, <1>9 DEF Begin, Goto, NoTxnLeak, FirstTxnStep
  <2> QED
    BY <1>0, <2>1 DEF Pending, TxnSteps
<1>10. ASSUME Archive(q) \/ Insert(q) PROVE Pending(q)'
  <2>1. /\ pc[q] \in TxnSteps \ {"commit"} /\ pc'[q] \in {"insert", "log"} /\ db' = db
        /\ loc' = loc /\ sess' = sess /\ loc[q].act # "ROTATE_KEK"
    BY <1>0, <1>10 DEF Archive, Insert, Goto, TxnSteps, Fit, Writers
  <2>2. /\ work'.log = work.log
        /\ \/ work'.rows = ArchiveRows(work.rows, loc[q].name)
           \/ work'.rows = work.rows \cup {Encrypted(loc[q], sess[q])}
    BY <1>0, <1>10 DEF Archive, Insert, Database
  <2>3. \A r \in work.rows : r.kek = sess[q] \/ \E x \in db.rows : x.kek = r.kek
    BY <1>0, <2>1 DEF Pending
  <2>4. \A r \in work'.rows : r.kek = sess[q] \/ \E x \in db.rows : x.kek = r.kek
    <3>1. CASE work'.rows = ArchiveRows(work.rows, loc[q].name)
      <4>1. \A r \in work'.rows : \E x \in work.rows : x.kek = r.kek
        BY <1>0, <3>1 DEF ArchiveRows, Row
      <4> QED
        BY <2>3, <4>1
    <3>2. CASE work'.rows = work.rows \cup {Encrypted(loc[q], sess[q])}
      BY <2>3, <3>2 DEF Encrypted
    <3> QED
      BY <2>2, <3>1, <3>2
  <2> QED
    BY <1>0, <2>1, <2>2, <2>4 DEF Pending, TxnSteps
<1>11. ASSUME RotateVerify(q) \/ RotateRewrap(q) \/ RotateAuth(q) \/ RotateResign(q)
       PROVE  Pending(q)'
  <2>1. /\ loc[q].act = "ROTATE_KEK" /\ pc[q] \in TxnSteps /\ loc' = loc /\ db' = db
        /\ pc'[q] \in {"rewrap", "auth", "resign", "log"}
    BY <1>0, <1>11 DEF RotateVerify, RotateRewrap, RotateAuth, RotateResign, Goto, Fit, TxnSteps
  <2>2. work'.log = work.log \/ work'.log = audit_resign_chain(work.log, loc[q].auth.kek)
    BY <1>0, <1>11 DEF RotateVerify, RotateRewrap, RotateAuth, RotateResign, Database
  <2>3. \A n \in Names : Retires(work.log, n)
    BY <1>0, <2>1 DEF Pending
  <2>4. ASSUME NEW n \in Names PROVE Retires(audit_resign_chain(work.log, loc[q].auth.kek), n)
    BY <1>0, <2>3, RetiresResign
  <2> QED
    BY <1>0, <2>1, <2>2, <2>3, <2>4 DEF Pending, TxnSteps
<1>12. ASSUME LogInTxn(q) PROVE Pending(q)'
  <2> DEFINE l == loc[q]
             k == SigningKey(q)
             e == AuditEntry(Len(work.log), Len(work.log), k, l.act, l.name, l.ver)
  <2>1. /\ pc[q] = "log" /\ pc'[q] = "commit" /\ loc' = loc /\ db' = db /\ sess' = sess
        /\ work'.rows = work.rows
        /\ work'.log = audit_log_event(work.log, k, l.act, l.name, l.ver)
    BY <1>0, <1>12 DEF LogInTxn, Goto, Database
  <2>2. work'.log = Append(work.log, e)
    BY <2>1 DEF audit_log_event, audit_get_last_hash, audit_count_entries
  <2>3. l.act \in Actions \ {"READ"} /\ k \in Nat /\ Len(work.log) \in Nat
    BY <1>0, <2>1 DEF Fit, TxnSteps, SigningKey
  <2>4. e \in LogEntry /\ e.act = l.act /\ e.tgt = l.name /\ e.ver = l.ver
    BY <1>0, <2>3 DEF AuditEntry, LogEntry, Locals
  <2>5. /\ \A n \in Names : Retires(work.log, n)
        /\ l.act # "ROTATE_KEK" => work.log = db.log /\ k = sess[q]
    BY <1>0, <2>1 DEF Pending, TxnSteps, SigningKey
  <2>6. ASSUME NEW n \in Names PROVE Retires(work'.log, n)
    <3>1. CASE n # l.name \/ l.act # "DELETE"
      <4> HIDE DEF e, l
      <4> QED
        BY <1>0, <2>2, <2>4, <2>5, <3>1, RetiresAppend
    <3>2. CASE n = l.name /\ l.act = "DELETE"
      <4>1. PICK j \in 1..Len(db.log) :
                   /\ LastMutation(db.log, n, j)
                   /\ db.log[j].act \in Creations /\ db.log[j].ver >= l.ver
        BY <2>1, <3>2, RetiresNow
      <4>2. work.log = db.log
        BY <2>5, <3>2
      <4> HIDE DEF e, l
      <4> QED
        BY <1>0, <2>2, <2>4, <2>5, <3>2, <4>1, <4>2, RetiresDelete
    <3> QED
      BY <3>1, <3>2
  <2> HIDE DEF l, k, e
  <2> QED
    BY <1>0, <2>1, <2>5, <2>6 DEF Pending, TxnSteps, l
<1>13. CASE UNCHANGED vars
  BY <1>2, <1>13 DEF vars
<1>14. CASE Next
  <2>1. PICK p \in Procs : \/ \E pw \in Passwords : Unlock(p, pw)
                           \/ Lock(p) \/ Crash(p) \/ StartOp(p) \/ Step(p)
    BY <1>14 DEF Next
  <2>2. CASE p = q
    BY <1>5, <1>6, <1>7, <1>8, <1>9, <1>10, <1>11, <1>12, <2>1, <2>2 DEF Step
  <2>3. CASE p # q
    <3>1. loc'[q] = loc[q] /\ pc'[q] = pc[q] /\ sess'[q] = sess[q]
      BY <1>0, <2>1, <2>3, OthersStay
    <3>2. pc[q] \in TxnSteps => db' = db /\ work' = work
      BY <1>0, <2>1, <2>3, WriterAlone
    <3> QED
      BY <1>2, <1>4, <3>1, <3>2
  <2> QED
    BY <2>2, <2>3
<1> QED
  BY <1>13, <1>14

(* The invariant of the races holds in every behaviour. *)
LEMMA RaceInvariant == Spec => []RaceInv
<1>1. Init => RaceInv
  <2> SUFFICES ASSUME Init PROVE RaceInv
    OBVIOUS
  <2>1. /\ db.log = <<>>
        /\ \A p \in Procs : pc[p] = "closed" /\ loc[p] = NoLocals
    BY DEF Init
  <2>2. \A n \in Names : Retires(db.log, n)
    BY <2>1 DEF Retires, Mutations
  <2>3. \A p \in Procs : Pending(p)
    BY <2>1, NoLocalsType, VaultAssumption DEF Pending, TxnSteps, Actions
  <2> QED
    BY <2>2, <2>3, ReplaySteps DEF RaceInv
<1>2. RaceInv /\ [Next]_vars => RaceInv'
  BY ReplaySteps, NextRetires, NextPending DEF RaceInv
<1> QED
  BY <1>1, <1>2, PTL DEF Spec

(* Whatever put, delete and rollback other processes commit between the     *)
(* read of vault_delete (vault.c:2194) and its transaction, a DELETE entry  *)
(* retires one version and names none newer.                                *)
THEOREM DeletesRetireHolds == Spec => []DeletesRetire
<1>1. RaceInv => DeletesRetire
  BY DEF RaceInv, Retires, DeletesRetire
<1> QED
  BY <1>1, RaceInvariant, PTL

(* A commit that breaks the chain or leaves a row under another key is one  *)
(* of a session left behind by a rotation, or a READ whose last hash was    *)
(* overtaken; no rotation, failure or crash does (vault.c:2071, audit.c:1086). *)
THEOREM OnlyStaleBreaksHolds == Spec => OnlyStaleBreaks
<1> DEFINE A == /\ ChainVerifies /\ ~ChainVerifies' =>
                     \E p \in Procs : pc'[p] # pc[p] /\ (StaleKeys(p) \/ StaleLink(p))
                /\ EveryRowUnwraps /\ ~EveryRowUnwraps' =>
                     \E p \in Procs : pc'[p] # pc[p] /\ StaleKeys(p)
<1>1. RaceInv /\ [Next]_vars => [A]_vars
  <2> SUFFICES ASSUME RaceInv, [Next]_vars PROVE A
    OBVIOUS
  <2>0. /\ TypeInv /\ AuditInv /\ db \in Database /\ db.log \in Seq(LogEntry)
        /\ Len(db.log) \in Nat /\ db'.log \in Seq(LogEntry) /\ db.auth.kek \in Nat
        /\ pc \in [Procs -> Steps]
    BY NextType, SMTT(30) DEF RaceInv, ReplayInv, AuditInv, TypeInv, TypeOK, Database
  <2>1. ASSUME NEW p \in Procs, AppendRead(p) PROVE A
    <3>1. pc[p] = "append" /\ pc'[p] = "idle"
      BY <2>0, <2>1 DEF AppendRead, Return, Goto
    <3>2. db'.auth = db.auth /\ db'.rows = db.rows
      BY <2>0, <2>1, ReadEntry
    <3>3. EveryRowUnwraps => EveryRowUnwraps'
      BY <3>2 DEF EveryRowUnwraps
    <3>4. ASSUME ChainVerifies, ~StaleKeys(p), ~StaleLink(p) PROVE ChainVerifies'
      <4>1. sess[p] = db.auth.kek /\ loc[p].last = Len(db.log)
        BY <3>1, <3>4 DEF StaleKeys, StaleLink, audit_get_last_hash
      <4>2. db'.log = audit_log_event(db.log, db.auth.kek, "READ", loc[p].name, loc[p].ver)
        BY <2>0, <2>1, <4>1, ReadEntry
          DEF audit_log_event, audit_get_last_hash, audit_count_entries
      <4>3. audit_verify_chain(db'.log, db.auth.kek)
        BY <2>0, <3>4, <4>2, LogVerifies DEF ChainVerifies
      <4> QED
        BY <3>2, <4>3 DEF ChainVerifies
    <3> QED
      BY <3>1, <3>3, <3>4
  <2>2. ASSUME NEW p \in Procs, Commit(p) PROVE A
    <3>1. /\ pc[p] = "commit" /\ pc'[p] = "idle" /\ db' = work /\ Pending(p) /\ Rotating(p)
          /\ pc[p] \in TxnSteps
      BY <2>0, <2>2 DEF Commit, Return, Goto, RaceInv, AuditInv, TxnSteps
    <3>2. CASE loc[p].act = "ROTATE_KEK"
      <4>1. /\ db'.auth = loc[p].auth /\ \A r \in db'.rows : r.kek = loc[p].auth.kek
            /\ audit_verify_chain(db'.log, loc[p].auth.kek)
        BY <3>1, <3>2 DEF Rotating, InRotation
      <4> QED
        BY <4>1 DEF ChainVerifies, EveryRowUnwraps
    <3>3. CASE loc[p].act # "ROTATE_KEK"
      <4>1. /\ db'.auth = db.auth
            /\ db'.log = audit_log_event(db.log, sess[p], loc[p].act, loc[p].name, loc[p].ver)
            /\ \A r \in db'.rows : r.kek = sess[p] \/ \E x \in db.rows : x.kek = r.kek
        BY <3>1, <3>3 DEF Rotating, InRotation, Pending
      <4>2. ASSUME ~StaleKeys(p)
            PROVE  /\ EveryRowUnwraps => EveryRowUnwraps'
                   /\ ChainVerifies => ChainVerifies'
        <5>1. sess[p] = db.auth.kek
          BY <3>1, <4>2 DEF StaleKeys
        <5>2. EveryRowUnwraps => EveryRowUnwraps'
          BY <4>1, <5>1 DEF EveryRowUnwraps
        <5>3. ChainVerifies => ChainVerifies'
          BY <2>0, <4>1, <5>1, LogVerifies DEF ChainVerifies
        <5> QED
          BY <5>2, <5>3
      <4> QED
        BY <3>1, <4>2
    <3> QED
      BY <3>2, <3>3
  <2>3. CASE \A p \in Procs : ~AppendRead(p) /\ ~Commit(p)
    <3>1. db' = db
      BY <2>0, <2>3, DbWriters
    <3> QED
      BY <3>1 DEF ChainVerifies, EveryRowUnwraps
  <2> QED
    BY <2>1, <2>2, <2>3
<1> QED
  BY <1>1, RaceInvariant, PTL DEF Spec, OnlyStaleBreaks

-----------------------------------------------------------------------------
(* One process *)

(* In an operation the session holds the current keys. *)
LEMMA SoleKeys ==
    ASSUME SoleInv, NEW q \in Procs, pc[q] \notin {"closed", "idle"}
    PROVE  sess[q] = db.auth.kek
<1>1. sess[q] # 0 /\ sess[q] \in {0, db.auth.kek}
  BY DEF SoleInv, ReplayInv, AuditInv, Undisturbed
<1> QED
  BY <1>1

(* The READ entry of a process that nobody interrupts is the one            *)
(* audit_log_event would make in a transaction.                             *)
LEMMA SoleAppend ==
    ASSUME SoleInv, NEW q \in Procs, AppendRead(q)
    PROVE  /\ db'.log = audit_log_event(db.log, db.auth.kek, "READ", loc[q].name, loc[q].ver)
           /\ db'.auth = db.auth /\ db'.rows = db.rows
<1>0. /\ db \in Database /\ db.log \in Seq(LogEntry) /\ Counted(q) /\ Undisturbed(q)
      /\ pc[q] = "append" /\ Fit(pc[q], loc[q])
  BY DEF SoleInv, ReplayInv, AuditInv, TypeInv, TypeOK, Database, AppendRead
<1>1. sess[q] = db.auth.kek /\ loc[q].act = "READ" /\ loc[q].last = Len(db.log)
  BY <1>0, SoleKeys DEF Fit, Undisturbed
<1>2. loc[q].cnt = Len(db.log)
  <2>1. /\ loc[q].nid \in 1..(Len(db.log) + 1) /\ loc[q].cnt \in (loc[q].nid - 1)..Len(db.log)
        /\ loc[q].nid \notin DOMAIN db.log
    BY <1>0 DEF AppendRead, EntryIdFree, Counted
  <2>2. DOMAIN db.log = 1..Len(db.log) /\ Len(db.log) \in Nat
    BY <1>0
  <2> QED
    BY <2>1, <2>2
<1>3. /\ db'.log = Append(db.log, AuditEntry(loc[q].last, loc[q].cnt, sess[q],
                                             loc[q].act, loc[q].name, loc[q].ver))
      /\ db'.auth = db.auth /\ db'.rows = db.rows
  BY <1>0 DEF AppendRead, Database
<1> QED
  BY <1>1, <1>2, <1>3 DEF audit_log_event, audit_get_last_hash, audit_count_entries

(* What the process commits is under the credentials it commits. *)
LEMMA SoleCommit ==
    ASSUME SoleInv, NEW q \in Procs, Commit(q)
    PROVE  /\ db' = work /\ sess'[q] \in {0, work.auth.kek}
           /\ AllUnder(work.rows, work.auth.kek)
           /\ audit_verify_chain(work.log, work.auth.kek)
<1>0. /\ db' = work /\ pc[q] = "commit" /\ pc[q] \in TxnSteps /\ Undisturbed(q) /\ Rotating(q)
      /\ sess \in [Procs -> Nat]
  BY DEF SoleInv, ReplayInv, AuditInv, Commit, TypeInv, TypeOK, TxnSteps
<1>1. CASE loc[q].act = "ROTATE_KEK"
  <2>1. /\ work.auth = loc[q].auth /\ \A r \in work.rows : r.kek = loc[q].auth.kek
        /\ audit_verify_chain(work.log, loc[q].auth.kek)
    BY <1>0, <1>1 DEF Rotating, InRotation
  <2>2. sess'[q] = loc[q].auth.kek
    BY <1>0, <1>1 DEF Commit, KeysAfter
  <2> QED
    BY <1>0, <2>1, <2>2 DEF AllUnder, Undisturbed
<1>2. CASE loc[q].act # "ROTATE_KEK"
  <2>1. work.auth = db.auth
    BY <1>0, <1>2 DEF Rotating, InRotation
  <2>2. sess'[q] = sess[q]
    BY <1>0, <1>2 DEF Commit, KeysAfter
  <2> QED
    BY <1>0, <1>2, <2>1, <2>2 DEF Undisturbed
<1> QED
  BY <1>1, <1>2

(* The committed database after a step of the only process. *)
LEMMA NextSoleDb ==
    ASSUME SoleInv, [Next]_vars
    PROVE  ChainVerifies' /\ EveryRowUnwraps'
<1>0. /\ TypeInv /\ db \in Database /\ db.log \in Seq(LogEntry)
      /\ audit_verify_chain(db.log, db.auth.kek) /\ AllUnder(db.rows, db.auth.kek)
      /\ db.auth.kek \in Nat
  BY DEF SoleInv, ReplayInv, AuditInv, TypeInv, TypeOK, Database, ChainVerifies,
    EveryRowUnwraps, AllUnder
<1>1. ASSUME audit_verify_chain(db'.log, db'.auth.kek), AllUnder(db'.rows, db'.auth.kek)
      PROVE  ChainVerifies' /\ EveryRowUnwraps'
  BY <1>1 DEF ChainVerifies, EveryRowUnwraps, AllUnder
<1>2. ASSUME NEW q \in Procs, Commit(q)
      PROVE  ChainVerifies' /\ EveryRowUnwraps'
  BY <1>1, <1>2, SoleCommit
<1>3. ASSUME NEW q \in Procs, AppendRead(q)
      PROVE  ChainVerifies' /\ EveryRowUnwraps'
  <2> DEFINE k == db.auth.kek
             e == AuditEntry(Len(db.log), Len(db.log), k, "READ", loc[q].name, loc[q].ver)
  <2>1. /\ db'.log = audit_log_event(db.log, k, "READ", loc[q].name, loc[q].ver)
        /\ db'.auth = db.auth /\ db'.rows = db.rows
    BY <1>3, SoleAppend
  <2>2. db'.log = Append(db.log, e)
    BY <2>1 DEF audit_log_event, audit_get_last_hash, audit_count_entries
  <2>3. loc[q] \in Locals /\ Len(db.log) \in Nat
    BY <1>0 DEF TypeInv, TypeOK
  <2>4. e \in LogEntry /\ e.act = "READ"
    BY <1>0, <2>3 DEF AuditEntry, LogEntry, Locals, Actions
  <2>5. db'.log \in Seq(LogEntry)
    <3> HIDE DEF e
    <3> QED
      BY <1>0, <2>2, <2>4, AppendLog
  <2>6. audit_verify_chain(db'.log, k)
    BY <1>0, <2>1, <2>5, LogVerifies
  <2> QED
    BY <1>0, <1>1, <2>1, <2>6
<1>4. CASE \A p \in Procs : ~AppendRead(p) /\ ~Commit(p)
  BY <1>0, <1>1, <1>4, DbWriters
<1> QED
  BY <1>2, <1>3, <1>4

(* What the only process knows after each of its steps. *)
LEMMA NextUndisturbed ==
    ASSUME SoleProcess, SoleInv, [Next]_vars, NEW q \in Procs
    PROVE  Undisturbed(q)'
<1>0. /\ pc \in [Procs -> Steps] /\ sess \in [Procs -> Nat] /\ loc \in [Procs -> Locals]
      /\ loc[q] \in Locals /\ sess[q] \in Nat /\ loc[q].auth.kek \in Nat
      /\ db \in Database /\ work \in Database
      /\ work.rows \in SUBSET Row /\ work.log \in Seq(LogEntry) /\ db.auth.kek \in Nat
      /\ TypeInv /\ TypeInv' /\ NoTxnLeak /\ Nameless(q) /\ Rotating(q)
      /\ Undisturbed(q) /\ Fit(pc[q], loc[q])
      /\ audit_verify_chain(db.log, db.auth.kek) /\ AllUnder(db.rows, db.auth.kek)
  BY NextType DEF SoleInv, ReplayInv, StoreInv, AuditInv, TypeInv, TypeOK, Database, Locals,
    ChainVerifies, EveryRowUnwraps, AllUnder
<1>1. ASSUME pc'[q] \notin TxnSteps \cup {"next", "count", "append"},
             sess'[q] \in {0, db'.auth.kek}
      PROVE  Undisturbed(q)'
  BY <1>1 DEF Undisturbed, TxnSteps
<1>3. ASSUME \/ \E pw \in Passwords : Unlock(q, pw)
             \/ Lock(q)
      PROVE  Undisturbed(q)'
  <2>1. /\ pc'[q] \in {"closed", "idle"} /\ db' = db /\ loc' = loc
        /\ sess'[q] \in {0, db.auth.kek}
    BY <1>0, <1>3 DEF Unlock, Lock, Goto
  <2> QED
    BY <1>0, <2>1 DEF Undisturbed, TxnSteps
<1>4. ASSUME Crash(q) \/ BeginFail(q) \/ TxnFail(q) \/ OpFail(q) PROVE Undisturbed(q)'
  <2>1. /\ pc'[q] \in {"closed", "idle"} /\ db' = db /\ loc'[q] = NoLocals
        /\ sess'[q] \in {0, sess[q]}
    BY <1>0, <1>4 DEF Crash, BeginFail, TxnFail, OpFail, Return, Goto
  <2> QED
    BY <1>0, <1>1, <2>1 DEF Undisturbed, TxnSteps
<1>5. ASSUME Commit(q) PROVE Undisturbed(q)'
  <2>1. pc'[q] = "idle" /\ loc'[q] = NoLocals
    BY <1>0, <1>5 DEF Commit, Return, Goto
  <2>2. sess'[q] \in {0, db'.auth.kek}
    BY <1>5, SoleCommit
  <2> QED
    BY <1>1, <2>1, <2>2 DEF TxnSteps
<1>6. ASSUME AppendRead(q) PROVE Undisturbed(q)'
  <2>1. pc'[q] = "idle" /\ loc'[q] = NoLocals /\ sess' = sess
    BY <1>0, <1>6 DEF AppendRead, Return, Goto
  <2>2. db'.auth = db.auth
    BY <1>6, SoleAppend
  <2> QED
    BY <1>0, <1>1, <2>1, <2>2 DEF Undisturbed, TxnSteps
<1>7. ASSUME StartOp(q) PROVE Undisturbed(q)'
  <2>1. /\ pc'[q] \in {"bounds", "begin", "last"} /\ db' = db /\ sess' = sess
    BY <1>0, <1>7 DEF StartOp, PutFind, RollbackFind, DeleteFind, GetFind, RotateDerive, Goto
  <2> QED
    BY <1>0, <2>1 DEF Undisturbed, TxnSteps
<1>8. ASSUME ReadBounds(q) PROVE Undisturbed(q)'
  <2>1. pc'[q] \in {"idle", "begin"} /\ db' = db /\ sess' = sess
    BY <1>0, <1>8 DEF ReadBounds, Return, Goto
  <2> QED
    BY <1>0, <1>1, <2>1 DEF Undisturbed, TxnSteps
<1>9. ASSUME ReadLastHash(q) \/ ReadNextId(q) \/ ReadCount(q) PROVE Undisturbed(q)'
  <2>1. /\ pc'[q] \in {"next", "count", "append"} /\ db' = db /\ sess' = sess
        /\ loc'[q].act = loc[q].act
        /\ loc'[q].last = loc[q].last \/ loc'[q].last = Len(db.log)
        /\ ReadLastHash(q) => loc'[q].last = Len(db.log)
        /\ ~ReadLastHash(q) => loc'[q].last = loc[q].last /\ pc[q] \in {"next", "count"}
    BY <1>0, <1>9 DEF ReadLastHash, ReadNextId, ReadCount, Goto, Locals, audit_get_last_hash
  <2>2. loc[q].act = "READ"
    BY <1>0, <1>9 DEF ReadLastHash, ReadNextId, ReadCount, Fit
  <2> QED
    BY <1>0, <2>1, <2>2 DEF Undisturbed, TxnSteps
<1>10. ASSUME Begin(q) PROVE Undisturbed(q)'
  <2>1. /\ work = db /\ work' = db /\ db' = db /\ loc' = loc /\ sess' = sess
        /\ pc'[q] \in {"archive", "insert", "verify"}
    BY <1>0, <1>10 DEF Begin, Goto, NoTxnLeak, FirstTxnStep
  <2> QED
    BY <1>0, <2>1 DEF Undisturbed, TxnSteps
<1>11. ASSUME Archive(q) \/ Insert(q) PROVE Undisturbed(q)'
  <2>1. /\ pc[q] \in TxnSteps \ {"commit"} /\ pc'[q] \in {"insert", "log"} /\ db' = db
        /\ loc' = loc /\ sess' = sess
        /\ loc[q].act # "ROTATE_KEK" /\ sess[q] = db.auth.kek
    BY <1>0, <1>11, SoleKeys DEF Archive, Insert, Goto, TxnSteps, Fit, Writers
  <2>2. /\ work'.log = work.log
        /\ \/ work'.rows = ArchiveRows(work.rows, loc[q].name)
           \/ work'.rows = work.rows \cup {Encrypted(loc[q], sess[q])}
    BY <1>0, <1>11 DEF Archive, Insert, Database
  <2>3. /\ AllUnder(work.rows, db.auth.kek) /\ work.log = db.log
    BY <1>0, <2>1 DEF Undisturbed
  <2>4. AllUnder(work'.rows, db.auth.kek)
    <3>1. CASE work'.rows = ArchiveRows(work.rows, loc[q].name)
      BY <1>0, <2>3, <3>1 DEF AllUnder, ArchiveRows, Row
    <3>2. CASE work'.rows = work.rows \cup {Encrypted(loc[q], sess[q])}
      BY <2>1, <2>3, <3>2 DEF AllUnder, Encrypted
    <3> QED
      BY <2>2, <3>1, <3>2
  <2> QED
    BY <1>0, <2>1, <2>2, <2>3, <2>4 DEF Undisturbed, TxnSteps
<1>12. ASSUME RotateVerify(q) \/ RotateRewrap(q) \/ RotateAuth(q) \/ RotateResign(q)
       PROVE  Undisturbed(q)'
  <2>1. /\ loc[q].act = "ROTATE_KEK" /\ pc[q] \in TxnSteps /\ loc' = loc /\ db' = db
        /\ sess' = sess /\ pc'[q] \in {"rewrap", "auth", "resign", "log"}
    BY <1>0, <1>12 DEF RotateVerify, RotateRewrap, RotateAuth, RotateResign, Goto, Fit, TxnSteps
  <2> QED
    BY <1>0, <2>1 DEF Undisturbed, TxnSteps
<1>13. ASSUME LogInTxn(q) PROVE Undisturbed(q)'
  <2> DEFINE l == loc[q]
             k == SigningKey(q)
             e == AuditEntry(Len(work.log), Len(work.log), k, l.act, l.name, l.ver)
  <2>1. /\ pc[q] = "log" /\ pc'[q] = "commit" /\ loc' = loc /\ db' = db /\ sess' = sess
        /\ work'.rows = work.rows
        /\ work'.log = audit_log_event(work.log, k, l.act, l.name, l.ver)
    BY <1>0, <1>13 DEF LogInTxn, Goto, Database
  <2>2. work'.log = Append(work.log, e)
    BY <2>1 DEF audit_log_event, audit_get_last_hash, audit_count_entries
  <2>3. l.act \in Actions \ {"READ"} /\ k \in Nat /\ Len(work.log) \in Nat
    BY <1>0, <2>1 DEF Fit, TxnSteps, SigningKey
  <2>4. e \in LogEntry /\ e.act = l.act /\ e.tgt = l.name /\ e.ver = l.ver
    BY <1>0, <2>3 DEF AuditEntry, LogEntry, Locals
  <2>5. /\ l.act # "ROTATE_KEK" => /\ work.log = db.log /\ AllUnder(work.rows, db.auth.kek)
                                   /\ audit_verify_chain(work.log, db.auth.kek)
    BY <1>0, <2>1 DEF Undisturbed, TxnSteps, Fit, Actions
  <2>6. l.act # "ROTATE_KEK" => audit_verify_chain(work'.log, db.auth.kek)
    <3> SUFFICES ASSUME l.act # "ROTATE_KEK" PROVE audit_verify_chain(work'.log, db.auth.kek)
      OBVIOUS
    <3>1. k = db.auth.kek
      BY <2>1, SoleKeys DEF SigningKey
    <3>2. work'.log \in Seq(LogEntry)
      BY <1>0 DEF TypeInv, TypeOK, Database
    <3> HIDE DEF k, l
    <3> QED
      BY <1>0, <2>1, <2>5, <3>1, <3>2, LogVerifies
  <2> HIDE DEF l, k, e
  <2> QED
    BY <1>0, <2>1, <2>5, <2>6 DEF Undisturbed, TxnSteps, l
<1>14. CASE UNCHANGED vars
  BY <1>0, <1>14 DEF vars, Undisturbed
<1>15. CASE Next
  <2>1. \/ \E pw \in Passwords : Unlock(q, pw)
        \/ Lock(q) \/ Crash(q) \/ StartOp(q) \/ Step(q)
    BY <1>15 DEF Next, SoleProcess
  <2> QED
    BY <1>3, <1>4, <1>5, <1>6, <1>7, <1>8, <1>9, <1>10, <1>11, <1>12, <1>13, <2>1 DEF Step
<1> QED
  BY <1>14, <1>15

(* The invariant of a vault with one process holds in every behaviour. *)
LEMMA SoleInvariant == ASSUME SoleProcess PROVE Spec => []SoleInv
<1>1. Init => SoleInv
  <2> SUFFICES ASSUME Init PROVE SoleInv
    OBVIOUS
  <2>1. /\ db.rows = {} /\ db.log = <<>>
        /\ \A p \in Procs : pc[p] = "closed" /\ sess[p] = 0 /\ loc[p] = NoLocals
    BY DEF Init
  <2>2. ChainVerifies /\ EveryRowUnwraps
    BY <2>1 DEF ChainVerifies, audit_verify_chain, EveryRowUnwraps
  <2>3. \A p \in Procs : Undisturbed(p)
    BY <2>1, NoLocalsType, VaultAssumption DEF Undisturbed, TxnSteps, Actions
  <2> QED
    BY <2>2, <2>3, ReplaySteps DEF SoleInv
<1>2. SoleInv /\ [Next]_vars => SoleInv'
  BY ReplaySteps, NextSoleDb, NextUndisturbed DEF SoleInv
<1> QED
  BY <1>1, <1>2, PTL DEF Spec

(* As long as one process uses the vault, crashes and failures included,    *)
(* the log verifies under the current password (audit.c:1086; two break it, *)
(* run vault_fork).                                                         *)
THEOREM ChainVerifiesHolds == ASSUME SoleProcess PROVE Spec => []ChainVerifies
<1>1. SoleInv => ChainVerifies
  BY DEF SoleInv
<1> QED
  BY <1>1, SoleInvariant, PTL

(* As long as one process uses the vault, every stored secret decrypts with *)
(* the current password (two break it, run vault_stale).                    *)
THEOREM EveryRowUnwrapsHolds == ASSUME SoleProcess PROVE Spec => []EveryRowUnwraps
<1>1. SoleInv => EveryRowUnwraps
  BY DEF SoleInv
<1> QED
  BY <1>1, SoleInvariant, PTL
=============================================================================
