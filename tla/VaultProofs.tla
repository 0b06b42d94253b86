---------------------------- MODULE VaultProofs ----------------------------
(***************************************************************************)
(* Proofs, for any number of processes, names, values and generations of   *)
(* keys: types, and the secrets table under concurrent put, rollback,      *)
(* delete and rotation.  Versions have no gap and no duplicate, the active *)
(* row is on top, history is immutable, and the commits implement          *)
(* SecretStore.  None of these is inductive: a writer inserts a version    *)
(* that it computed from the table as it was before its transaction began. *)
(***************************************************************************)
EXTENDS VaultProperties, TLAPS

Writers == {"CREATE", "UPDATE", "ROLLBACK"}

(* What an operation knows of its locals when it is about to take a step. *)
Fit(step, l) ==
    /\ step \in {"bounds", "insert"} => l.act \in Writers
    /\ step \in {"begin"} \cup TxnSteps => l.act \in Actions \ {"READ"}
    /\ step = "archive" => l.act # "ROTATE_KEK"
    /\ step \in {"verify", "rewrap", "auth", "resign"} => l.act = "ROTATE_KEK"
    /\ step \in {"last", "next", "count", "append"} => l.act = "READ"
    /\ l.act \in Actions \ {"ROTATE_KEK"} => l.name \in Names
    /\ l.act \in Writers \cup {"READ"} => l.val \in Values
    /\ l.act = "ROTATE_KEK" => l.auth.pw \in Passwords
    /\ l.act \in Writers /\ step # "bounds" =>
           l.ver \in 1..IntMax /\ l.ctr \in 1..Int64Max

TypeInv == TypeOK /\ \A p \in Procs : Fit(pc[p], loc[p])

-----------------------------------------------------------------------------
(* Types *)

(* A re-signed log is a log of the same length whose entries keep every     *)
(* hashed field (audit_resign_chain).                                       *)
LEMMA ResignType ==
    ASSUME NEW log \in Seq(LogEntry), NEW k \in Nat
    PROVE  /\ audit_resign_chain(log, k) \in Seq(LogEntry)
           /\ Len(audit_resign_chain(log, k)) = Len(log)
           /\ \A i \in 1..Len(log) :
                audit_resign_chain(log, k)[i] = Resigned(log, k, i)
<1> DEFINE f == [i \in 1..Len(log) |-> Resigned(log, k, i)]
<1>1. ASSUME NEW i \in 1..Len(log) PROVE Resigned(log, k, i) \in LogEntry
  <2>1. log[i] \in LogEntry
    OBVIOUS
  <2> QED
    BY <2>1 DEF LogEntry, Resigned, AuditEntry
<1>2. f \in [1..Len(log) -> LogEntry]
  BY <1>1
<1>3. Len(log) \in Nat
  OBVIOUS
<1> HIDE DEF f
<1>4. f \in Seq(LogEntry) /\ Len(f) = Len(log)
  BY <1>2, <1>3
<1> QED
  BY <1>4 DEF audit_resign_chain, f

(* Archiving and rewrapping keep the table a set of rows. *)
LEMMA RowTypes ==
    ASSUME NEW rows \in SUBSET Row, NEW n, NEW k \in Nat
    PROVE  /\ ArchiveRows(rows, n) \in SUBSET Row
           /\ RewrapRows(rows, k) \in SUBSET Row
<1>1. ASSUME NEW r \in Row
      PROVE  [r EXCEPT !.archived = TRUE] \in Row /\ [r EXCEPT !.kek = k] \in Row
  BY DEF Row
<1> QED
  BY <1>1 DEF ArchiveRows, RewrapRows, Rewrapped

(* An entry made from an operation's locals extends a log to a log. *)
LEMMA EntryType ==
    ASSUME NEW log \in Seq(LogEntry), NEW prev \in Nat, NEW idx \in Nat,
           NEW key \in Nat, NEW l \in Locals, l.act \in Actions
    PROVE  Append(log, AuditEntry(prev, idx, key, l.act, l.name, l.ver))
             \in Seq(LogEntry)
<1>1. l.name \in Names \cup {None} /\ l.ver \in Nat
  BY DEF Locals
<1>2. AuditEntry(prev, idx, key, l.act, l.name, l.ver) \in LogEntry
  BY <1>1 DEF AuditEntry, LogEntry
<1> QED
  BY <1>2

(* No operation is under way: a typed value of the locals. *)
LEMMA NoLocalsType == NoLocals \in Locals /\ NoLocals.act = None
  BY VaultAssumption DEF NoLocals, Locals, Call, NoAuth

(* A process moves to a step that fits its new locals. *)
LEMMA MoveType ==
    ASSUME TypeInv, NEW p \in Procs, NEW step \in Steps, NEW l \in Locals,
           pc' = [pc EXCEPT ![p] = step], loc' = [loc EXCEPT ![p] = l],
           Fit(step, l)
    PROVE  /\ pc' \in [Procs -> Steps] /\ loc' \in [Procs -> Locals]
           /\ \A q \in Procs : Fit(pc'[q], loc'[q])
<1>1. pc' \in [Procs -> Steps] /\ loc' \in [Procs -> Locals]
  BY DEF TypeInv, TypeOK
<1>2. pc'[p] = step /\ loc'[p] = l
  BY DEF TypeInv, TypeOK
<1>3. \A q \in Procs \ {p} : pc'[q] = pc[q] /\ loc'[q] = loc[q]
  BY DEF TypeInv, TypeOK
<1>4. ASSUME NEW q \in Procs PROVE Fit(pc'[q], loc'[q])
  BY <1>2, <1>3 DEF TypeInv
<1> QED
  BY <1>1, <1>4

(* The same when the locals stay. *)
LEMMA GotoType ==
    ASSUME TypeInv, NEW p \in Procs, NEW step \in Steps,
           Goto(p, step), UNCHANGED loc, Fit(step, loc[p])
    PROVE  /\ pc' \in [Procs -> Steps] /\ loc' \in [Procs -> Locals]
           /\ \A q \in Procs : Fit(pc'[q], loc'[q])
<1>1. loc[p] \in Locals /\ loc' = [loc EXCEPT ![p] = loc[p]]
  BY DEF TypeInv, TypeOK
<1> QED
  BY <1>1, MoveType DEF Goto

(* Returning leaves the locals of no operation. *)
LEMMA ReturnType ==
    ASSUME TypeInv, NEW p \in Procs, NEW step \in {"idle", "closed"},
           Goto(p, step), loc' = [loc EXCEPT ![p] = NoLocals]
    PROVE  /\ pc' \in [Procs -> Steps] /\ loc' \in [Procs -> Locals]
           /\ \A q \in Procs : Fit(pc'[q], loc'[q])
<1>1. Fit(step, NoLocals)
  BY NoLocalsType, VaultAssumption DEF Fit, TxnSteps, Writers, Actions
<1>2. step \in Steps
  BY DEF Steps
<1> QED
  BY <1>1, <1>2, NoLocalsType, MoveType DEF Goto

(* The vault fresh from `fuin init` is well typed. *)
LEMMA InitType == Init => TypeInv
<1> SUFFICES ASSUME Init PROVE TypeInv
  OBVIOUS
<1>1. db \in Database /\ work \in Database
  BY VaultAssumption DEF Init, Database
<1>2. TypeOK
  BY <1>1, NoLocalsType DEF Init, TypeOK, Steps
<1>3. ASSUME NEW p \in Procs PROVE Fit(pc[p], loc[p])
  BY NoLocalsType, VaultAssumption DEF Init, Fit, TxnSteps, Writers, Actions
<1> QED
  BY <1>2, <1>3 DEF TypeInv

(* Each step of Next keeps the types: first the steps outside transactions. *)
LEMMA OpenTypes ==
    ASSUME TypeInv, NEW p \in Procs,
           StartOp(p) \/ ReadBounds(p) \/ ReadLastHash(p) \/ ReadNextId(p) \/ ReadCount(p)
    PROVE  TypeInv'
<1> USE VaultAssumption
<1>0. db.rows \in SUBSET Row /\ db.log \in Seq(LogEntry) /\ loc[p] \in Locals
      /\ Fit(pc[p], loc[p])
  BY DEF TypeInv, TypeOK, Database
<1> DEFINE Moved(step, l) == /\ pc' = [pc EXCEPT ![p] = step]
                             /\ loc' = [loc EXCEPT ![p] = l]
                             /\ step \in Steps /\ l \in Locals /\ Fit(step, l)
<1>1. ASSUME NEW n \in Names, NEW v \in Values, PutFind(p, n, v) PROVE TypeInv'
  <2> DEFINE l == Call(IF ActiveRow(db.rows, n) # {} THEN "UPDATE" ELSE "CREATE",
                       n, v, 0, 0, NoAuth)
  <2>1. Moved("bounds", l)
    BY <1>1 DEF PutFind, Goto, Call, NoAuth, Locals, Actions, Steps, Fit, TxnSteps, Writers
  <2> QED
    BY <1>1, <2>1, MoveType DEF PutFind, TypeInv, TypeOK
<1>2. ASSUME NEW n \in Names, NEW r \in db.rows, RollbackFind(p, n, r) PROVE TypeInv'
  <2>1. r.val \in Values
    BY <1>0 DEF Row
  <2>2. Moved("bounds", Call("ROLLBACK", n, r.val, 0, 0, NoAuth))
    BY <1>2, <2>1 DEF RollbackFind, Goto, Call, NoAuth, Locals, Actions, Steps, Fit, TxnSteps, Writers
  <2> QED
    BY <1>2, <2>2, MoveType DEF RollbackFind, TypeInv, TypeOK
<1>3. ASSUME NEW n \in Names, NEW r \in db.rows, DeleteFind(p, n, r) PROVE TypeInv'
  <2>1. r.ver \in Nat
    BY <1>0 DEF Row
  <2>2. Moved("begin", Call("DELETE", n, None, r.ver, 0, NoAuth))
    BY <1>3, <2>1 DEF DeleteFind, Goto, Call, NoAuth, Locals, Actions, Steps, Fit, TxnSteps, Writers
  <2> QED
    BY <1>3, <2>2, MoveType DEF DeleteFind, TypeInv, TypeOK
<1>4. ASSUME NEW n \in Names, NEW r \in db.rows, GetFind(p, n, r) PROVE TypeInv'
  <2>1. r.val \in Values /\ r.ver \in Nat
    BY <1>0 DEF Row
  <2>2. Moved("last", Call("READ", n, r.val, r.ver, 0, NoAuth))
    BY <1>4, <2>1 DEF GetFind, Goto, Call, NoAuth, Locals, Actions, Steps, Fit, TxnSteps, Writers
  <2> QED
    BY <1>4, <2>2, MoveType DEF GetFind, TypeInv, TypeOK
<1>5. ASSUME NEW pw \in Passwords, RotateDerive(p, pw) PROVE TypeInv'
  <2>1. nextKek \in Nat /\ nextKek' \in Nat
    BY <1>5 DEF RotateDerive, TypeInv, TypeOK
  <2>2. Moved("begin", Call("ROTATE_KEK", None, None, 0, 0, [kek |-> nextKek, pw |-> pw]))
    BY <1>5, <2>1 DEF RotateDerive, Goto, Call, NoAuth, Locals, Actions, Steps, Fit, TxnSteps, Writers
  <2> QED
    BY <1>5, <2>1, <2>2, MoveType DEF RotateDerive, TypeInv, TypeOK
<1>6. ASSUME ReadBounds(p) PROVE TypeInv'
  <2> DEFINE l(v, c) == Call(loc[p].act, loc[p].name, loc[p].val, v + 1, c + 1, NoAuth)
  <2>1. PICK v \in 0..IntMax, c \in 0..Int64Max :
            IF Exhausted(v, c) THEN Return(p)
            ELSE loc' = [loc EXCEPT ![p] = l(v, c)] /\ Goto(p, "begin")
    BY <1>6 DEF ReadBounds
  <2>2. CASE Exhausted(v, c)
    BY <1>6, <2>1, <2>2, ReturnType DEF ReadBounds, Return, TypeInv, TypeOK
  <2>3. CASE ~Exhausted(v, c)
    <3>1. v + 1 \in 1..IntMax /\ c + 1 \in 1..Int64Max /\ v + 1 \in Nat /\ c + 1 \in Nat
      BY <2>3 DEF Exhausted
    <3>2. loc[p].act \in Writers /\ loc[p].name \in Names /\ loc[p].val \in Values
      BY <1>0, <1>6 DEF ReadBounds, Fit, Writers, Actions
    <3>3. Moved("begin", l(v, c))
      BY <2>1, <2>3, <3>1, <3>2
      DEF Goto, Call, NoAuth, Locals, Actions, Steps, Fit, TxnSteps, Writers
    <3> QED
      BY <1>6, <3>3, MoveType DEF ReadBounds, TypeInv, TypeOK
  <2> QED
    BY <2>2, <2>3
<1>7. ASSUME ReadLastHash(p) PROVE TypeInv'
  <2>1. audit_get_last_hash(db.log) \in Nat /\ loc[p].act = "READ"
    BY <1>0, <1>7 DEF audit_get_last_hash, ReadLastHash, Fit
  <2>2. Moved("next", [loc[p] EXCEPT !.last = audit_get_last_hash(db.log)])
    BY <1>0, <1>7, <2>1 DEF ReadLastHash, Goto, Locals, Actions, Steps, Fit, TxnSteps, Writers
  <2> QED
    BY <1>7, <2>2, MoveType DEF ReadLastHash, TypeInv, TypeOK
<1>8. ASSUME ReadNextId(p) PROVE TypeInv'
  <2>1. audit_next_entry_id(db.log) \in Nat /\ loc[p].act = "READ"
    BY <1>0, <1>8 DEF audit_next_entry_id, ReadNextId, Fit
  <2>2. Moved("count", [loc[p] EXCEPT !.nid = audit_next_entry_id(db.log)])
    BY <1>0, <1>8, <2>1 DEF ReadNextId, Goto, Locals, Actions, Steps, Fit, TxnSteps, Writers
  <2> QED
    BY <1>8, <2>2, MoveType DEF ReadNextId, TypeInv, TypeOK
<1>9. ASSUME ReadCount(p) PROVE TypeInv'
  <2>1. audit_count_entries(db.log) \in Nat /\ loc[p].act = "READ"
    BY <1>0, <1>9 DEF audit_count_entries, ReadCount, Fit
  <2>2. Moved("append", [loc[p] EXCEPT !.cnt = audit_count_entries(db.log)])
    BY <1>0, <1>9, <2>1 DEF ReadCount, Goto, Locals, Actions, Steps, Fit, TxnSteps, Writers
  <2> QED
    BY <1>9, <2>2, MoveType DEF ReadCount, TypeInv, TypeOK
<1> QED
  BY <1>1, <1>2, <1>3, <1>4, <1>5, <1>6, <1>7, <1>8, <1>9 DEF StartOp

(* Then the steps of a transaction, up to its end. *)
LEMMA TxnTypes ==
    ASSUME TypeInv, NEW p \in Procs,
           \/ Begin(p) \/ Archive(p) \/ Insert(p) \/ RotateVerify(p) \/ RotateRewrap(p)
           \/ RotateAuth(p) \/ RotateResign(p) \/ LogInTxn(p)
    PROVE  TypeInv'
<1> USE VaultAssumption
<1>0. /\ work.rows \in SUBSET Row /\ work.log \in Seq(LogEntry) /\ work \in Database
      /\ loc[p] \in Locals /\ Fit(pc[p], loc[p])
      /\ loc[p].auth.kek \in Nat /\ sess[p] \in Nat /\ loc[p].act \in Actions \cup {None}
  BY DEF TypeInv, TypeOK, Database, Locals
<1> DEFINE Arrives(step) == Goto(p, step) /\ UNCHANGED loc /\ step \in Steps /\ Fit(step, loc[p])
<1>1. ASSUME Begin(p) PROVE TypeInv'
  <2>1. Arrives(FirstTxnStep(loc[p]))
    BY <1>0, <1>1 DEF Begin, FirstTxnStep, Steps, Fit, TxnSteps, Writers, Actions
  <2>2. writer' \in Procs \cup {None}
    BY <1>1 DEF Begin
  <2> QED
    BY <1>1, <2>1, <2>2, GotoType DEF Begin, TypeInv, TypeOK
<1>2. ASSUME Archive(p) PROVE TypeInv'
  <2>1. Arrives(IF loc[p].act = "DELETE" THEN "log" ELSE "insert")
    BY <1>0, <1>2 DEF Archive, Steps, Fit, TxnSteps, Writers, Actions
  <2>2. ArchiveRows(work.rows, loc[p].name) \in SUBSET Row
    BY <1>0, RowTypes
  <2>3. work' \in Database
    BY <1>0, <1>2, <2>2 DEF Archive, Database
  <2> QED
    BY <1>2, <2>1, <2>3, GotoType DEF Archive, TypeInv, TypeOK
<1>3. ASSUME Insert(p) PROVE TypeInv'
  <2>1. Arrives("log")
    BY <1>0, <1>3 DEF Insert, Steps, Fit, TxnSteps, Writers, Actions
  <2>2. /\ loc[p].name \in Names /\ loc[p].val \in Values
        /\ loc[p].ver \in 1..IntMax /\ loc[p].ctr \in 1..Int64Max
    BY <1>0, <1>3 DEF Insert, Fit, Writers, Actions
  <2>3. Encrypted(loc[p], sess[p]) \in Row
    BY <1>0, <2>2 DEF Encrypted, Row
  <2>4. work' \in Database
    BY <1>0, <1>3, <2>3 DEF Insert, Database
  <2> QED
    BY <1>3, <2>1, <2>4, GotoType DEF Insert, TypeInv, TypeOK
<1>4. ASSUME RotateVerify(p) PROVE TypeInv'
  <2>1. Arrives("rewrap")
    BY <1>0, <1>4 DEF RotateVerify, Steps, Fit, TxnSteps, Writers, Actions
  <2> QED
    BY <1>4, <2>1, GotoType DEF RotateVerify, TypeInv, TypeOK
<1>5. ASSUME RotateRewrap(p) PROVE TypeInv'
  <2>1. Arrives("auth")
    BY <1>0, <1>5 DEF RotateRewrap, Steps, Fit, TxnSteps, Writers, Actions
  <2>2. RewrapRows(work.rows, loc[p].auth.kek) \in SUBSET Row
    BY <1>0, RowTypes
  <2>3. work' \in Database
    BY <1>0, <1>5, <2>2 DEF RotateRewrap, Database
  <2> QED
    BY <1>5, <2>1, <2>3, GotoType DEF RotateRewrap, TypeInv, TypeOK
<1>6. ASSUME RotateAuth(p) PROVE TypeInv'
  <2>1. Arrives("resign")
    BY <1>0, <1>6 DEF RotateAuth, Steps, Fit, TxnSteps, Writers, Actions
  <2>2. loc[p].auth \in [kek: Nat, pw: Passwords]
    BY <1>0, <1>6 DEF RotateAuth, Fit, Locals
  <2>3. work' \in Database
    BY <1>0, <1>6, <2>2 DEF RotateAuth, Database
  <2> QED
    BY <1>6, <2>1, <2>3, GotoType DEF RotateAuth, TypeInv, TypeOK
<1>7. ASSUME RotateResign(p) PROVE TypeInv'
  <2>1. Arrives("log")
    BY <1>0, <1>7 DEF RotateResign, Steps, Fit, TxnSteps, Writers, Actions
  <2>2. audit_resign_chain(work.log, loc[p].auth.kek) \in Seq(LogEntry)
    BY <1>0, ResignType
  <2>3. work' \in Database
    BY <1>0, <1>7, <2>2 DEF RotateResign, Database
  <2> QED
    BY <1>7, <2>1, <2>3, GotoType DEF RotateResign, TypeInv, TypeOK
<1>8. ASSUME LogInTxn(p) PROVE TypeInv'
  <2>1. Arrives("commit") /\ loc[p].act \in Actions
    BY <1>0, <1>8 DEF LogInTxn, Steps, Fit, TxnSteps, Writers, Actions
  <2>2. SigningKey(p) \in Nat
    BY <1>0 DEF SigningKey
  <2>3. audit_log_event(work.log, SigningKey(p), loc[p].act, loc[p].name, loc[p].ver)
          \in Seq(LogEntry)
    <3>1. audit_get_last_hash(work.log) \in Nat /\ audit_count_entries(work.log) \in Nat
      BY <1>0 DEF audit_get_last_hash, audit_count_entries
    <3> QED
      BY <1>0, <2>1, <2>2, <3>1, EntryType DEF audit_log_event
  <2>4. work' \in Database
    BY <1>0, <1>8, <2>3 DEF LogInTxn, Database
  <2> QED
    BY <1>8, <2>1, <2>4, GotoType DEF LogInTxn, TypeInv, TypeOK
<1> QED
  BY <1>1, <1>2, <1>3, <1>4, <1>5, <1>6, <1>7, <1>8

(* Last the steps after which a process is idle or closed. *)
LEMMA EndTypes ==
    ASSUME TypeInv, NEW p \in Procs,
           \/ \E pw \in Passwords : Unlock(p, pw)
           \/ Lock(p) \/ Crash(p) \/ BeginFail(p) \/ Commit(p) \/ TxnFail(p)
           \/ AppendRead(p) \/ OpFail(p)
    PROVE  TypeInv'
<1>0. /\ db \in Database /\ db.log \in Seq(LogEntry) /\ db.auth.kek \in Nat
      /\ loc[p] \in Locals /\ Fit(pc[p], loc[p]) /\ loc[p].auth.kek \in Nat
      /\ sess \in [Procs -> Nat] /\ sess[p] \in Nat
      /\ loc[p].last \in Nat /\ loc[p].cnt \in Nat /\ loc[p].ver \in Nat
  BY DEF TypeInv, TypeOK, Database, Locals
<1>1. ASSUME NEW pw \in Passwords, Unlock(p, pw) PROVE TypeInv'
  <2>1. "idle" \in Steps /\ Fit("idle", loc[p])
    BY <1>0, <1>1 DEF Unlock, Steps, Fit, TxnSteps
  <2>2. sess' \in [Procs -> Nat]
    BY <1>0, <1>1 DEF Unlock
  <2> QED
    BY <1>1, <2>1, <2>2, GotoType DEF Unlock, TypeInv, TypeOK
<1>2. ASSUME Lock(p) PROVE TypeInv'
  <2>1. "closed" \in Steps /\ Fit("closed", loc[p])
    BY <1>0, <1>2 DEF Lock, Steps, Fit, TxnSteps
  <2>2. sess' \in [Procs -> Nat]
    BY <1>0, <1>2 DEF Lock
  <2> QED
    BY <1>2, <2>1, <2>2, GotoType DEF Lock, TypeInv, TypeOK
<1>3. ASSUME Crash(p) PROVE TypeInv'
  <2>1. sess' \in [Procs -> Nat]
    BY <1>0, <1>3 DEF Crash
  <2>2. work' \in Database /\ writer' \in Procs \cup {None}
    BY <1>0, <1>3 DEF Crash, TypeInv, TypeOK
  <2> QED
    BY <1>3, <2>1, <2>2, ReturnType DEF Crash, TypeInv, TypeOK
<1>4. ASSUME BeginFail(p) \/ OpFail(p) PROVE TypeInv'
  BY <1>4, ReturnType DEF BeginFail, OpFail, Return, TypeInv, TypeOK
<1>5. ASSUME Commit(p) PROVE TypeInv'
  <2>1. sess' \in [Procs -> Nat]
    BY <1>0, <1>5 DEF Commit, KeysAfter
  <2>2. db' \in Database /\ writer' \in Procs \cup {None}
    BY <1>5 DEF Commit, TypeInv, TypeOK
  <2> QED
    BY <1>5, <2>1, <2>2, ReturnType DEF Commit, Return, TypeInv, TypeOK
<1>6. ASSUME TxnFail(p) PROVE TypeInv'
  BY <1>6, ReturnType DEF TxnFail, Return, TypeInv, TypeOK
<1>7. ASSUME AppendRead(p) PROVE TypeInv'
  <2>1. loc[p].act \in Actions /\ loc[p].name \in Names /\ loc[p].val \in Values
    BY <1>0, <1>7 DEF AppendRead, Fit, Actions
  <2>2. Append(db.log, AuditEntry(loc[p].last, loc[p].cnt, sess[p],
                                  loc[p].act, loc[p].name, loc[p].ver)) \in Seq(LogEntry)
    BY <1>0, <2>1, EntryType
  <2>3. db' \in Database /\ work' \in Database
    BY <1>0, <1>7, <2>2 DEF AppendRead, Database
  <2>4. returned' \subseteq [name: Names, ver: Nat, val: Values]
    BY <1>0, <1>7, <2>1 DEF AppendRead, TypeInv, TypeOK
  <2> QED
    BY <1>7, <2>3, <2>4, ReturnType DEF AppendRead, Return, TypeInv, TypeOK
<1> QED
  BY <1>1, <1>2, <1>3, <1>4, <1>5, <1>6, <1>7

(* Every step keeps the types, one lemma per group of actions. *)
LEMMA NextType == TypeInv /\ [Next]_vars => TypeInv'
<1> SUFFICES ASSUME TypeInv, [Next]_vars PROVE TypeInv'
  OBVIOUS
<1>1. CASE UNCHANGED vars
  BY <1>1 DEF vars, TypeInv, TypeOK
<1>2. CASE Next
  BY <1>2, OpenTypes, TxnTypes, EndTypes DEF Next, Step
<1> QED
  BY <1>1, <1>2

(* Every variable always has its type: in particular no committed row has a *)
(* version or a nonce counter above INT_MAX or INT64_MAX, although both are *)
(* computed from reads made before the transaction (vault.c:2048).          *)
THEOREM TypeCorrect == Spec => []TypeOK
<1>1. TypeInv => TypeOK
  BY DEF TypeInv
<1> QED
  BY <1>1, InitType, NextType, PTL DEF Spec

-----------------------------------------------------------------------------
(* The table *)

(* Every row of A is still in B, at most archived or rewrapped. *)
Carries(A, B) ==
    \A r \in A : \E q \in B :
        /\ q.name = r.name /\ q.ver = r.ver /\ q.ctr = r.ctr /\ q.val = r.val
        /\ r.archived => q.archived

TableOK(rows) == LatestIsActive(rows) /\ Gapless(rows)

(* Versions 1..k of n are taken. *)
Taken(rows, n, k) == \A u \in 1..k : \E q \in RowsOf(rows, n) : q.ver = u

(* What a writer read before BEGIN stays true of every later table. *)
Reserved(p) ==
    pc[p] # "bounds" /\ loc[p].act \in Writers =>
        /\ loc[p].ctr = loc[p].ver
        /\ Taken(db.rows, loc[p].name, loc[p].ver - 1)

(* A and B have the same versions of n, with the same values. *)
SameHistory(A, B, n) ==
    /\ \A r \in RowsOf(A, n) : \E q \in RowsOf(B, n) : q.ver = r.ver /\ q.val = r.val
    /\ \A q \in RowsOf(B, n) : \E r \in RowsOf(A, n) : r.ver = q.ver /\ r.val = q.val

IsLive(rows, n) == Unarchived(rows, n) # {}

Same(A, B, n) == SameHistory(A, B, n) /\ (IsLive(A, n) <=> IsLive(B, n))

(* B is A with value x as a new version v of n, active. *)
Wrote(A, B, n, v, x) ==
    /\ \A r \in RowsOf(A, n) :
         r.ver # v /\ \E q \in RowsOf(B, n) : q.ver = r.ver /\ q.val = r.val
    /\ \E q \in RowsOf(B, n) : q.ver = v /\ q.val = x
    /\ \A q \in RowsOf(B, n) :
         q.ver = v \/ \E r \in RowsOf(A, n) : r.ver = q.ver /\ r.val = q.val
    /\ IsLive(B, n)

(* How the table of the open transaction differs from the committed one. *)
Written(p) ==
    LET l == loc[p] IN
    pc[p] \in TxnSteps =>
        /\ \A n \in Names : n # l.name => Same(db.rows, work.rows, n)
        /\ pc[p] = "archive" => Same(db.rows, work.rows, l.name)
        /\ pc[p] = "insert" => SameHistory(db.rows, work.rows, l.name)
        /\ pc[p] \in {"log", "commit"} /\ l.act \in Writers =>
              Wrote(db.rows, work.rows, l.name, l.ver, l.val)
        /\ pc[p] \in {"log", "commit"} /\ l.act = "DELETE" =>
              /\ SameHistory(db.rows, work.rows, l.name)
              /\ IsLive(db.rows, l.name) /\ ~IsLive(work.rows, l.name)

(* A rotation names no secret. *)
Nameless(p) == loc[p].act = "ROTATE_KEK" => loc[p].name = None

TableInv ==
    /\ TypeInv
    /\ NoTxnLeak
    /\ TableOK(db.rows)
    /\ TableOK(work.rows)
    /\ Carries(db.rows, work.rows)
    /\ \A p \in Procs : Reserved(p)

StoreInv ==
    /\ TableInv
    /\ \A p \in Procs : Written(p) /\ Nameless(p)

-----------------------------------------------------------------------------
(* What the statements of the transactions do to a table *)

(* A table carries its own rows. *)
LEMMA CarriesRefl == ASSUME NEW A PROVE Carries(A, A)
  BY DEF Carries

(* Rows carried through two changes are carried through both. *)
LEMMA CarriesTrans ==
    ASSUME NEW A, NEW B, NEW C, Carries(A, B), Carries(B, C)
    PROVE  Carries(A, C)
  BY DEF Carries

(* A version taken in a table is taken in any table that carries it. *)
LEMMA TakenMono ==
    ASSUME NEW A, NEW B, Carries(A, B), NEW n, NEW k, Taken(A, n, k)
    PROVE  Taken(B, n, k)
  BY DEF Taken, Carries, RowsOf

(* An UPDATE that keeps name, version, counter and value, and unarchives    *)
(* nothing, keeps the table well formed.                                    *)
LEMMA UpdateTable ==
    ASSUME NEW rows, TableOK(rows), NEW g, NEW new,
           new = {g[r] : r \in rows},
           \A r \in rows : /\ g[r].name = r.name /\ g[r].ver = r.ver
                           /\ g[r].ctr = r.ctr /\ g[r].val = r.val
                           /\ r.archived => g[r].archived
    PROVE  TableOK(new) /\ Carries(rows, new)
<1>1. \A r \in rows : g[r] \in new
  OBVIOUS
<1>2. \A q \in new : \E r \in rows : q = g[r]
  OBVIOUS
<1>3. Carries(rows, new)
  BY <1>1 DEF Carries
<1>4. LatestIsActive(new)
  <2> SUFFICES ASSUME NEW r \in new, ~r.archived, NEW q \in new, q.name = r.name
               PROVE  q.ver <= r.ver /\ (q # r => q.archived)
    BY DEF LatestIsActive, RowsOf
  <2>1. PICK r0 \in rows : r = g[r0]
    BY <1>2
  <2>2. PICK q0 \in rows : q = g[q0]
    BY <1>2
  <2> QED
    BY <2>1, <2>2 DEF TableOK, LatestIsActive, RowsOf
<1>5. Gapless(new)
  <2> SUFFICES ASSUME NEW r \in new
               PROVE  /\ r.ctr = r.ver
                      /\ \A v \in 1..r.ver : \E q \in RowsOf(new, r.name) : q.ver = v
                      /\ \A q \in RowsOf(new, r.name) : q.ver = r.ver => q = r
    BY DEF Gapless
  <2>1. PICK r0 \in rows : r = g[r0]
    BY <1>2
  <2>2. r.ctr = r.ver
    BY <2>1 DEF TableOK, Gapless
  <2>3. ASSUME NEW v \in 1..r.ver PROVE \E q \in RowsOf(new, r.name) : q.ver = v
    <3>1. PICK q0 \in rows : q0.name = r0.name /\ q0.ver = v
      BY <2>1 DEF TableOK, Gapless, RowsOf
    <3> QED
      BY <1>1, <2>1, <3>1 DEF RowsOf
  <2>4. ASSUME NEW q \in new, q.name = r.name, q.ver = r.ver PROVE q = r
    <3>1. PICK q0 \in rows : q = g[q0]
      BY <1>2
    <3>2. q0 = r0
      BY <2>1, <2>4, <3>1 DEF TableOK, Gapless, RowsOf
    <3> QED
      BY <2>1, <3>1, <3>2
  <2> QED
    BY <2>2, <2>3, <2>4 DEF RowsOf
<1> QED
  BY <1>3, <1>4, <1>5 DEF TableOK

(* vault_archive_active_secret is such an UPDATE. *)
LEMMA ArchiveTable ==
    ASSUME NEW rows \in SUBSET Row, NEW n, TableOK(rows)
    PROVE  TableOK(ArchiveRows(rows, n)) /\ Carries(rows, ArchiveRows(rows, n))
<1> DEFINE g == [r \in rows |->
                   IF r.name = n THEN [r EXCEPT !.archived = TRUE] ELSE r]
<1>1. ArchiveRows(rows, n) = {g[r] : r \in rows}
  BY DEF ArchiveRows
<1>2. \A r \in rows : /\ g[r].name = r.name /\ g[r].ver = r.ver
                      /\ g[r].ctr = r.ctr /\ g[r].val = r.val
                      /\ r.archived => g[r].archived
  BY DEF Row
<1> HIDE DEF g
<1> QED
  BY <1>1, <1>2, UpdateTable

(* key_manager_rotate_kek replaces nothing but the wrapping key. *)
LEMMA RewrapTable ==
    ASSUME NEW rows \in SUBSET Row, NEW k, TableOK(rows)
    PROVE  TableOK(RewrapRows(rows, k)) /\ Carries(rows, RewrapRows(rows, k))
<1> DEFINE g == [r \in rows |-> [r EXCEPT !.kek = k]]
<1>1. RewrapRows(rows, k) = {g[r] : r \in rows}
  BY DEF RewrapRows, Rewrapped
<1>2. \A r \in rows : /\ g[r].name = r.name /\ g[r].ver = r.ver
                      /\ g[r].ctr = r.ctr /\ g[r].val = r.val
                      /\ r.archived => g[r].archived
  BY DEF Row
<1> HIDE DEF g
<1> QED
  BY <1>1, <1>2, UpdateTable

(* vault_insert_secret: the constraints admit only the next version of a    *)
(* name none of whose rows is active.                                       *)
LEMMA InsertTable ==
    ASSUME NEW rows \in SUBSET Row, TableOK(rows), NEW x \in Row, ~x.archived,
           x.ctr = x.ver, ConstraintsAllow(rows, x.name, x.ver),
           Taken(rows, x.name, x.ver - 1)
    PROVE  TableOK(rows \cup {x}) /\ Carries(rows, rows \cup {x})
<1>1. x.ver \in 1..IntMax /\ \A r \in rows : r.ver \in 1..IntMax
  BY DEF Row
<1>2. \A r \in RowsOf(rows, x.name) : r.ver < x.ver /\ r.archived
  <2> SUFFICES ASSUME NEW r \in rows, r.name = x.name
               PROVE  r.ver < x.ver /\ r.archived
    BY DEF RowsOf
  <2>1. r.ver # x.ver
    BY DEF ConstraintsAllow, RowsOf
  <2>2. ASSUME r.ver > x.ver PROVE FALSE
    <3>1. x.ver \in 1..r.ver
      BY <1>1, <2>2, VaultAssumption
    <3>2. PICK q \in RowsOf(rows, x.name) : q.ver = x.ver
      BY <3>1 DEF TableOK, Gapless
    <3> QED
      BY <3>2 DEF ConstraintsAllow
  <2>3. r.archived
    BY DEF ConstraintsAllow, Unarchived, RowsOf
  <2> QED
    BY <1>1, <2>1, <2>2, <2>3, VaultAssumption
<1>3. LatestIsActive(rows \cup {x})
  <2> SUFFICES ASSUME NEW r \in rows \cup {x}, ~r.archived,
                      NEW q \in rows \cup {x}, q.name = r.name
               PROVE  q.ver <= r.ver /\ (q # r => q.archived)
    BY DEF LatestIsActive, RowsOf
  <2>1. CASE r.name = x.name
    <3>1. r = x
      BY <1>2, <2>1 DEF RowsOf
    <3>2. q = x \/ (q.ver < x.ver /\ q.archived)
      BY <1>2, <3>1 DEF RowsOf
    <3> QED
      BY <1>1, <3>1, <3>2, VaultAssumption
  <2>2. CASE r.name # x.name
    BY <2>2 DEF TableOK, LatestIsActive, RowsOf
  <2> QED
    BY <2>1, <2>2
<1>4. Gapless(rows \cup {x})
  <2> SUFFICES ASSUME NEW r \in rows \cup {x}
               PROVE  /\ r.ctr = r.ver
                      /\ \A v \in 1..r.ver : \E q \in RowsOf(rows \cup {x}, r.name) : q.ver = v
                      /\ \A q \in RowsOf(rows \cup {x}, r.name) : q.ver = r.ver => q = r
    BY DEF Gapless
  <2>1. r.ctr = r.ver
    BY DEF TableOK, Gapless
  <2>2. ASSUME NEW v \in 1..r.ver PROVE \E q \in rows \cup {x} : q.name = r.name /\ q.ver = v
    <3>1. CASE r \in rows
      BY <3>1, <2>2 DEF TableOK, Gapless, RowsOf
    <3>2. CASE r = x
      <4>1. v = x.ver \/ v \in 1..(x.ver - 1)
        BY <1>1, <3>2, VaultAssumption
      <4> QED
        BY <3>2, <4>1 DEF Taken, RowsOf
    <3> QED
      BY <3>1, <3>2
  <2>3. ASSUME NEW q \in rows \cup {x}, q.name = r.name, q.ver = r.ver PROVE q = r
    <3>1. CASE r \in rows /\ q \in rows
      BY <2>3, <3>1 DEF TableOK, Gapless, RowsOf
    <3>2. CASE ~(r \in rows /\ q \in rows)
      BY <1>1, <1>2, <2>3, <3>2 DEF RowsOf
    <3> QED
      BY <3>1, <3>2
  <2> QED
    BY <2>1, <2>2, <2>3 DEF RowsOf
<1>5. Carries(rows, rows \cup {x})
  BY DEF Carries
<1> QED
  BY <1>3, <1>4, <1>5 DEF TableOK

(* vault_find_secret_history_bounds on a well-formed table: both maxima are *)
(* the number of versions, and all of them are taken.                       *)
LEMMA BoundsTable ==
    ASSUME NEW rows \in SUBSET Row, TableOK(rows), NEW n,
           NEW v \in Nat, NEW c \in Nat, HistoryBounds(rows, n, v, c)
    PROVE  c = v /\ Taken(rows, n, v)
<1>1. CASE RowsOf(rows, n) = {}
  BY <1>1 DEF HistoryBounds, Taken
<1>2. CASE RowsOf(rows, n) # {}
  <2>1. PICK r \in rows : r.name = n /\ r.ver = v
    BY <1>2 DEF HistoryBounds, RowsOf
  <2>2. PICK q \in rows : q.name = n /\ q.ctr = c
    BY <1>2 DEF HistoryBounds, RowsOf
  <2>3. r.ctr = v /\ q.ver = c
    BY <2>1, <2>2 DEF TableOK, Gapless
  <2>4. r.ctr <= c /\ q.ver <= v
    BY <1>2, <2>1, <2>2 DEF HistoryBounds, RowsOf
  <2>5. Taken(rows, n, v)
    BY <2>1 DEF TableOK, Gapless, Taken
  <2> QED
    BY <2>3, <2>4, <2>5
<1> QED
  BY <1>1, <1>2

-----------------------------------------------------------------------------
(* The invariant *)

(* The empty table of a new vault satisfies the invariant. *)
LEMMA InitTable == Init => TableInv
<1> SUFFICES ASSUME Init PROVE TableInv
  OBVIOUS
<1>1. TypeInv
  BY InitType
<1>2. NoTxnLeak
  BY VaultAssumption DEF Init, NoTxnLeak, TxnSteps
<1>3. db.rows = {} /\ work.rows = {}
  BY DEF Init
<1>4. TableOK(db.rows) /\ TableOK(work.rows) /\ Carries(db.rows, work.rows)
  BY <1>3 DEF TableOK, LatestIsActive, Gapless, Carries
<1>5. \A p \in Procs : Reserved(p)
  BY NoLocalsType, VaultAssumption DEF Init, Reserved, Writers, Actions
<1> QED
  BY <1>1, <1>2, <1>4, <1>5 DEF TableInv

(* The write lock: who owns it, and that it leaves nothing behind. *)
LEMMA NextLeak ==
    ASSUME TypeInv, NoTxnLeak, [Next]_vars
    PROVE  NoTxnLeak'
<1>0. /\ None \notin Procs /\ pc \in [Procs -> Steps]
      /\ \A p \in Procs : pc[p] \in TxnSteps <=> writer = p
      /\ writer = None => work = db
  BY VaultAssumption DEF TypeInv, TypeOK, NoTxnLeak
<1>1. CASE UNCHANGED vars
  BY <1>1 DEF vars, NoTxnLeak
<1>2. ASSUME NEW p \in Procs, NEW step,
             Goto(p, step), step \notin TxnSteps, pc[p] \notin TxnSteps,
             UNCHANGED <<db, work, writer>>
      PROVE  NoTxnLeak'
  BY <1>0, <1>2 DEF NoTxnLeak, Goto
<1>3. ASSUME NEW p \in Procs, NEW step,
             Goto(p, step), step \in TxnSteps, pc[p] \in TxnSteps,
             UNCHANGED writer
      PROVE  NoTxnLeak'
  BY <1>0, <1>3 DEF NoTxnLeak, Goto
<1>4. ASSUME NEW p \in Procs, NEW step,
             Goto(p, step), step \notin TxnSteps, pc[p] \in TxnSteps,
             writer' = None, work' = db'
      PROVE  NoTxnLeak'
  BY <1>0, <1>4 DEF NoTxnLeak, Goto
<1>5. ASSUME NEW p \in Procs, NEW pw \in Passwords, Unlock(p, pw) PROVE NoTxnLeak'
  BY <1>2, <1>5 DEF Unlock, TxnSteps
<1>6. ASSUME NEW p \in Procs, Lock(p) PROVE NoTxnLeak'
  BY <1>2, <1>6 DEF Lock, TxnSteps
<1>7. ASSUME NEW p \in Procs, Crash(p) PROVE NoTxnLeak'
  <2>1. CASE writer = p
    BY <1>0, <1>4, <1>7, <2>1 DEF Crash, TxnSteps
  <2>2. CASE writer # p
    BY <1>0, <1>2, <1>7, <2>2 DEF Crash, TxnSteps
  <2> QED
    BY <2>1, <2>2
<1>8. ASSUME NEW p \in Procs, StartOp(p) PROVE NoTxnLeak'
  <2>1. /\ pc[p] = "idle" /\ UNCHANGED <<db, work, writer>>
        /\ \E step \in {"bounds", "begin", "last"} : Goto(p, step)
    BY <1>8 DEF StartOp, PutFind, RollbackFind, DeleteFind, GetFind, RotateDerive, MayStart
  <2> QED
    BY <1>2, <2>1 DEF TxnSteps
<1>9. ASSUME NEW p \in Procs, Step(p) PROVE NoTxnLeak'
  <2>1. CASE ReadBounds(p) \/ BeginFail(p) \/ ReadLastHash(p) \/ ReadNextId(p)
             \/ ReadCount(p) \/ OpFail(p)
    <3>1. /\ pc[p] \notin TxnSteps /\ UNCHANGED <<db, work, writer>>
          /\ \E step \in {"idle", "begin", "next", "count", "append"} : Goto(p, step)
      BY <2>1 DEF ReadBounds, BeginFail, ReadLastHash, ReadNextId, ReadCount, OpFail,
        OpenSteps, Return, TxnSteps
    <3> QED
      BY <1>2, <3>1 DEF TxnSteps
  <2>2. CASE Begin(p)
    BY <1>0, <2>2 DEF Begin, Goto, FirstTxnStep, TxnSteps, NoTxnLeak
  <2>3. CASE \/ Archive(p) \/ Insert(p) \/ RotateVerify(p) \/ RotateRewrap(p)
             \/ RotateAuth(p) \/ RotateResign(p) \/ LogInTxn(p)
    <3>1. /\ pc[p] \in TxnSteps /\ UNCHANGED writer
          /\ \E step \in TxnSteps : Goto(p, step)
      BY <2>3 DEF Archive, Insert, RotateVerify, RotateRewrap, RotateAuth,
        RotateResign, LogInTxn, TxnSteps
    <3> QED
      BY <1>3, <3>1
  <2>4. CASE Commit(p) \/ TxnFail(p)
    <3>1. pc[p] \in TxnSteps /\ Goto(p, "idle") /\ writer' = None /\ work' = db'
      BY <2>4 DEF Commit, TxnFail, Return, TxnSteps
    <3> QED
      BY <1>4, <3>1 DEF TxnSteps
  <2>5. CASE AppendRead(p)
    <3>1. /\ pc[p] = "append" /\ Goto(p, "idle")
          /\ writer = None /\ writer' = None /\ work' = db'
      BY <2>5 DEF AppendRead, Return
    <3> QED
      BY <1>0, <3>1 DEF NoTxnLeak, Goto, TxnSteps
  <2> QED
    BY <1>9, <2>1, <2>2, <2>3, <2>4, <2>5 DEF Step
<1> QED
  BY <1>1, <1>5, <1>6, <1>7, <1>8, <1>9 DEF Next

(* A step of one process leaves the step and locals of the others alone. *)
LEMMA OthersStay ==
    ASSUME TypeInv, NEW p \in Procs, NEW q \in Procs, p # q,
           \/ \E pw \in Passwords : Unlock(p, pw)
           \/ Lock(p) \/ Crash(p) \/ StartOp(p) \/ Step(p)
    PROVE  loc'[q] = loc[q] /\ pc'[q] = pc[q] /\ sess'[q] = sess[q]
<1>1. pc \in [Procs -> Steps] /\ loc \in [Procs -> Locals] /\ sess \in [Procs -> Nat]
  BY DEF TypeInv, TypeOK
<1> QED
  BY <1>1 DEF Unlock, Lock, Crash, StartOp, PutFind, RollbackFind, DeleteFind,
    GetFind, RotateDerive, Step, ReadBounds, Begin, BeginFail, Archive, Insert,
    RotateVerify, RotateRewrap, RotateAuth, RotateResign, LogInTxn, Commit, TxnFail,
    ReadLastHash, ReadNextId, ReadCount, AppendRead, OpFail, Return, Goto, KeysAfter

(* Nobody else touches the database while a process is in a transaction. *)
LEMMA WriterAlone ==
    ASSUME TypeInv, NoTxnLeak, NEW p \in Procs, NEW q \in Procs, p # q,
           pc[q] \in TxnSteps,
           \/ \E pw \in Passwords : Unlock(p, pw)
           \/ Lock(p) \/ Crash(p) \/ StartOp(p) \/ Step(p)
    PROVE  db' = db /\ work' = work
<1>1. writer = q /\ writer # p /\ writer # None /\ pc[p] \notin TxnSteps
  BY VaultAssumption DEF NoTxnLeak
<1> QED
  BY <1>1 DEF Unlock, Lock, Crash, StartOp, PutFind, RollbackFind,
    DeleteFind, GetFind, RotateDerive, Step, ReadBounds, Begin, BeginFail, Archive,
    Insert, RotateVerify, RotateRewrap, RotateAuth, RotateResign, LogInTxn, Commit,
    TxnFail, ReadLastHash, ReadNextId, ReadCount, AppendRead, OpFail, TxnSteps

(* Who writes db: a reader or the committing writer.  Any other step leaves *)
(* it alone, and gives its session no keys but the current ones.            *)
LEMMA DbWriters ==
    ASSUME TypeInv, [Next]_vars, \A p \in Procs : ~AppendRead(p) /\ ~Commit(p)
    PROVE  /\ db' = db
           /\ \A p \in Procs : sess'[p] \in {0, sess[p], db.auth.kek}
<1>0. sess \in [Procs -> Nat]
  BY DEF TypeInv, TypeOK
<1>1. CASE UNCHANGED vars
  BY <1>1 DEF vars
<1>2. ASSUME NEW p \in Procs, \/ \E pw \in Passwords : Unlock(p, pw)
                              \/ Lock(p) \/ Crash(p)
      PROVE  db' = db /\ \A q \in Procs : sess'[q] \in {0, sess[q], db.auth.kek}
  BY <1>0, <1>2 DEF Unlock, Lock, Crash
<1>3. ASSUME NEW p \in Procs, StartOp(p)
      PROVE  db' = db /\ sess' = sess
  BY <1>3 DEF StartOp, PutFind, RollbackFind, DeleteFind, GetFind, RotateDerive
<1>4. ASSUME NEW p \in Procs, Step(p)
      PROVE  db' = db /\ sess' = sess
  <2>1. CASE \/ ReadBounds(p) \/ Begin(p) \/ BeginFail(p) \/ Archive(p) \/ Insert(p)
             \/ ReadLastHash(p) \/ ReadNextId(p) \/ ReadCount(p) \/ OpFail(p)
    BY <2>1 DEF ReadBounds, Begin, BeginFail, Archive, Insert, ReadLastHash, ReadNextId,
      ReadCount, OpFail
  <2>2. CASE \/ RotateVerify(p) \/ RotateRewrap(p) \/ RotateAuth(p) \/ RotateResign(p)
             \/ LogInTxn(p) \/ TxnFail(p)
    BY <2>2 DEF RotateVerify, RotateRewrap, RotateAuth, RotateResign, LogInTxn, TxnFail
  <2> QED
    BY <1>4, <2>1, <2>2 DEF Step
<1> QED
  BY <1>0, <1>1, <1>2, <1>3, <1>4 DEF Next

(* Each step leaves two well-formed tables, loses no committed row, and the *)
(* uncommitted table still carries the committed one.                       *)
LEMMA NextRows ==
    ASSUME TableInv, [Next]_vars
    PROVE  /\ TableOK(db'.rows) /\ TableOK(work'.rows)
           /\ Carries(db'.rows, work'.rows) /\ Carries(db.rows, db'.rows)
<1>0. /\ db \in Database /\ work \in Database
      /\ db.rows \in SUBSET Row /\ work.rows \in SUBSET Row
      /\ TableOK(db.rows) /\ TableOK(work.rows) /\ Carries(db.rows, work.rows)
      /\ Carries(db.rows, db.rows) /\ Carries(work.rows, work.rows)
  BY CarriesRefl DEF TableInv, TypeInv, TypeOK, Database
<1>1. ASSUME db'.rows = db.rows, work'.rows = work.rows \/ work'.rows = db'.rows
      PROVE  /\ TableOK(db'.rows) /\ TableOK(work'.rows)
             /\ Carries(db'.rows, work'.rows) /\ Carries(db.rows, db'.rows)
  BY <1>0, <1>1
<1>2. ASSUME NEW p \in Procs, Archive(p)
      PROVE  db' = db /\ TableOK(work'.rows) /\ Carries(db.rows, work'.rows)
  <2>1. db' = db /\ work'.rows = ArchiveRows(work.rows, loc[p].name)
    BY <1>0, <1>2 DEF Archive, Database
  <2> QED
    BY <1>0, <2>1, ArchiveTable, CarriesTrans
<1>3. ASSUME NEW p \in Procs, Insert(p)
      PROVE  db' = db /\ TableOK(work'.rows) /\ Carries(db.rows, work'.rows)
  <2> DEFINE x == Encrypted(loc[p], sess[p])
  <2>1. db' = db /\ work'.rows = work.rows \cup {x} /\ pc[p] = "insert"
    BY <1>0, <1>3 DEF Insert, Database
  <2>2. /\ loc[p].act \in Writers /\ loc[p].name \in Names /\ loc[p].val \in Values
        /\ loc[p].ver \in 1..IntMax /\ loc[p].ctr \in 1..Int64Max /\ sess[p] \in Nat
    BY <2>1 DEF TableInv, TypeInv, TypeOK, Fit, Writers, Actions
  <2>3. x \in Row /\ x.name = loc[p].name /\ x.ver = loc[p].ver /\ x.ctr = loc[p].ctr
        /\ ~x.archived
    BY <2>2 DEF Encrypted, Row
  <2>4. loc[p].ctr = loc[p].ver /\ Taken(db.rows, loc[p].name, loc[p].ver - 1)
    BY <2>1, <2>2 DEF TableInv, Reserved
  <2>5. Taken(work.rows, loc[p].name, loc[p].ver - 1)
    BY <1>0, <2>4, TakenMono
  <2>6. ConstraintsAllow(work.rows, loc[p].name, loc[p].ver)
    BY <1>3 DEF Insert
  <2> HIDE DEF x
  <2>7. TableOK(work.rows \cup {x}) /\ Carries(work.rows, work.rows \cup {x})
    BY <1>0, <2>3, <2>4, <2>5, <2>6, InsertTable
  <2> QED
    BY <1>0, <2>1, <2>7, CarriesTrans
<1>4. ASSUME NEW p \in Procs, RotateRewrap(p)
      PROVE  db' = db /\ TableOK(work'.rows) /\ Carries(db.rows, work'.rows)
  <2>1. db' = db /\ work'.rows = RewrapRows(work.rows, loc[p].auth.kek)
    BY <1>0, <1>4 DEF RotateRewrap, Database
  <2> QED
    BY <1>0, <2>1, RewrapTable, CarriesTrans
<1>5. ASSUME NEW p \in Procs, Commit(p)
      PROVE  db' = work /\ work' = work
  BY <1>5 DEF Commit
<1>6. ASSUME NEW p \in Procs,
             \/ RotateAuth(p) \/ RotateResign(p) \/ LogInTxn(p) \/ RotateVerify(p)
             \/ Begin(p) \/ BeginFail(p) \/ TxnFail(p) \/ AppendRead(p) \/ OpFail(p)
             \/ ReadBounds(p) \/ ReadLastHash(p) \/ ReadNextId(p) \/ ReadCount(p)
      PROVE  db'.rows = db.rows /\ (work'.rows = work.rows \/ work'.rows = db'.rows)
  BY <1>0, <1>6 DEF RotateAuth, RotateResign, LogInTxn, RotateVerify, Begin, BeginFail,
    TxnFail, AppendRead, OpFail, ReadBounds, ReadLastHash, ReadNextId, ReadCount, Database
<1>7. ASSUME NEW p \in Procs,
             \/ \E pw \in Passwords : Unlock(p, pw)
             \/ Lock(p) \/ Crash(p) \/ StartOp(p)
      PROVE  db' = db /\ (work' = work \/ work' = db')
  BY <1>7 DEF Unlock, Lock, Crash, StartOp, PutFind, RollbackFind, DeleteFind, GetFind,
    RotateDerive
<1>8. CASE UNCHANGED vars
  BY <1>1, <1>8 DEF vars
<1>9. CASE Next
  <2>1. PICK p \in Procs : \/ \E pw \in Passwords : Unlock(p, pw)
                           \/ Lock(p) \/ Crash(p) \/ StartOp(p) \/ Step(p)
    BY <1>9 DEF Next
  <2> QED
    BY <1>0, <1>1, <1>2, <1>3, <1>4, <1>5, <1>6, <1>7, <2>1 DEF Step
<1> QED
  BY <1>8, <1>9

(* Reads made before the transaction stay valid lower bounds. *)
LEMMA NextReserved ==
    ASSUME TableInv, [Next]_vars, Carries(db.rows, db'.rows), NEW q \in Procs
    PROVE  Reserved(q)'
<1>0. /\ pc \in [Procs -> Steps] /\ loc \in [Procs -> Locals] /\ Reserved(q)
      /\ db.rows \in SUBSET Row /\ TableOK(db.rows) /\ Fit(pc[q], loc[q])
  BY DEF TableInv, TypeInv, TypeOK, Database
<1>1. ASSUME loc'[q] = loc[q], pc[q] # "bounds" \/ pc'[q] = "bounds"
      PROVE  Reserved(q)'
  BY <1>0, <1>1, TakenMono DEF Reserved
<1>2. ASSUME loc'[q].act \notin Writers \/ pc'[q] = "bounds"
      PROVE  Reserved(q)'
  BY <1>2 DEF Reserved
<1>3. ASSUME Goto(q, "idle") \/ Goto(q, "closed"), loc' = [loc EXCEPT ![q] = NoLocals]
      PROVE  Reserved(q)'
  BY <1>0, <1>2, <1>3, NoLocalsType, VaultAssumption DEF Writers, Actions
<1>4. ASSUME StartOp(q) PROVE Reserved(q)'
  BY <1>0, <1>2, <1>4 DEF StartOp, PutFind, RollbackFind, DeleteFind, GetFind,
    RotateDerive, Goto, Call, Writers
<1>5. ASSUME ReadBounds(q) PROVE Reserved(q)'
  <2>1. PICK v \in 0..IntMax, c \in 0..Int64Max :
            /\ HistoryBounds(db.rows, loc[q].name, v, c)
            /\ IF Exhausted(v, c) THEN Return(q)
               ELSE /\ loc' = [loc EXCEPT ![q] = Call(loc[q].act, loc[q].name,
                                                loc[q].val, v + 1, c + 1, NoAuth)]
                    /\ Goto(q, "begin")
    BY <1>5 DEF ReadBounds
  <2>2. CASE Exhausted(v, c)
    BY <1>3, <2>1, <2>2 DEF Return
  <2>3. CASE ~Exhausted(v, c)
    <3>1. c = v /\ Taken(db.rows, loc[q].name, v)
      BY <1>0, <2>1, BoundsTable, VaultAssumption
    <3>2. loc'[q].name = loc[q].name /\ loc'[q].ver = v + 1 /\ loc'[q].ctr = c + 1
      BY <1>0, <2>1, <2>3 DEF Call
    <3>3. Taken(db'.rows, loc[q].name, v) /\ (v + 1) - 1 = v
      BY <3>1, TakenMono
    <3> QED
      BY <3>1, <3>2, <3>3 DEF Reserved
  <2> QED
    BY <2>2, <2>3
<1>6. ASSUME Step(q) PROVE Reserved(q)'
  <2>1. CASE BeginFail(q) \/ Commit(q) \/ TxnFail(q) \/ AppendRead(q) \/ OpFail(q)
    BY <1>3, <2>1 DEF BeginFail, Commit, TxnFail, AppendRead, OpFail, Return
  <2>2. CASE \/ Begin(q) \/ Archive(q) \/ Insert(q) \/ RotateVerify(q) \/ RotateRewrap(q)
             \/ RotateAuth(q) \/ RotateResign(q) \/ LogInTxn(q)
    BY <1>1, <2>2 DEF Begin, Archive, Insert, RotateVerify, RotateRewrap, RotateAuth,
      RotateResign, LogInTxn
  <2>3. CASE ReadLastHash(q) \/ ReadNextId(q) \/ ReadCount(q)
    <3>1. loc[q].act = "READ"
      BY <1>0, <2>3 DEF ReadLastHash, ReadNextId, ReadCount, Fit
    <3>2. loc'[q].act = loc[q].act
      BY <1>0, <2>3 DEF ReadLastHash, ReadNextId, ReadCount, Locals
    <3> QED
      BY <1>2, <3>1, <3>2 DEF Writers
  <2> QED
    BY <1>5, <1>6, <2>1, <2>2, <2>3 DEF Step
<1>7. ASSUME NEW p \in Procs, p # q,
             \/ \E pw \in Passwords : Unlock(p, pw)
             \/ Lock(p) \/ Crash(p) \/ StartOp(p) \/ Step(p)
      PROVE  loc'[q] = loc[q] /\ pc'[q] = pc[q]
  BY <1>7, OthersStay DEF TableInv
<1>8. CASE UNCHANGED vars
  BY <1>1, <1>8 DEF vars
<1>9. ASSUME \/ \E pw \in Passwords : Unlock(q, pw)
             \/ Lock(q) \/ Crash(q)
      PROVE  Reserved(q)'
  BY <1>0, <1>1, <1>3, <1>9 DEF Unlock, Lock, Crash
<1>10. CASE Next
  BY <1>1, <1>4, <1>6, <1>7, <1>9, <1>10 DEF Next
<1> QED
  BY <1>8, <1>10

(* Every step keeps the invariant on the secrets table. *)
LEMMA NextTable == TableInv /\ [Next]_vars => TableInv'
<1> SUFFICES ASSUME TableInv, [Next]_vars PROVE TableInv'
  OBVIOUS
<1>1. TypeInv' /\ NoTxnLeak'
  BY NextType, NextLeak DEF TableInv
<1> QED
  BY <1>1, NextRows, NextReserved DEF TableInv

(* The invariant on the secrets table holds in every behaviour. *)
LEMMA TableInvariant == Spec => []TableInv
  BY InitTable, NextTable, PTL DEF Spec

-----------------------------------------------------------------------------
(* Results *)

(* Whatever the interleaving, the row that is not archived is the only one  *)
(* of its name and the highest version (VAULT_SQL_ACTIVE_ROW, vault.c:37).  *)
THEOREM ActiveIsLatestHolds == Spec => []ActiveIsLatest
<1>1. TableInv => ActiveIsLatest
  BY DEF TableInv, TableOK, ActiveIsLatest
<1> QED
  BY <1>1, TableInvariant, PTL

(* Versions and nonce counters have no gap and no reuse, although both are  *)
(* computed from a read made before BEGIN IMMEDIATE (vault.c:2024).         *)
THEOREM GaplessVersionsHolds == Spec => []GaplessVersions
<1>1. TableInv => GaplessVersions
  BY DEF TableInv, TableOK, GaplessVersions
<1> QED
  BY <1>1, TableInvariant, PTL

(* Every path out of a transaction, errors and crashes included, releases   *)
(* the write lock and drops what was not committed (storage.c:650-663).     *)
THEOREM NoTxnLeakHolds == Spec => []NoTxnLeak
<1>1. TableInv => NoTxnLeak
  BY DEF TableInv
<1> QED
  BY <1>1, TableInvariant, PTL

(* A committed version is never lost, rewritten or reactivated ("Updates    *)
(* never overwrite").                                                       *)
THEOREM HistoryImmutableHolds == Spec => HistoryImmutable
<1>1. TableInv /\ [Next]_vars =>
        [\A r \in db.rows : \E q \in db'.rows :
           /\ q.name = r.name /\ q.ver = r.ver /\ q.ctr = r.ctr /\ q.val = r.val
           /\ r.archived => q.archived]_db
  BY NextRows DEF Carries
<1> QED
  BY <1>1, TableInvariant, PTL DEF Spec, HistoryImmutable

-----------------------------------------------------------------------------
(* The refinement of SecretStore *)

(* A table has its own history. *)
LEMMA SameRefl == ASSUME NEW A, NEW n PROVE Same(A, A, n)
  BY DEF Same, SameHistory

(* Equal histories compose. *)
LEMMA SameTrans ==
    ASSUME NEW A, NEW B, NEW C, NEW n, SameHistory(A, B, n), SameHistory(B, C, n)
    PROVE  SameHistory(A, C, n)
  BY DEF SameHistory

(* An UPDATE that keeps name, version and value keeps every history; what   *)
(* it leaves unarchived stays active.                                       *)
LEMMA UpdateHistory ==
    ASSUME NEW rows, NEW g, NEW new, new = {g[r] : r \in rows},
           \A r \in rows : g[r].name = r.name /\ g[r].ver = r.ver /\ g[r].val = r.val,
           NEW n
    PROVE  /\ SameHistory(rows, new, n)
           /\ (\A r \in RowsOf(rows, n) : g[r].archived = r.archived) => Same(rows, new, n)
<1>1. \A r \in rows : g[r] \in new
  OBVIOUS
<1>2. \A q \in new : \E r \in rows : q = g[r]
  OBVIOUS
<1>3. SameHistory(rows, new, n)
  BY <1>1, <1>2 DEF SameHistory, RowsOf
<1>4. ASSUME \A r \in RowsOf(rows, n) : g[r].archived = r.archived
      PROVE  IsLive(rows, n) <=> IsLive(new, n)
  <2>1. ASSUME NEW r \in Unarchived(rows, n) PROVE g[r] \in Unarchived(new, n)
    BY <1>1, <1>4, <2>1 DEF Unarchived, RowsOf
  <2>2. ASSUME NEW q \in Unarchived(new, n) PROVE \E r \in Unarchived(rows, n) : q = g[r]
    BY <1>2, <1>4, <2>2 DEF Unarchived, RowsOf
  <2> QED
    BY <2>1, <2>2 DEF IsLive
<1> QED
  BY <1>3, <1>4 DEF Same

(* vault_archive_active_secret keeps the history and makes n inactive. *)
LEMMA ArchiveHistory ==
    ASSUME NEW rows \in SUBSET Row, NEW n
    PROVE  /\ SameHistory(rows, ArchiveRows(rows, n), n)
           /\ ~IsLive(ArchiveRows(rows, n), n)
           /\ \A m : m # n => Same(rows, ArchiveRows(rows, n), m)
<1> DEFINE g == [r \in rows |->
                   IF r.name = n THEN [r EXCEPT !.archived = TRUE] ELSE r]
           new == ArchiveRows(rows, n)
<1>1. new = {g[r] : r \in rows}
  BY DEF ArchiveRows
<1>2. \A r \in rows : /\ g[r].name = r.name /\ g[r].ver = r.ver /\ g[r].val = r.val
                      /\ r.name = n => g[r].archived
                      /\ r.name # n => g[r] = r
  BY DEF Row
<1>3. \A q \in new : \E r \in rows : q = g[r]
  BY <1>1
<1> HIDE DEF g, new
<1>4. SameHistory(rows, new, n)
  BY <1>1, <1>2, UpdateHistory, ZenonT(40)
<1>5. ~IsLive(new, n)
  BY <1>2, <1>3 DEF IsLive, Unarchived, RowsOf
<1>6. ASSUME NEW m, m # n PROVE Same(rows, new, m)
  <2>1. \A r \in RowsOf(rows, m) : g[r].archived = r.archived
    BY <1>2, <1>6 DEF RowsOf
  <2> QED
    BY <1>1, <1>2, <2>1, UpdateHistory
<1> QED
  BY <1>4, <1>5, <1>6 DEF new

(* key_manager_rotate_kek keeps histories and what is active. *)
LEMMA RewrapHistory ==
    ASSUME NEW rows \in SUBSET Row, NEW k, NEW n
    PROVE  Same(rows, RewrapRows(rows, k), n)
<1> DEFINE g == [r \in rows |-> [r EXCEPT !.kek = k]]
<1>1. RewrapRows(rows, k) = {g[r] : r \in rows}
  BY DEF RewrapRows, Rewrapped
<1>2. \A r \in rows : /\ g[r].name = r.name /\ g[r].ver = r.ver /\ g[r].val = r.val
                      /\ g[r].archived = r.archived
  BY DEF Row
<1> HIDE DEF g
<1>3. \A r \in RowsOf(rows, n) : g[r].archived = r.archived
  BY <1>2 DEF RowsOf
<1> QED
  BY <1>1, <1>2, <1>3, UpdateHistory

(* vault_insert_secret writes one version of one name. *)
LEMMA InsertHistory ==
    ASSUME NEW rows \in SUBSET Row, NEW x \in Row, ~x.archived,
           ConstraintsAllow(rows, x.name, x.ver)
    PROVE  /\ Wrote(rows, rows \cup {x}, x.name, x.ver, x.val)
           /\ \A m : m # x.name => Same(rows, rows \cup {x}, m)
<1>1. Wrote(rows, rows \cup {x}, x.name, x.ver, x.val)
  BY DEF Wrote, ConstraintsAllow, IsLive, Unarchived, RowsOf
<1>2. ASSUME NEW m, m # x.name PROVE Same(rows, rows \cup {x}, m)
  <2>1. RowsOf(rows \cup {x}, m) = RowsOf(rows, m)
    BY <1>2 DEF RowsOf
  <2> QED
    BY <2>1 DEF Same, SameHistory, IsLive, Unarchived
<1> QED
  BY <1>1, <1>2

(* A write to a table whose history of n is that of A is a write to A. *)
LEMMA WroteFrom ==
    ASSUME NEW A, NEW B, NEW C, NEW n, NEW v, NEW x,
           SameHistory(A, B, n), Wrote(B, C, n, v, x)
    PROVE  Wrote(A, C, n, v, x)
  BY DEF SameHistory, Wrote

(* The difference between the two tables, one case per statement. *)
LEMMA NextWritten ==
    ASSUME StoreInv, [Next]_vars, NEW q \in Procs
    PROVE  Written(q)' /\ Nameless(q)'
<1>0. /\ pc \in [Procs -> Steps] /\ loc \in [Procs -> Locals] /\ sess[q] \in Nat
      /\ db \in Database /\ work \in Database
      /\ db.rows \in SUBSET Row /\ work.rows \in SUBSET Row
      /\ TypeInv /\ NoTxnLeak /\ Written(q) /\ Nameless(q) /\ Fit(pc[q], loc[q])
  BY DEF StoreInv, TableInv, TypeInv, TypeOK, Database
<1>1. ASSUME pc'[q] \notin TxnSteps, Nameless(q)' PROVE Written(q)' /\ Nameless(q)'
  BY <1>1 DEF Written
<1>2. ASSUME pc'[q] = pc[q], loc'[q] = loc[q], db' = db, work' = work
      PROVE  Written(q)' /\ Nameless(q)'
  BY <1>0, <1>2 DEF Written, Nameless
<1>3. ASSUME Begin(q) PROVE Written(q)' /\ Nameless(q)'
  <2>1. /\ work = db /\ work' = db /\ db' = db /\ loc' = loc
        /\ pc'[q] \in {"archive", "insert", "verify"}
    BY <1>0, <1>3 DEF Begin, Goto, NoTxnLeak, FirstTxnStep
  <2> QED
    BY <1>0, <2>1, SameRefl DEF Written, Nameless, Same
<1>4. ASSUME Archive(q) PROVE Written(q)' /\ Nameless(q)'
  <2>1. /\ pc[q] = "archive" /\ db' = db /\ loc' = loc
        /\ work'.rows = ArchiveRows(work.rows, loc[q].name)
        /\ pc'[q] = IF loc[q].act = "DELETE" THEN "log" ELSE "insert"
        /\ loc[q].act # "ROLLBACK" => IsLive(work.rows, loc[q].name)
    BY <1>0, <1>4 DEF Archive, Goto, Database, IsLive
  <2>2. /\ Same(db.rows, work.rows, loc[q].name)
        /\ \A n \in Names : n # loc[q].name => Same(db.rows, work.rows, n)
    BY <1>0, <2>1 DEF Written, TxnSteps
  <2>3. /\ SameHistory(db.rows, work'.rows, loc[q].name)
        /\ ~IsLive(work'.rows, loc[q].name)
        /\ \A n \in Names : n # loc[q].name => Same(db.rows, work'.rows, n)
    <3> DEFINE new == ArchiveRows(work.rows, loc[q].name)
    <3>1. /\ SameHistory(work.rows, new, loc[q].name) /\ ~IsLive(new, loc[q].name)
          /\ \A n \in Names : n # loc[q].name => Same(work.rows, new, n)
      BY <1>0, ArchiveHistory DEF Database
    <3> HIDE DEF new
    <3>2. work'.rows = new
      BY <2>1 DEF new
    <3>3. SameHistory(db.rows, new, loc[q].name)
      BY <2>2, <3>1, SameTrans DEF Same
    <3>4. \A n \in Names : n # loc[q].name => Same(db.rows, new, n)
      BY <2>2, <3>1, SameTrans DEF Same
    <3> QED
      BY <3>1, <3>2, <3>3, <3>4
  <2>4. loc[q].act = "DELETE" => IsLive(db.rows, loc[q].name) /\ loc[q].act \notin Writers
    BY <2>1, <2>2 DEF Same, Writers
  <2> QED
    BY <1>0, <2>1, <2>3, <2>4 DEF Written, Nameless
<1>5. ASSUME Insert(q) PROVE Written(q)' /\ Nameless(q)'
  <2> DEFINE x == Encrypted(loc[q], sess[q])
  <2>1. /\ pc[q] = "insert" /\ pc'[q] = "log" /\ db' = db /\ loc' = loc
        /\ work'.rows = work.rows \cup {x}
        /\ ConstraintsAllow(work.rows, loc[q].name, loc[q].ver)
    BY <1>0, <1>5 DEF Insert, Goto, Database
  <2>2. /\ loc[q].act \in Writers /\ loc[q].name \in Names /\ loc[q].val \in Values
        /\ loc[q].ver \in 1..IntMax /\ loc[q].ctr \in 1..Int64Max
    BY <1>0, <2>1 DEF Fit, Writers, Actions
  <2>3. x \in Row /\ x.name = loc[q].name /\ x.ver = loc[q].ver /\ x.val = loc[q].val
        /\ ~x.archived
    BY <1>0, <2>2 DEF Encrypted, Row
  <2> HIDE DEF x
  <2>4. /\ SameHistory(db.rows, work.rows, loc[q].name)
        /\ \A n \in Names : n # loc[q].name => Same(db.rows, work.rows, n)
    BY <1>0, <2>1 DEF Written, TxnSteps
  <2>5. Wrote(db.rows, work'.rows, loc[q].name, loc[q].ver, loc[q].val)
    BY <1>0, <2>1, <2>3, <2>4, InsertHistory, WroteFrom
  <2>6. ASSUME NEW n \in Names, n # loc[q].name PROVE Same(db.rows, work'.rows, n)
    <3>1. Same(db.rows, work.rows, n) /\ Same(work.rows, work'.rows, n)
      BY <1>0, <2>1, <2>3, <2>4, <2>6, InsertHistory
    <3> QED
      BY <3>1, SameTrans DEF Same
  <2>7. loc[q].act # "DELETE"
    BY <2>2 DEF Writers
  <2> QED
    BY <1>0, <2>1, <2>5, <2>6, <2>7 DEF Written, Nameless
<1>6. ASSUME RotateVerify(q) \/ RotateRewrap(q) \/ RotateAuth(q) \/ RotateResign(q)
      PROVE  Written(q)' /\ Nameless(q)'
  <2>1. /\ loc[q].act = "ROTATE_KEK" /\ pc[q] \in TxnSteps /\ db' = db /\ loc' = loc
        /\ pc'[q] \in {"rewrap", "auth", "resign", "log"}
    BY <1>0, <1>6 DEF RotateVerify, RotateRewrap, RotateAuth, RotateResign, Goto, Fit, TxnSteps
  <2>2. work'.rows = work.rows \/ work'.rows = RewrapRows(work.rows, loc[q].auth.kek)
    BY <1>0, <1>6 DEF RotateVerify, RotateRewrap, RotateAuth, RotateResign, Database
  <2>3. \A n \in Names : n # loc[q].name => Same(db.rows, work.rows, n)
    BY <1>0, <2>1 DEF Written
  <2>4. \A n \in Names : n # loc[q].name => Same(db.rows, work'.rows, n)
    <3>1. work.rows \in SUBSET Row
      BY <1>0 DEF Database
    <3>2. CASE work'.rows = work.rows
      BY <2>3, <3>2
    <3>3. CASE work'.rows = RewrapRows(work.rows, loc[q].auth.kek)
      <4>1. \A n \in Names : Same(work.rows, work'.rows, n)
        BY <3>1, <3>3, RewrapHistory
      <4> QED
        BY <2>3, <4>1, SameTrans DEF Same
    <3> QED
      BY <2>2, <3>2, <3>3
  <2>5. loc[q].act \notin Writers \cup {"DELETE"}
    BY <2>1 DEF Writers
  <2> QED
    BY <1>0, <2>1, <2>4, <2>5 DEF Written, Nameless
<1>7. ASSUME LogInTxn(q) PROVE Written(q)' /\ Nameless(q)'
  <2>1. /\ pc[q] = "log" /\ pc'[q] = "commit" /\ db' = db /\ loc' = loc
        /\ work'.rows = work.rows
    BY <1>0, <1>7 DEF LogInTxn, Goto, Database
  <2> QED
    BY <1>0, <2>1 DEF Written, Nameless, TxnSteps
<1>8. ASSUME \/ \E pw \in Passwords : Unlock(q, pw)
             \/ Lock(q) \/ Crash(q) \/ StartOp(q) \/ ReadBounds(q) \/ BeginFail(q)
             \/ Commit(q) \/ TxnFail(q) \/ ReadLastHash(q) \/ ReadNextId(q) \/ ReadCount(q)
             \/ AppendRead(q) \/ OpFail(q)
       PROVE  pc'[q] \notin TxnSteps /\ Nameless(q)'
  <2>1. pc'[q] \notin TxnSteps
    BY <1>0, <1>8 DEF Unlock, Lock, Crash, StartOp, PutFind, RollbackFind, DeleteFind,
      GetFind, RotateDerive, ReadBounds, BeginFail, Commit, TxnFail, ReadLastHash,
      ReadNextId, ReadCount, AppendRead, OpFail, Return, Goto, TxnSteps
  <2> SUFFICES Nameless(q)'
    BY <2>1
  <2>2. CASE (\E pw \in Passwords : Unlock(q, pw)) \/ Lock(q)
    BY <1>0, <2>2 DEF Unlock, Lock, Nameless
  <2>3. CASE Crash(q) \/ BeginFail(q) \/ Commit(q) \/ TxnFail(q) \/ AppendRead(q) \/ OpFail(q)
    <3>1. loc'[q] = NoLocals
      BY <1>0, <2>3 DEF Crash, BeginFail, Commit, TxnFail, AppendRead, OpFail, Return
    <3> QED
      BY <3>1, NoLocalsType, VaultAssumption DEF Nameless, Actions
  <2>4. CASE StartOp(q)
    BY <1>0, <2>4 DEF StartOp, PutFind, RollbackFind, DeleteFind, GetFind, RotateDerive,
      Call, Nameless
  <2>5. CASE ReadBounds(q)
    <3>1. loc[q].act # "ROTATE_KEK"
      BY <1>0, <2>5 DEF ReadBounds, Fit, Writers
    <3>2. loc'[q].act = loc[q].act \/ loc'[q] = NoLocals
      BY <1>0, <2>5 DEF ReadBounds, Return, Call
    <3> QED
      BY <3>1, <3>2, NoLocalsType, VaultAssumption DEF Nameless, Actions
  <2>6. CASE ReadLastHash(q) \/ ReadNextId(q) \/ ReadCount(q)
    <3>1. loc'[q].act = loc[q].act /\ loc'[q].name = loc[q].name
      BY <1>0, <2>6 DEF ReadLastHash, ReadNextId, ReadCount, Locals
    <3> QED
      BY <1>0, <3>1 DEF Nameless
  <2> QED
    BY <1>8, <2>1, <2>2, <2>3, <2>4, <2>5, <2>6
<1>9. CASE UNCHANGED vars
  BY <1>2, <1>9 DEF vars
<1>10. CASE Next
  <2>1. PICK p \in Procs : \/ \E pw \in Passwords : Unlock(p, pw)
                           \/ Lock(p) \/ Crash(p) \/ StartOp(p) \/ Step(p)
    BY <1>10 DEF Next
  <2>2. CASE p = q
    BY <1>1, <1>3, <1>4, <1>5, <1>6, <1>7, <1>8, <2>1, <2>2 DEF Step
  <2>3. CASE p # q
    <3>1. loc'[q] = loc[q] /\ pc'[q] = pc[q]
      BY <1>0, <2>1, <2>3, OthersStay
    <3>2. pc[q] \in TxnSteps => db' = db /\ work' = work
      BY <1>0, <2>1, <2>3, WriterAlone
    <3>3. Nameless(q)'
      BY <1>0, <3>1 DEF Nameless
    <3> QED
      BY <1>1, <1>2, <3>1, <3>2, <3>3
  <2> QED
    BY <2>2, <2>3
<1> QED
  BY <1>9, <1>10

(* The invariant of the refinement holds initially and is kept by every     *)
(* step.                                                                    *)
LEMMA StoreSteps ==
    /\ Init => StoreInv
    /\ StoreInv /\ [Next]_vars => StoreInv'
<1>1. Init => StoreInv
  <2> SUFFICES ASSUME Init PROVE StoreInv
    OBVIOUS
  <2>1. \A p \in Procs : pc[p] \notin TxnSteps /\ loc[p] = NoLocals
    BY DEF Init, TxnSteps
  <2> QED
    BY <2>1, InitTable, NoLocalsType, VaultAssumption DEF StoreInv, Written, Nameless, Actions
<1>2. StoreInv /\ [Next]_vars => StoreInv'
  BY NextTable, NextWritten DEF StoreInv
<1> QED
  BY <1>1, <1>2

(* The value of a version is that of its only row. *)
LEMMA ValueIs ==
    ASSUME NEW rows, TableOK(rows), NEW r \in rows
    PROVE  ValueOf(rows, r.name, r.ver) = r.val
<1>1. \A q \in RowsOf(rows, r.name) : q.ver = r.ver => q = r
  BY DEF TableOK, Gapless
<1>2. r \in RowsOf(rows, r.name)
  BY DEF RowsOf
<1> DEFINE R == RowsOf(rows, r.name)
<1> HIDE DEF R
<1>3. (CHOOSE q \in R : q.ver = r.ver) = r
  BY <1>1, <1>2 DEF R
<1> QED
  BY <1>3 DEF ValueOf, R

(* Tables with the same history are the same store. *)
LEMMA SameStore ==
    ASSUME NEW A, NEW B, TableOK(A), TableOK(B), NEW n, SameHistory(A, B, n)
    PROVE  /\ VersionsOf(A, n) = VersionsOf(B, n)
           /\ \A v \in VersionsOf(A, n) : ValueOf(A, n, v) = ValueOf(B, n, v)
<1>1. VersionsOf(A, n) = VersionsOf(B, n)
  BY DEF SameHistory, VersionsOf
<1>2. ASSUME NEW v \in VersionsOf(A, n) PROVE ValueOf(A, n, v) = ValueOf(B, n, v)
  <2>1. PICK r \in A : r.name = n /\ r.ver = v
    BY DEF VersionsOf, RowsOf
  <2>2. PICK q \in B : q.name = n /\ q.ver = v /\ q.val = r.val
    BY <2>1 DEF SameHistory, RowsOf
  <2> QED
    BY <2>1, <2>2, ValueIs
<1> QED
  BY <1>1, <1>2

(* What was written, as versions and values. *)
LEMMA WroteStore ==
    ASSUME NEW A \in SUBSET Row, NEW B \in SUBSET Row, TableOK(A), TableOK(B),
           NEW n, NEW k \in 1..IntMax, NEW x, Taken(A, n, k - 1), Wrote(A, B, n, k, x)
    PROVE  /\ VersionsOf(A, n) = 1..(k - 1) /\ VersionsOf(B, n) = 1..k
           /\ \A v \in 1..k : ValueOf(B, n, v) = IF v = k THEN x ELSE ValueOf(A, n, v)
<1>0. \A r \in A \cup B : r.ver \in 1..IntMax
  BY DEF Row
<1>1. ASSUME NEW r \in RowsOf(A, n) PROVE r.ver \in 1..(k - 1)
  <2>1. r \in A /\ r.name = n /\ r.ver # k /\ r.ver \in 1..IntMax
    BY <1>0, <1>1 DEF RowsOf, Wrote
  <2>2. ASSUME r.ver > k PROVE FALSE
    <3>1. k \in 1..r.ver
      BY <2>1, <2>2, VaultAssumption
    <3>2. PICK q \in RowsOf(A, n) : q.ver = k
      BY <2>1, <3>1 DEF TableOK, Gapless
    <3> QED
      BY <3>2 DEF Wrote
  <2> QED
    BY <2>1, <2>2, VaultAssumption
<1>2. VersionsOf(A, n) = 1..(k - 1)
  BY <1>1 DEF VersionsOf, Taken
<1>3. VersionsOf(B, n) = VersionsOf(A, n) \cup {k}
  <2>1. ASSUME NEW v \in VersionsOf(A, n) PROVE v \in VersionsOf(B, n)
    BY <2>1 DEF VersionsOf, Wrote
  <2>2. k \in VersionsOf(B, n)
    BY DEF VersionsOf, Wrote
  <2>3. ASSUME NEW v \in VersionsOf(B, n) PROVE v \in VersionsOf(A, n) \cup {k}
    BY <2>3 DEF VersionsOf, Wrote
  <2> QED
    BY <2>1, <2>2, <2>3
<1>4. VersionsOf(B, n) = 1..k
  BY <1>2, <1>3, VaultAssumption
<1>5. ASSUME NEW v \in 1..(k - 1) PROVE ValueOf(B, n, v) = ValueOf(A, n, v)
  <2>1. PICK r \in A : r.name = n /\ r.ver = v /\ r \in RowsOf(A, n)
    BY <1>2, <1>5 DEF VersionsOf, RowsOf
  <2>2. PICK q \in B : q.name = n /\ q.ver = v /\ q.val = r.val
    BY <2>1 DEF Wrote, RowsOf
  <2> QED
    BY <2>1, <2>2, ValueIs
<1>6. ValueOf(B, n, k) = x
  <2>1. PICK q \in B : q.name = n /\ q.ver = k /\ q.val = x
    BY DEF Wrote, RowsOf
  <2> QED
    BY <2>1, ValueIs
<1>7. \A v \in 1..k : v = k \/ v \in 1..(k - 1)
  BY VaultAssumption
<1> QED
  BY <1>2, <1>4, <1>5, <1>6, <1>7

(* However processes interleave, crash or fail, and whatever their reads    *)
(* before BEGIN saw, the sequence of commits is a behaviour of the abstract *)
(* store: each writes the next version of one name or retires the active    *)
(* one, and rotations and reads change nothing.                             *)
THEOREM StoreImplemented == Spec => ImplementsStore
<1> DEFINE Hist(rows) == [n \in Names |->
                            [v \in VersionsOf(rows, n) |-> ValueOf(rows, n, v)]]
           Live(rows) == [n \in Names |-> Unarchived(rows, n) # {}]
<1>1. Init => Store!Init
  <2> SUFFICES ASSUME Init PROVE Store!Init
    OBVIOUS
  <2>1. \A n \in Names : VersionsOf(db.rows, n) = {} /\ Unarchived(db.rows, n) = {}
    BY DEF Init, VersionsOf, RowsOf, Unarchived
  <2>2. ASSUME NEW n \in Names
        PROVE  [v \in VersionsOf(db.rows, n) |-> ValueOf(db.rows, n, v)] = [v \in {} |-> v]
    <3> DEFINE V == VersionsOf(db.rows, n)  val(v) == ValueOf(db.rows, n, v)
    <3>1. V = {}
      BY <2>1
    <3> HIDE DEF V, val
    <3>2. [v \in V |-> val(v)] = [v \in {} |-> v]
      BY <3>1
    <3> QED
      BY <3>2 DEF V, val
  <2> QED
    BY <2>1, <2>2 DEF Store!Init
<1>2. StoreInv /\ StoreInv' /\ [Next]_vars => [Store!Next]_(Store!storeVars)
  <2> SUFFICES ASSUME StoreInv, StoreInv', [Next]_vars
               PROVE  Store!Next \/ (Hist(db'.rows) = Hist(db.rows)
                                     /\ Live(db'.rows) = Live(db.rows))
    BY DEF Store!storeVars
  <2>0. /\ TableOK(db.rows) /\ TableOK(work.rows) /\ TypeInv
        /\ db.rows \in SUBSET Row /\ work.rows \in SUBSET Row
    BY DEF StoreInv, TableInv, TypeInv, TypeOK, Database
  <2>1. CASE db'.rows = db.rows
    BY <2>1
  <2>2. ASSUME NEW p \in Procs, Commit(p)
        PROVE  Store!Next \/ (Hist(db'.rows) = Hist(db.rows)
                              /\ Live(db'.rows) = Live(db.rows))
    <3> DEFINE l == loc[p]
    <3>1. /\ db' = work /\ pc[p] = "commit" /\ Written(p) /\ Fit("commit", l) /\ Reserved(p)
          /\ Nameless(p)
      BY <2>2 DEF Commit, StoreInv, TableInv, TypeInv
    <3>2. \A n \in Names : n # l.name => Same(db.rows, db'.rows, n)
      BY <3>1 DEF Written, TxnSteps
    <3>3. ASSUME NEW n \in Names, SameHistory(db.rows, db'.rows, n)
          PROVE  Hist(db'.rows)[n] = Hist(db.rows)[n]
      BY <2>0, <3>1, <3>3, SameStore
    <3>4. CASE l.act = "ROTATE_KEK"
      <4>1. \A n \in Names : Same(db.rows, db'.rows, n)
        BY <3>1, <3>2, <3>4, VaultAssumption DEF Nameless
      <4>2. \A n \in Names : Hist(db'.rows)[n] = Hist(db.rows)[n]
        BY <3>3, <4>1 DEF Same
      <4>3. \A n \in Names : Live(db'.rows)[n] = Live(db.rows)[n]
        BY <4>1 DEF Same, IsLive
      <4> QED
        BY <4>2, <4>3
    <3>5. CASE l.act \in Writers
      <4>1. /\ l.name \in Names /\ l.val \in Values /\ l.ver \in 1..IntMax
            /\ Taken(db.rows, l.name, l.ver - 1)
            /\ Wrote(db.rows, db'.rows, l.name, l.ver, l.val)
        BY <3>1, <3>5 DEF Fit, Writers, Actions, Reserved, Written, TxnSteps
      <4>2. /\ VersionsOf(db.rows, l.name) = 1..(l.ver - 1)
            /\ VersionsOf(db'.rows, l.name) = 1..l.ver
            /\ \A v \in 1..l.ver : ValueOf(db'.rows, l.name, v) =
                 IF v = l.ver THEN l.val ELSE ValueOf(db.rows, l.name, v)
        <5> DEFINE A == db.rows  B == db'.rows
        <5>1. TableOK(A) /\ TableOK(B) /\ A \in SUBSET Row /\ B \in SUBSET Row
          BY <2>0, <3>1
        <5>2. /\ l.ver \in 1..IntMax /\ Taken(A, l.name, l.ver - 1)
              /\ Wrote(A, B, l.name, l.ver, l.val)
          BY <4>1
        <5> HIDE DEF A, B, l
        <5>3. /\ VersionsOf(A, l.name) = 1..(l.ver - 1) /\ VersionsOf(B, l.name) = 1..l.ver
              /\ \A v \in 1..l.ver : ValueOf(B, l.name, v) =
                   IF v = l.ver THEN l.val ELSE ValueOf(A, l.name, v)
          BY <5>1, <5>2, WroteStore
        <5> QED
          BY <5>3 DEF A, B
      <4>3. DOMAIN Hist(db.rows)[l.name] = 1..(l.ver - 1)
        BY <4>1, <4>2
      <4>4. Hist(db'.rows) = [Hist(db.rows) EXCEPT ![l.name] =
                                [v \in 1..l.ver |-> IF v = l.ver THEN l.val ELSE @[v]]]
        <5>1. ASSUME NEW n \in Names, n # l.name PROVE Hist(db'.rows)[n] = Hist(db.rows)[n]
          BY <3>2, <3>3, <5>1 DEF Same
        <5>2. Hist(db'.rows)[l.name] = [v \in 1..l.ver |->
                 IF v = l.ver THEN l.val ELSE Hist(db.rows)[l.name][v]]
          <6>1. \A v \in 1..l.ver : v # l.ver => v \in 1..(l.ver - 1)
            BY <4>1, VaultAssumption
          <6>2. \A v \in 1..(l.ver - 1) :
                   Hist(db.rows)[l.name][v] = ValueOf(db.rows, l.name, v)
            BY <4>1, <4>2
          <6>3. Hist(db'.rows)[l.name] =
                   [v \in 1..l.ver |-> ValueOf(db'.rows, l.name, v)]
            BY <4>1, <4>2
          <6>4. \A v \in 1..l.ver : ValueOf(db'.rows, l.name, v) =
                   IF v = l.ver THEN l.val ELSE Hist(db.rows)[l.name][v]
            BY <4>2, <6>1, <6>2
          <6> DEFINE f(v) == ValueOf(db'.rows, l.name, v)
                     g(v) == Hist(db.rows)[l.name][v]
                     k == l.ver
          <6>5. \A v \in 1..k : f(v) = IF v = k THEN l.val ELSE g(v)
            BY <6>4
          <6> HIDE DEF f, g, k
          <6>6. [v \in 1..k |-> f(v)] = [v \in 1..k |-> IF v = k THEN l.val ELSE g(v)]
            BY <6>5
          <6> QED
            BY <6>3, <6>6 DEF f, g, k
        <5> HIDE DEF l
        <5> QED
          BY <4>1, <5>1, <5>2
      <4>5. Live(db'.rows) = [Live(db.rows) EXCEPT ![l.name] = TRUE]
        BY <3>2, <4>1 DEF Wrote, Same, IsLive
      <4>6. Store!Write(l.name, l.ver, l.val)
        BY <4>3, <4>4, <4>5 DEF Store!Write
      <4> QED
        BY <4>1, <4>6 DEF Store!Next
    <3>6. CASE l.act = "DELETE"
      <4>1. /\ l.name \in Names /\ SameHistory(db.rows, db'.rows, l.name)
            /\ IsLive(db.rows, l.name) /\ ~IsLive(db'.rows, l.name)
        BY <3>1, <3>6 DEF Fit, Actions, Written, TxnSteps
      <4>2. \A n \in Names : Hist(db'.rows)[n] = Hist(db.rows)[n]
        BY <3>2, <3>3, <4>1 DEF Same
      <4>3. Hist(db'.rows) = Hist(db.rows)
        BY <4>2
      <4>4. Live(db'.rows) = [Live(db.rows) EXCEPT ![l.name] = FALSE] /\ Live(db.rows)[l.name]
        BY <3>2, <4>1 DEF Same, IsLive
      <4>5. Store!Delete(l.name)
        BY <4>3, <4>4 DEF Store!Delete
      <4> QED
        BY <4>1, <4>5 DEF Store!Next
    <3>7. l.act \in Writers \cup {"DELETE", "ROTATE_KEK"}
      BY <3>1 DEF Fit, TxnSteps, Actions, Writers
    <3> QED
      BY <3>4, <3>5, <3>6, <3>7
  <2>3. ASSUME NEW p \in Procs, AppendRead(p) PROVE db'.rows = db.rows
    BY <2>3 DEF AppendRead, StoreInv, TableInv, TypeInv, TypeOK, Database
  <2> QED
    BY <2>0, <2>1, <2>2, <2>3, DbWriters
<1> QED
  BY <1>1, <1>2, StoreSteps, PTL DEF Spec, ImplementsStore, Store!Spec
=============================================================================
