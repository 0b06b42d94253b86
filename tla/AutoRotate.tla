----------------------------- MODULE AutoRotate -----------------------------
(***************************************************************************)
(* `fuin auto-rotate`: the loop of vault_auto_rotate_expired that re-keys   *)
(* every expired secret, next to processes that put, roll back and delete.  *)
(*                                                                          *)
(* Transactions are taken whole here: Vault, which implements SecretStore,  *)
(* shows that put, delete, rollback and the transaction of a re-keying have *)
(* the effect of one atomic step.  What is left is what they read before    *)
(* it: the clock, and for a re-keying the expired version.  The clock       *)
(* counts seconds and never steps back.                                     *)
(***************************************************************************)
EXTENDS Naturals, SequencesExt

CONSTANTS
    Procs,
    Writers,       \* the processes that put, roll back and delete
    Names, Values,
    Ttls,          \* rotation_interval_seconds given to put; 0 for none
    None,
    IntMax,        \* INT_MAX
    MaxClock       \* bound: seconds that pass

ASSUME AutoRotateAssumption ==
    /\ Writers \subseteq Procs
    /\ Ttls \subseteq Nat
    /\ IntMax \in Nat \ {0} /\ MaxClock \in Nat \ {0}

VARIABLES
    clock,
    hist,   \* hist[n]: the versions of n, oldest first
    live,   \* live[n]: whether the last of them is active
    pc,
    loc

rekeyVars == <<clock, hist, live, pc, loc>>

(* exp 0 is no expiry; born is created_at; rekeyed marks ROTATE_DEK; at is, *)
(* as history, the second of the commit.                                    *)
Version(x, ttl, born, now, rekeyed) ==
    [val |-> x, ttl |-> ttl, exp |-> IF ttl = 0 THEN 0 ELSE now + ttl,
     born |-> born, rekeyed |-> rekeyed, at |-> clock]

NoLocals == [start |-> 0, name |-> None, src |-> 0, ttl |-> 0, now |-> 0,
             val |-> None, new |-> 0]

Init ==
    /\ clock = 1
    /\ hist = [n \in Names |-> <<>>]
    /\ live = [n \in Names |-> FALSE]
    /\ pc = [p \in Procs |-> "idle"]
    /\ loc = [p \in Procs |-> NoLocals]

Tick ==
    /\ clock < MaxClock
    /\ clock' = clock + 1
    /\ UNCHANGED <<hist, live, pc, loc>>

Goto(p, step, l) ==
    /\ pc' = [pc EXCEPT ![p] = step]
    /\ loc' = [loc EXCEPT ![p] = l]

Return(p) == Goto(p, "idle", NoLocals)

(* The clock and the history bounds have been read, the value is at hand. *)
WriteStart(p, n, x, ttl) ==
    /\ pc[p] = "idle"
    /\ Len(hist[n]) < IntMax
    /\ Goto(p, "write", [NoLocals EXCEPT !.name = n, !.val = x, !.ttl = ttl,
                                         !.now = clock, !.new = Len(hist[n]) + 1])
    /\ UNCHANGED <<clock, hist, live>>

(* vault_put_with_options *)
Put(p, n, x, ttl) == WriteStart(p, n, x, ttl)

(* rotation_interval_seconds of a version. *)
vault_get_version_ttl(n, i) == hist[n][i].ttl

(* vault_rollback takes the value and the interval of an old version; the   *)
(* expiry starts anew.                                                      *)
Rollback(p, n, i) ==
    /\ i \in DOMAIN hist[n]
    /\ WriteStart(p, n, hist[n][i].val, vault_get_version_ttl(n, i))

(* The transaction of the version at hand, its number still unused.  The    *)
(* expiry counts from a later reading of the clock than created_at.         *)
Write(p, rekeyed) ==
    LET l == loc[p] IN
    /\ l.new = Len(hist[l.name]) + 1
    /\ \E later \in l.now..clock :
         hist' = [hist EXCEPT ![l.name] =
                    Append(@, Version(l.val, l.ttl, l.now, later, rekeyed))]
    /\ live' = [live EXCEPT ![l.name] = TRUE]
    /\ UNCHANGED clock

WriteCommit(p) ==
    /\ pc[p] = "write"
    /\ Write(p, FALSE)
    /\ Return(p)

(* vault_delete, committed. *)
Delete(p, n) ==
    /\ pc[p] = "idle"
    /\ live[n]
    /\ live' = [live EXCEPT ![n] = FALSE]
    /\ UNCHANGED <<clock, hist, pc, loc>>

-----------------------------------------------------------------------------
(* vault_auto_rotate_expired *)

(* Back to the head of the loop. *)
Again(p) == Goto(p, "find", [NoLocals EXCEPT !.start = loc[p].start])

(* Mutant of IsDue: any secret with an expiry. *)
HasExpiry(version, now) == version.exp # 0

(* vault_expiry_is_due, and the same comparison in SQL. *)
IsDue(version, now) == version.exp # 0 /\ version.exp <= now

Due(n, now) == live[n] /\ IsDue(Last(hist[n]), now)

(* One clock reading serves every SELECT of the loop. *)
Start(p) ==
    /\ pc[p] = "idle"
    /\ Goto(p, "find", [NoLocals EXCEPT !.start = clock])
    /\ UNCHANGED <<clock, hist, live>>

(* vault_find_next_expired_secret: the one that expired first. *)
FindNext(p, n) ==
    /\ pc[p] = "find"
    /\ Due(n, loc[p].start)
    /\ \A m \in Names : Due(m, loc[p].start) => Last(hist[n]).exp <= Last(hist[m]).exp
    /\ Goto(p, "metadata", [loc[p] EXCEPT !.name = n, !.now = clock])
    /\ UNCHANGED <<clock, hist, live>>

FindNone(p) ==
    /\ pc[p] = "find"
    /\ \A n \in Names : ~Due(n, loc[p].start)
    /\ Return(p)
    /\ UNCHANGED <<clock, hist, live>>

(* vault_rotate_expired_secret begins: it reads the clock (at some moment   *)
(* since the search) and then the metadata.  Gone is an error, no longer    *)
(* due is success with nothing done.                                        *)
ReadMetadata(p) ==
    LET n == loc[p].name IN
    /\ pc[p] = "metadata"
    /\ \E now \in loc[p].now..clock :
         \/ ~live[n] /\ Return(p)
         \/ live[n] /\ ~Due(n, now) /\ Again(p)
         \/ Due(n, now) /\ Goto(p, "decrypt",
              [loc[p] EXCEPT !.src = Len(hist[n]), !.ttl = Last(hist[n]).ttl,
                             !.now = now])
    /\ UNCHANGED <<clock, hist, live>>

(* vault_decrypt_secret_alloc of the version the metadata named. *)
Source(p) == hist[loc[p].name][loc[p].src]

Decrypt(p) ==
    /\ pc[p] = "decrypt"
    /\ Goto(p, "bounds", [loc[p] EXCEPT !.val = Source(p).val])
    /\ UNCHANGED <<clock, hist, live>>

(* Mutant of Exhausted. *)
ExhaustedNever(version) == FALSE

Exhausted(version) == version = IntMax

(* vault_find_secret_history_bounds: the version to write. *)
ReadBounds(p) ==
    LET top == Len(hist[loc[p].name]) IN
    /\ pc[p] = "bounds"
    /\ IF Exhausted(top) THEN Return(p)
                         ELSE Goto(p, "txn", [loc[p] EXCEPT !.new = top + 1])
    /\ UNCHANGED <<clock, hist, live>>

(* The transaction: besides, exactly one row must be archived by it. *)
Rekey(p) ==
    /\ pc[p] = "txn"
    /\ live[loc[p].name]
    /\ Write(p, TRUE)
    /\ Again(p)

(* Mutant of Fail: a failed re-keying is tried again. *)
FailRetries(p) ==
    /\ pc[p] # "idle"
    /\ Again(p)
    /\ UNCHANGED <<clock, hist, live>>

(* A constraint, the write lock, I/O: the loop stops at the first error.    *)
Fail(p) ==
    /\ pc[p] # "idle"
    /\ Return(p)
    /\ UNCHANGED <<clock, hist, live>>

Step(p) ==
    \/ \E n \in Names : FindNext(p, n)
    \/ FindNone(p) \/ ReadMetadata(p) \/ Decrypt(p) \/ ReadBounds(p)
    \/ Rekey(p) \/ WriteCommit(p) \/ Fail(p)

Next ==
    \/ Tick
    \/ \E p \in Writers, n \in Names :
         \/ \E x \in Values, ttl \in Ttls : Put(p, n, x, ttl)
         \/ \E i \in 1..IntMax : Rollback(p, n, i)
         \/ Delete(p, n)
    \/ \E p \in Procs : Start(p) \/ Step(p)

Spec == Init /\ [][Next]_rekeyVars

(* A process that runs an operation keeps being scheduled. *)
FairSpec == Spec /\ \A p \in Procs : WF_rekeyVars(Step(p))

-----------------------------------------------------------------------------
(* Properties *)

Versions == [val: Values, ttl: Ttls, exp: Nat, born: Nat, rekeyed: BOOLEAN,
             at: Nat]

(* Types; no version beyond INT_MAX. *)
TypeOK ==
    /\ clock \in 1..MaxClock
    /\ \A n \in Names : /\ hist[n] \in Seq(Versions)
                        /\ Len(hist[n]) <= IntMax
                        /\ live[n] => hist[n] # <<>>
    /\ DOMAIN loc = Procs
    /\ pc \in [Procs -> {"idle", "find", "metadata", "decrypt", "bounds", "txn",
                      "write"}]

Rekeyed(n) == {i \in DOMAIN hist[n] : hist[n][i].rekeyed}

(* Whatever others write, a re-keyed version carries the value and the      *)
(* interval of a version that had expired by then and was overtaken only by *)
(* other re-keyings and by versions committed since the re-keying began,    *)
(* and it is not born expired again, so no loop finds it a second time.     *)
(* That it need not be the version replaced is RekeyPreservesValue's.       *)
RekeysExpired ==
    \A n \in Names : \A i \in Rekeyed(n) :
        /\ \E j \in 1..(i - 1) :
             LET old == hist[n][j] IN
             /\ <<old.val, old.ttl>> = <<hist[n][i].val, hist[n][i].ttl>>
             /\ old.exp # 0 /\ old.exp <= hist[n][i].born
             /\ \A k \in (j + 1)..(i - 1) :
                  hist[n][k].rekeyed \/ hist[n][k].at >= hist[n][i].born
        /\ hist[n][i].exp # 0 => hist[n][i].exp > hist[n][i].born

(* "Re-key all expired secrets (fresh DEK, preserves value + algorithm)"    *)
(* (docs/DEVELOPMENT.md:155): a re-keying leaves the value of its secret as *)
(* it was.                                                                  *)
RekeyPreservesValue ==
    \A n \in Names : \A i \in Rekeyed(n) :
        i > 1 /\ hist[n][i].val = hist[n][i - 1].val

(* The loop ends although each round may make new rows, others write in     *)
(* between, and only its first clock reading bounds what it looks for.      *)
LoopEnds == \A p \in Procs : pc[p] # "idle" ~> pc[p] = "idle"
=============================================================================
