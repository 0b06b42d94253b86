---------------------------- MODULE BackupProofs ----------------------------
(***************************************************************************)
(* Key generation, export and import for any number of processes, paths    *)
(* and commits: what is on disk after a failure or a crash of any call.    *)
(***************************************************************************)
EXTENDS Backup, TLAPS

Local == [op: {None, "keygen", "export", "import"},
          pub: Publics \cup {None}, priv: Privates \cup {None},
          pass: Passes \cup {None}, in: Outs \cup {None}, out: Outs \cup {None},
          key: Nat, root: Nat, snap: Nat, capsule: File \cup {None}]

KeygenCalls == {"openPrivate", "writePrivate", "openPublic", "writePublic",
                "removePublic", "removePrivate"}

ExportCalls == {"root", "snapshot", "loadPublic", "openCapsule", "writeCapsule"}

ImportCalls == {"readCapsule", "loadPrivate", "openDatabase", "writeDatabase"}

Calls == {"idle", "ok", "failed"} \cup KeygenCalls \cup ExportCalls \cup ImportCalls

Types ==
    /\ fs \in [Paths -> File \cup {None}]
    /\ commits \in Nat
    /\ nextKey \in Nat
    /\ pc \in [Procs -> Calls]
    /\ loc \in [Procs -> Local]

(* The arguments of each command. *)
Generating(p) ==
    /\ loc[p].op = "keygen" /\ loc[p].pass \in Passes
    /\ \E pair \in Pairs : loc[p].pub = pair[1] /\ loc[p].priv = pair[2]

Exporting(p) == loc[p].op = "export" /\ loc[p].pub \in Publics /\ loc[p].out \in Outs

Importing(p) ==
    /\ loc[p].op = "import" /\ loc[p].priv \in Privates
    /\ loc[p].in \in Outs /\ loc[p].out \in Outs

(* How far a command has come, and what an export has read: the root before *)
(* the snapshot.                                                            *)
Progress(p) ==
    /\ pc[p] \in KeygenCalls => Generating(p)
    /\ pc[p] \in ExportCalls => Exporting(p)
    /\ pc[p] \in ImportCalls => Importing(p)
    /\ pc[p] = "ok" => Generating(p) \/ Exporting(p) \/ Importing(p)
    /\ pc[p] = "snapshot" => loc[p].root <= commits
    /\ pc[p] \in {"loadPublic", "openCapsule", "writeCapsule"} => loc[p].root <= loc[p].snap

CapsulesCover == \A path \in Paths : Holds(path, "capsule") => fs[path].root <= fs[path].snap

BackupInv ==
    /\ Types
    /\ CapsulesCover
    /\ \A p \in Procs : Progress(p)

(* Keys are not shared, and no file holds one that is not generated yet. *)
KeyOrder ==
    /\ \A p \in Procs : loc[p].op = "keygen" => loc[p].key < nextKey
    /\ \A p, q \in Procs : p # q /\ loc[p].op = "keygen" /\ loc[q].op = "keygen" =>
                              loc[p].key # loc[q].key
    /\ \A x \in Paths : Holds(x, "public") \/ Holds(x, "private") => fs[x].key < nextKey

(* Until a generation succeeds, its clean-up included, no public key of it  *)
(* can be read.                                                             *)
Unpublished(p) ==
    pc[p] \in KeygenCalls =>
        \A x \in Paths : ~(Holds(x, "public") /\ fs[x].key = loc[p].key)

(* What a generation has on disk, unless another's clean-up removed it. *)
PairOnDisk(p) ==
    LET l == loc[p] IN
    \/ l.key \in removed
    \/ /\ pc[p] = "writePrivate" => fs[l.priv] = Partial(p)
       /\ pc[p] \in {"openPublic", "writePublic"} => fs[l.priv] = PrivateFile(l.key, l.pass)
       /\ pc[p] = "writePublic" => fs[l.pub] = Partial(p)
       /\ pc[p] = "ok" /\ l.op = "keygen" =>
            fs[l.pub] = PublicFile(l.key) /\ fs[l.priv] = PrivateFile(l.key, l.pass)

KeyInv ==
    /\ BackupInv
    /\ KeyOrder
    /\ \A p \in Procs : Unpublished(p) /\ PairOnDisk(p)
    /\ PublicHasPrivate

(* No output of an export or import is a path given to a key generation. *)
OutsApart == Outs \cap (Publics \cup Privates) = {}

(* What an export or import has on disk: its output while it writes it and  *)
(* once it has succeeded.                                                   *)
OutOnDisk(p) ==
    LET l == loc[p] IN
    /\ pc[p] \in {"writeCapsule", "writeDatabase"} => fs[l.out] = Partial(p)
    /\ pc[p] = "ok" /\ l.op = "export" => fs[l.out] = Capsule(l)
    /\ pc[p] = "ok" /\ l.op = "import" => fs[l.out] = DatabaseFile(l.snap)

OutInv ==
    /\ BackupInv
    /\ \A p \in Procs : OutOnDisk(p)

-----------------------------------------------------------------------------
(* Files *)

(* What the fields of a file are, by its kind. *)
LEMMA FileKinds ==
    ASSUME NEW f \in File
    PROVE  /\ f # None
           /\ f.kind \in {"public", "private"} => f.key \in Nat
           /\ f.kind = "capsule" => f.root \in Nat /\ f.snap \in Nat
  BY BackupAssumption DEF File

(* What the commands write are files, of different kinds. *)
LEMMA FileMakers ==
    /\ \A p \in Procs \cup {None} : Partial(p) \in File /\ Partial(p).kind = "partial"
    /\ \A k \in Nat : PublicFile(k) \in File /\ PublicFile(k).kind = "public"
                      /\ PublicFile(k).key = k
    /\ \A k \in Nat, pass \in Passes :
         PrivateFile(k, pass) \in File /\ PrivateFile(k, pass).kind = "private"
         /\ PrivateFile(k, pass).key = k
    /\ \A n \in Nat : DatabaseFile(n) \in File /\ DatabaseFile(n).kind = "database"
    /\ OtherFile \in File /\ OtherFile.kind = "other"
<1>1. \A p \in Procs \cup {None} : Partial(p) \in File /\ Partial(p).kind = "partial"
  BY DEF File, Partial
<1>2. \A k \in Nat : PublicFile(k) \in File /\ PublicFile(k).kind = "public"
                      /\ PublicFile(k).key = k
  BY DEF File, PublicFile
<1>3. \A k \in Nat, pass \in Passes :
         PrivateFile(k, pass) \in File /\ PrivateFile(k, pass).kind = "private"
         /\ PrivateFile(k, pass).key = k
  BY DEF File, PrivateFile
<1>4. \A n \in Nat : DatabaseFile(n) \in File /\ DatabaseFile(n).kind = "database"
  BY DEF File, DatabaseFile
<1>5. OtherFile \in File /\ OtherFile.kind = "other"
  BY DEF File, OtherFile
<1> QED
  BY <1>1, <1>2, <1>3, <1>4, <1>5

(* The capsule of an export carries what its locals hold. *)
LEMMA CapsuleFile ==
    ASSUME NEW l \in Local
    PROVE  /\ Capsule(l) \in File /\ Capsule(l).kind = "capsule"
           /\ Capsule(l).root = l.root /\ Capsule(l).snap = l.snap
<1>1. l.key \in Nat /\ l.root \in Nat /\ l.snap \in Nat
  BY DEF Local
<1> HIDE DEF Local
<1> QED
  BY <1>1 DEF Capsule, CapsuleKey, File

(* Partial(p) names its writer. *)
LEMMA PartialWriter == \A p, q : Partial(p) = Partial(q) => p = q
<1> SUFFICES ASSUME NEW p, NEW q, Partial(p) = Partial(q) PROVE p = q
  OBVIOUS
<1>1. Partial(p).writer = p /\ Partial(q).writer = q
  BY DEF Partial
<1> QED
  BY <1>1

(* A step of p that opens nothing new: what it leaves unfinished is marked. *)
LEMMA AbandonedFiles ==
    ASSUME Types, NEW p \in Procs, fs' = Abandoned(p)
    PROVE  /\ fs' \in [Paths -> File \cup {None}]
           /\ \A path \in Paths : /\ fs'[path] # fs[path] => fs[path] = Partial(p)
                                  /\ fs'[path] \in {fs[path], Partial(None)}
<1>1. Partial(None) \in File
  BY FileMakers
<1> QED
  BY <1>1 DEF Types, Abandoned

(* backup_fopen_exclusive opens only where there is nothing. *)
LEMMA CreatedFile ==
    ASSUME Types, NEW p \in Procs, NEW path \in Paths, Create(p, path)
    PROVE  /\ fs' \in [Paths -> File \cup {None}]
           /\ fs[path] = None /\ fs'[path] = Partial(p)
           /\ \A x \in Paths : x # path => fs'[x] = fs[x]
<1>1. Partial(p) \in File
  BY FileMakers
<1> QED
  BY <1>1 DEF Types, Create, Free

(* Only the file opened is written. *)
LEMMA FilledFile ==
    ASSUME Types, NEW p \in Procs, NEW path \in Paths, NEW content \in File,
           Fill(p, path, content)
    PROVE  /\ fs' \in [Paths -> File \cup {None}]
           /\ fs[path] = Partial(p) => fs'[path] = content
           /\ fs[path] # Partial(p) => fs'[path] = fs[path]
           /\ \A x \in Paths : x # path => fs'[x] = fs[x]
  BY DEF Types, Fill

-----------------------------------------------------------------------------
(* Types, progress and the roots of capsules *)

(* A step of one process, in a command's own files or none. *)
LEMMA MoveKept ==
    ASSUME BackupInv, NEW p \in Procs, NEW call \in Calls, NEW l \in Local,
           Goto(p, call), loc' = [loc EXCEPT ![p] = l], commits' = commits, nextKey' \in Nat,
           fs' \in [Paths -> File \cup {None}],
           \A path \in Paths : fs'[path] = fs[path] \/ fs'[path] = None
                \/ fs'[path].kind # "capsule" \/ fs'[path].root <= fs'[path].snap,
           Progress(p)'
    PROVE  BackupInv'
<1>1. Types'
  BY DEF BackupInv, Types, Goto
<1>2. CapsulesCover'
  BY DEF BackupInv, CapsulesCover, Holds
<1>3. ASSUME NEW q \in Procs, q # p PROVE Progress(q)'
  <2>1. pc'[q] = pc[q] /\ loc'[q] = loc[q]
    BY <1>3 DEF BackupInv, Types, Goto
  <2> QED
    BY <2>1 DEF BackupInv, Progress, Generating, Exporting, Importing
<1> QED
  BY <1>1, <1>2, <1>3 DEF BackupInv

(* ... that leaves its locals alone. *)
LEMMA CallKept ==
    ASSUME BackupInv, NEW p \in Procs, NEW call \in Calls,
           Goto(p, call), UNCHANGED <<commits, nextKey, loc>>,
           fs' \in [Paths -> File \cup {None}],
           \A path \in Paths : fs'[path] = fs[path] \/ fs'[path] = None
                \/ fs'[path].kind # "capsule" \/ fs'[path].root <= fs'[path].snap,
           Progress(p)'
    PROVE  BackupInv'
<1>1. loc[p] \in Local /\ loc' = [loc EXCEPT ![p] = loc[p]] /\ nextKey' \in Nat
  BY DEF BackupInv, Types
<1> QED
  BY <1>1, MoveKept

(* Every step keeps types, progress and what the capsules vouch for. *)
LEMMA NextBackup == ASSUME BackupInv, [Next]_backupVars PROVE BackupInv'
<1>0. /\ Types /\ \A p \in Procs : Progress(p) /\ loc[p] \in Local
      /\ commits \in Nat /\ nextKey \in Nat /\ fs \in [Paths -> File \cup {None}]
      /\ \A pair \in Pairs : pair[1] \in Publics /\ pair[2] \in Privates
      /\ Publics \subseteq Paths /\ Privates \subseteq Paths /\ Outs \subseteq Paths
  BY DEF BackupInv, Types, Paths, Publics, Privates
<1>1. CASE VaultCommit
  <2>1. Types' /\ CapsulesCover'
    BY <1>0, <1>1 DEF VaultCommit, BackupInv, Types, CapsulesCover, Holds
  <2>2. ASSUME NEW p \in Procs PROVE Progress(p)'
    <3>1. loc[p].root \in Nat
      BY <1>0 DEF Local
    <3> QED
      BY <1>0, <1>1, <3>1 DEF VaultCommit, Progress, Generating, Exporting, Importing
  <2> QED
    BY <2>1, <2>2 DEF BackupInv
<1>2. ASSUME NEW p \in Procs, NEW pair \in Pairs, NEW pass \in Passes, Keygen(p, pair, pass)
      PROVE  BackupInv'
  <2> DEFINE l == [NoLocals EXCEPT !.op = "keygen", !.pub = pair[1],
                                   !.priv = pair[2], !.pass = pass, !.key = nextKey]
  <2>1. /\ Goto(p, "openPrivate") /\ loc' = [loc EXCEPT ![p] = l]
        /\ UNCHANGED <<fs, commits>> /\ nextKey' \in Nat
    BY <1>0, <1>2 DEF Keygen, Started
  <2>2. /\ l \in Local /\ l.op = "keygen" /\ l.pub = pair[1] /\ l.priv = pair[2]
        /\ l.pass = pass
    BY <1>0 DEF NoLocals, Local
  <2> HIDE DEF l
  <2>3. pc'[p] = "openPrivate" /\ loc'[p] = l
    BY <1>0, <2>1 DEF Types, Goto
  <2>4. Progress(p)'
    BY <2>1, <2>2, <2>3 DEF Progress, Generating, KeygenCalls, ExportCalls, ImportCalls
  <2>5. "openPrivate" \in Calls
    BY DEF Calls, KeygenCalls
  <2> QED
    BY <1>0, <2>1, <2>2, <2>4, <2>5, MoveKept
<1>3. ASSUME NEW p \in Procs, NEW pub \in Publics, NEW out \in Outs, Export(p, pub, out)
      PROVE  BackupInv'
  <2> DEFINE l == [NoLocals EXCEPT !.op = "export", !.pub = pub, !.out = out]
  <2>1. /\ Goto(p, "root") /\ loc' = [loc EXCEPT ![p] = l]
        /\ UNCHANGED <<fs, commits, nextKey>>
    BY <1>3 DEF Export, Started
  <2>2. l \in Local /\ l.op = "export" /\ l.pub = pub /\ l.out = out
    BY DEF NoLocals, Local
  <2> HIDE DEF l
  <2>3. pc'[p] = "root" /\ loc'[p] = l
    BY <1>0, <2>1 DEF Types, Goto
  <2>4. Progress(p)'
    BY <2>1, <2>2, <2>3 DEF Progress, Exporting, KeygenCalls, ExportCalls, ImportCalls
  <2>5. "root" \in Calls
    BY DEF Calls, ExportCalls
  <2> QED
    BY <1>0, <2>1, <2>2, <2>4, <2>5, MoveKept
<1>4. ASSUME NEW p \in Procs, NEW priv \in Privates, NEW pass \in Passes,
             NEW in \in Outs, NEW out \in Outs, Import(p, priv, pass, in, out)
      PROVE  BackupInv'
  <2> DEFINE l == [NoLocals EXCEPT !.op = "import", !.in = in, !.priv = priv,
                                   !.pass = pass, !.out = out]
  <2>1. /\ Goto(p, "readCapsule") /\ loc' = [loc EXCEPT ![p] = l]
        /\ UNCHANGED <<fs, commits, nextKey>>
    BY <1>4 DEF Import, Started
  <2>2. l \in Local /\ l.op = "import" /\ l.priv = priv /\ l.in = in /\ l.out = out
    BY DEF NoLocals, Local
  <2> HIDE DEF l
  <2>3. pc'[p] = "readCapsule" /\ loc'[p] = l
    BY <1>0, <2>1 DEF Types, Goto
  <2>4. Progress(p)'
    BY <2>1, <2>2, <2>3 DEF Progress, Importing, KeygenCalls, ExportCalls, ImportCalls
  <2>5. "readCapsule" \in Calls
    BY DEF Calls, ImportCalls
  <2> QED
    BY <1>0, <2>1, <2>2, <2>4, <2>5, MoveKept
<1>5. ASSUME NEW p \in Procs, OpenPrivate(p) \/ OpenPublic(p) \/ OpenOut(p)
      PROVE  BackupInv'
  <2>1. PICK path \in Paths : Create(p, path)
    BY <1>0, <1>5 DEF OpenPrivate, OpenPublic, OpenOut, Progress, Generating, Exporting,
                      Importing, KeygenCalls, ExportCalls, ImportCalls
  <2>2. PICK call \in Calls : Goto(p, call)
    BY <1>5 DEF OpenPrivate, OpenPublic, OpenOut, Calls, KeygenCalls, ExportCalls, ImportCalls
  <2>3. UNCHANGED <<commits, nextKey, loc>>
    BY <1>5 DEF OpenPrivate, OpenPublic, OpenOut
  <2>4. Progress(p)'
    BY <1>0, <1>5 DEF OpenPrivate, OpenPublic, OpenOut, Goto, Types, Progress, Generating,
                      Exporting, Importing, KeygenCalls, ExportCalls, ImportCalls
  <2> QED
    BY <1>0, <2>1, <2>2, <2>3, <2>4, CreatedFile, FileMakers, CallKept
<1>6. ASSUME NEW p \in Procs, WritePrivate(p) \/ WritePublic(p) \/ WriteOut(p)
      PROVE  BackupInv'
  <2>1. \E path \in Paths, content \in File :
           /\ Fill(p, path, content)
           /\ content.kind = "capsule" => content.root <= content.snap
    <3>1. CASE WritePrivate(p)
      <4>1. Fill(p, loc[p].priv, PrivateFile(loc[p].key, loc[p].pass))
        BY <3>1 DEF WritePrivate
      <4>2. loc[p].priv \in Paths /\ loc[p].pass \in Passes /\ loc[p].key \in Nat
        BY <1>0, <3>1 DEF WritePrivate, Progress, Generating, KeygenCalls, Local
      <4> QED
        BY <4>1, <4>2, FileMakers
    <3>2. CASE WritePublic(p)
      <4>1. Fill(p, loc[p].pub, PublicFile(loc[p].key))
        BY <3>2 DEF WritePublic
      <4>2. loc[p].pub \in Paths /\ loc[p].key \in Nat
        BY <1>0, <3>2 DEF WritePublic, Progress, Generating, KeygenCalls, Local
      <4> QED
        BY <4>1, <4>2, FileMakers
    <3>3. CASE WriteOut(p) /\ pc[p] = "writeCapsule"
      <4>1. Fill(p, loc[p].out, Capsule(loc[p]))
        BY <3>3 DEF WriteOut
      <4>2. loc[p].out \in Paths /\ loc[p].root <= loc[p].snap
        BY <1>0, <3>3 DEF Progress, Exporting, ExportCalls
      <4> QED
        BY <1>0, <4>1, <4>2, CapsuleFile
    <3>4. CASE WriteOut(p) /\ pc[p] = "writeDatabase"
      <4>1. Fill(p, loc[p].out, DatabaseFile(loc[p].snap))
        BY <3>4 DEF WriteOut
      <4>2. loc[p].out \in Paths /\ loc[p].snap \in Nat
        BY <1>0, <3>4 DEF Progress, Importing, ImportCalls, Local
      <4> QED
        BY <1>0, <4>1, <4>2, FileMakers
    <3> QED
      BY <1>6, <3>1, <3>2, <3>3, <3>4 DEF WriteOut
  <2>2. PICK path \in Paths, content \in File :
           /\ Fill(p, path, content)
           /\ content.kind = "capsule" => content.root <= content.snap
    BY <2>1
  <2>3. PICK call \in Calls : Goto(p, call)
    BY <1>6 DEF WritePrivate, WritePublic, WriteOut, Calls, KeygenCalls
  <2>4. UNCHANGED <<commits, nextKey, loc>>
    BY <1>6 DEF WritePrivate, WritePublic, WriteOut
  <2>5. Progress(p)'
    BY <1>0, <1>6 DEF WritePrivate, WritePublic, WriteOut, Goto, Types, Progress, Generating,
                      Exporting, Importing, KeygenCalls, ExportCalls, ImportCalls
  <2>6. fs' \in [Paths -> File \cup {None}]
        /\ \A x \in Paths : fs'[x] = fs[x] \/ fs'[x] = content
    BY <1>0, <2>2, FilledFile
  <2> QED
    BY <2>2, <2>3, <2>4, <2>5, <2>6, CallKept
<1>7. ASSUME NEW p \in Procs, KeygenFail(p) \/ Fail(p) PROVE BackupInv'
  <2>1. PICK call \in Calls : Goto(p, call)
    BY <1>7 DEF KeygenFail, Fail, Calls, KeygenCalls
  <2>2. fs' = Abandoned(p) /\ UNCHANGED <<commits, nextKey, loc>>
    BY <1>7 DEF KeygenFail, Fail
  <2>3. Progress(p)'
    BY <1>0, <1>7 DEF KeygenFail, Fail, Goto, Types, Progress, Generating, KeygenCalls,
                      ExportCalls, ImportCalls
  <2> QED
    BY <1>0, <2>1, <2>2, <2>3, AbandonedFiles, FileMakers, CallKept
<1>8. ASSUME NEW p \in Procs, RemovePublic(p) \/ RemovePrivate(p) PROVE BackupInv'
  <2>1. PICK call \in Calls : Goto(p, call)
    BY <1>8 DEF RemovePublic, RemovePrivate, Calls, KeygenCalls
  <2>2. /\ UNCHANGED <<commits, nextKey, loc>>
        /\ fs' \in [Paths -> File \cup {None}]
        /\ \A x \in Paths : fs'[x] \in {fs[x], None}
    BY <1>0, <1>8 DEF RemovePublic, RemovePrivate, Remove
  <2>3. Progress(p)'
    BY <1>0, <1>8 DEF RemovePublic, RemovePrivate, Goto, Types, Progress, Generating,
                      KeygenCalls, ExportCalls, ImportCalls
  <2> QED
    BY <2>1, <2>2, <2>3, CallKept
<1>9. ASSUME NEW p \in Procs, Crash(p) PROVE BackupInv'
  <2>1. /\ fs' = Abandoned(p) /\ Goto(p, "idle") /\ loc' = [loc EXCEPT ![p] = NoLocals]
        /\ UNCHANGED <<commits, nextKey>>
    BY <1>9 DEF Crash
  <2>2. NoLocals \in Local /\ "idle" \in Calls
    BY DEF NoLocals, Local, Calls
  <2>3. Progress(p)'
    BY <1>0, <2>1 DEF Goto, Types, Progress, KeygenCalls, ExportCalls, ImportCalls
  <2>4. /\ fs' \in [Paths -> File \cup {None}]
        /\ \A path \in Paths : fs'[path] = fs[path] \/ fs'[path].kind # "capsule"
    BY <1>0, <2>1, AbandonedFiles, FileMakers
  <2> QED
    BY <1>0, <2>1, <2>2, <2>3, <2>4, MoveKept
<1>10. ASSUME NEW p \in Procs, ExportRoot(p) PROVE BackupInv'
  <2> DEFINE l == [loc[p] EXCEPT !.root = commits]
  <2>1. /\ Goto(p, "snapshot") /\ loc' = [loc EXCEPT ![p] = l]
        /\ UNCHANGED <<fs, commits, nextKey>> /\ pc[p] = "root"
    BY <1>0, <1>10 DEF ExportRoot, Types
  <2>2. l \in Local /\ l.root = commits /\ l.op = loc[p].op /\ l.out = loc[p].out
        /\ l.pub = loc[p].pub
    BY <1>0 DEF Local
  <2> HIDE DEF l
  <2>3. pc'[p] = "snapshot" /\ loc'[p] = l
    BY <1>0, <2>1 DEF Types, Goto
  <2>4. Progress(p)'
    BY <1>0, <2>1, <2>2, <2>3 DEF Progress, Exporting, KeygenCalls, ExportCalls, ImportCalls
  <2>5. "snapshot" \in Calls
    BY DEF Calls, ExportCalls
  <2> QED
    BY <1>0, <2>1, <2>2, <2>4, <2>5, MoveKept
<1>11. ASSUME NEW p \in Procs, ExportSnapshot(p) PROVE BackupInv'
  <2> DEFINE l == [loc[p] EXCEPT !.snap = commits]
  <2>1. /\ Goto(p, "loadPublic") /\ loc' = [loc EXCEPT ![p] = l]
        /\ UNCHANGED <<fs, commits, nextKey>> /\ pc[p] = "snapshot"
    BY <1>0, <1>11 DEF ExportSnapshot, Types
  <2>2. l \in Local /\ l.snap = commits /\ l.root = loc[p].root /\ l.op = loc[p].op
        /\ l.out = loc[p].out /\ l.pub = loc[p].pub
    BY <1>0 DEF Local
  <2> HIDE DEF l
  <2>3. pc'[p] = "loadPublic" /\ loc'[p] = l
    BY <1>0, <2>1 DEF Types, Goto
  <2>4. Progress(p)'
    BY <1>0, <2>1, <2>2, <2>3 DEF Progress, Exporting, KeygenCalls, ExportCalls, ImportCalls
  <2>5. "loadPublic" \in Calls
    BY DEF Calls, ExportCalls
  <2> QED
    BY <1>0, <2>1, <2>2, <2>4, <2>5, MoveKept
<1>12. ASSUME NEW p \in Procs, ExportLoad(p) PROVE BackupInv'
  <2> DEFINE l == [loc[p] EXCEPT !.key = fs[loc[p].pub].key]
  <2>1. /\ Goto(p, "openCapsule") /\ loc' = [loc EXCEPT ![p] = l]
        /\ UNCHANGED <<fs, commits, nextKey>> /\ pc[p] = "loadPublic"
        /\ Holds(loc[p].pub, "public")
    BY <1>0, <1>12 DEF ExportLoad, Types
  <2>2. Exporting(p) /\ loc[p].root <= loc[p].snap
    BY <1>0, <2>1 DEF Progress, ExportCalls
  <2>3. fs[loc[p].pub].key \in Nat
    BY <1>0, <2>1, <2>2, FileKinds DEF Holds, Exporting
  <2>4. l \in Local /\ l.snap = loc[p].snap /\ l.root = loc[p].root /\ l.op = loc[p].op
        /\ l.out = loc[p].out /\ l.pub = loc[p].pub
    BY <1>0, <2>3 DEF Local
  <2> HIDE DEF l
  <2>5. pc'[p] = "openCapsule" /\ loc'[p] = l
    BY <1>0, <2>1 DEF Types, Goto
  <2>6. Progress(p)'
    BY <2>2, <2>4, <2>5 DEF Progress, Exporting, KeygenCalls, ExportCalls, ImportCalls
  <2>7. "openCapsule" \in Calls
    BY DEF Calls, ExportCalls
  <2> QED
    BY <1>0, <2>1, <2>4, <2>6, <2>7, MoveKept
<1>13. ASSUME NEW p \in Procs, ImportRead(p) PROVE BackupInv'
  <2> DEFINE l == [loc[p] EXCEPT !.capsule = fs[loc[p].in], !.snap = fs[loc[p].in].snap]
  <2>1. /\ Goto(p, "loadPrivate") /\ loc' = [loc EXCEPT ![p] = l]
        /\ UNCHANGED <<fs, commits, nextKey>> /\ pc[p] = "readCapsule"
        /\ Holds(loc[p].in, "capsule")
    BY <1>0, <1>13 DEF ImportRead, Types
  <2>2. Importing(p)
    BY <1>0, <2>1 DEF Progress, ImportCalls
  <2>3. fs[loc[p].in] \in File /\ fs[loc[p].in].snap \in Nat
    BY <1>0, <2>1, <2>2, FileKinds DEF Holds, Importing
  <2>4. l \in Local /\ l.op = loc[p].op /\ l.out = loc[p].out /\ l.in = loc[p].in
        /\ l.priv = loc[p].priv
    BY <1>0, <2>3 DEF Local
  <2> HIDE DEF l
  <2>5. pc'[p] = "loadPrivate" /\ loc'[p] = l
    BY <1>0, <2>1 DEF Types, Goto
  <2>6. Progress(p)'
    BY <2>2, <2>4, <2>5 DEF Progress, Importing, KeygenCalls, ExportCalls, ImportCalls
  <2>7. "loadPrivate" \in Calls
    BY DEF Calls, ImportCalls
  <2> QED
    BY <1>0, <2>1, <2>4, <2>6, <2>7, MoveKept
<1>14. ASSUME NEW p \in Procs, ImportDecrypt(p) PROVE BackupInv'
  <2>1. Goto(p, "openDatabase") /\ UNCHANGED <<fs, commits, nextKey, loc>>
    BY <1>14 DEF ImportDecrypt
  <2>2. Progress(p)'
    BY <1>0, <1>14 DEF ImportDecrypt, Goto, Types, Progress, Importing, KeygenCalls,
                       ExportCalls, ImportCalls
  <2>3. "openDatabase" \in Calls
    BY DEF Calls, ImportCalls
  <2> QED
    BY <1>0, <2>1, <2>2, <2>3, CallKept
<1>15. CASE UNCHANGED backupVars
  BY <1>0, <1>15 DEF backupVars, BackupInv, Types, CapsulesCover, Holds, Progress, Generating,
                     Exporting, Importing
<1> QED
  BY <1>1, <1>2, <1>3, <1>4, <1>5, <1>6, <1>7, <1>8, <1>9, <1>10, <1>11, <1>12, <1>13,
     <1>14, <1>15 DEF Next

(* Types, progress and capsule roots in every reachable state. *)
LEMMA BackupInvariant == Spec => []BackupInv
<1>1. Init => BackupInv
  <2> SUFFICES ASSUME Init PROVE BackupInv
    OBVIOUS
  <2>1. NoLocals \in Local /\ "idle" \in Calls
    BY DEF NoLocals, Local, Calls
  <2>2. Types
    BY <2>1, FileMakers DEF Init, Types
  <2>3. CapsulesCover
    BY FileMakers DEF Init, CapsulesCover, Holds
  <2>4. ASSUME NEW p \in Procs PROVE Progress(p)
    BY DEF Init, Progress, KeygenCalls, ExportCalls, ImportCalls
  <2> QED
    BY <2>2, <2>3, <2>4 DEF BackupInv
<1>2. BackupInv /\ [Next]_backupVars => BackupInv'
  BY NextBackup
<1> QED
  BY <1>1, <1>2, PTL DEF Spec

(* Whatever commits between vault_audit_merkle_root and the snapshot, and   *)
(* however many processes export, the root in a capsule's header is one of  *)
(* a prefix of the log in its snapshot.                                     *)
THEOREM SnapshotCoversRootHolds == Spec => []SnapshotCoversRoot
<1>1. BackupInv => SnapshotCoversRoot
  BY DEF BackupInv, CapsulesCover, SnapshotCoversRoot, Paths
<1> QED
  BY <1>1, BackupInvariant, PTL

-----------------------------------------------------------------------------
(* What a step does to the files *)

(* A step of p that removes nothing: it opens where there is nothing, and   *)
(* completes or gives up what it opened; the keys it writes are its own.    *)
OwnStep(p) ==
    /\ removed' = removed
    /\ \A x \in Paths : fs'[x] # fs[x] =>
        /\ fs[x] = None \/ fs[x] = Partial(p)
        /\ fs'[x] # None
        /\ fs'[x].kind = "public" =>
             pc[p] = "writePublic" /\ pc'[p] = "ok" /\ fs'[x].key = loc[p].key
        /\ fs'[x].kind = "private" => pc[p] = "writePrivate" /\ fs'[x].key = loc[p].key

(* A step of its clean-up. *)
RemoveStep(p) ==
    /\ pc[p] \in {"removePublic", "removePrivate"}
    /\ pc'[p] \in {"removePrivate", "failed"}
    /\ \E path \in Publics \cup Privates : Remove(p, path)

(* Opening a file. *)
LEMMA CreateSteps ==
    ASSUME Types, NEW p \in Procs, NEW path \in Paths, Create(p, path), removed' = removed
    PROVE  OwnStep(p)
<1>1. Partial(p) # None /\ Partial(p).kind = "partial"
  BY FileMakers, FileKinds
<1> QED
  BY <1>1, CreatedFile DEF OwnStep

(* Leaving one unfinished. *)
LEMMA AbandonSteps ==
    ASSUME Types, NEW p \in Procs, fs' = Abandoned(p), removed' = removed
    PROVE  OwnStep(p)
<1>1. Partial(None) # None /\ Partial(None).kind = "partial"
  BY FileMakers, FileKinds
<1> QED
  BY <1>1, AbandonedFiles DEF OwnStep

(* The commands' steps that may touch a file, but for the clean-up. *)
LEMMA OwnSteps ==
    ASSUME BackupInv, NEW p \in Procs,
           \/ OpenPrivate(p) \/ WritePrivate(p) \/ OpenPublic(p) \/ WritePublic(p)
           \/ OpenOut(p) \/ WriteOut(p) \/ KeygenFail(p) \/ Fail(p) \/ Crash(p)
    PROVE  OwnStep(p)
<1>0. /\ Types /\ Progress(p) /\ loc[p] \in Local /\ loc[p].key \in Nat /\ loc[p].snap \in Nat
      /\ \A pair \in Pairs : pair[1] \in Paths /\ pair[2] \in Paths
      /\ Outs \subseteq Paths /\ pc \in [Procs -> Calls]
  BY DEF BackupInv, Types, Paths, Publics, Privates, Local
<1>1. CASE OpenPrivate(p) \/ OpenPublic(p) \/ OpenOut(p)
  <2>1. PICK path \in Paths : Create(p, path)
    BY <1>0, <1>1 DEF OpenPrivate, OpenPublic, OpenOut, Progress, Generating, Exporting,
                      Importing, KeygenCalls, ExportCalls, ImportCalls
  <2>2. removed' = removed
    BY <1>1 DEF OpenPrivate, OpenPublic, OpenOut
  <2> QED
    BY <1>0, <2>1, <2>2, CreateSteps
<1>2. CASE KeygenFail(p) \/ Fail(p) \/ Crash(p)
  <2>1. fs' = Abandoned(p) /\ removed' = removed
    BY <1>2 DEF KeygenFail, Fail, Crash
  <2> QED
    BY <1>0, <2>1, AbandonSteps
<1>3. CASE WritePrivate(p)
  <2>1. /\ Fill(p, loc[p].priv, PrivateFile(loc[p].key, loc[p].pass)) /\ removed' = removed
        /\ pc[p] = "writePrivate"
    BY <1>3 DEF WritePrivate
  <2>2. loc[p].priv \in Paths /\ loc[p].pass \in Passes
    BY <1>0, <2>1 DEF Progress, Generating, KeygenCalls
  <2> QED
    BY <1>0, <2>1, <2>2, FileMakers, FileKinds, FilledFile DEF OwnStep
<1>4. CASE WritePublic(p)
  <2>1. /\ Fill(p, loc[p].pub, PublicFile(loc[p].key)) /\ removed' = removed
        /\ pc[p] = "writePublic" /\ pc'[p] = "ok"
    BY <1>0, <1>4 DEF WritePublic, Goto
  <2>2. loc[p].pub \in Paths
    BY <1>0, <2>1 DEF Progress, Generating, KeygenCalls
  <2> QED
    BY <1>0, <2>1, <2>2, FileMakers, FileKinds, FilledFile DEF OwnStep
<1>5. CASE WriteOut(p)
  <2>1. loc[p].out \in Paths /\ removed' = removed
    BY <1>0, <1>5 DEF WriteOut, Progress, Exporting, Importing, ExportCalls, ImportCalls
  <2>2. PICK content \in File :
           Fill(p, loc[p].out, content) /\ content.kind \in {"capsule", "database"}
    BY <1>0, <1>5, FileMakers, CapsuleFile DEF WriteOut
  <2> QED
    BY <1>0, <2>1, <2>2, FileKinds, FilledFile DEF OwnStep
<1> QED
  BY <1>1, <1>2, <1>3, <1>4, <1>5

(* The clean-up. *)
LEMMA RemoveSteps ==
    ASSUME BackupInv, NEW p \in Procs, RemovePublic(p) \/ RemovePrivate(p)
    PROVE  RemoveStep(p) /\ Generating(p)
<1>1. Generating(p) /\ Types
  BY DEF BackupInv, Progress, RemovePublic, RemovePrivate, KeygenCalls
<1>2. loc[p].pub \in Publics /\ loc[p].priv \in Privates
  BY <1>1 DEF Generating, Publics, Privates
<1> QED
  BY <1>1, <1>2 DEF RemovePublic, RemovePrivate, RemoveStep, Goto, Types

(* A command's start and the calls of it that only read. *)
Quiet(p) ==
    \/ \E pair \in Pairs, pass \in Passes : Keygen(p, pair, pass)
    \/ \E pub \in Publics, out \in Outs : Export(p, pub, out)
    \/ \E priv \in Privates, pass \in Passes, in \in Outs, out \in Outs :
         Import(p, priv, pass, in, out)
    \/ ExportRoot(p) \/ ExportSnapshot(p) \/ ExportLoad(p)
    \/ ImportRead(p) \/ ImportDecrypt(p)

LEMMA QuietSteps ==
    ASSUME NEW p \in Procs, Quiet(p)
    PROVE  fs' = fs /\ removed' = removed
  BY DEF Quiet, Keygen, Started, Export, ExportRoot, ExportSnapshot, ExportLoad, Import,
         ImportRead, ImportDecrypt

(* Every step is one of these. *)
LEMMA AnyStep ==
    ASSUME BackupInv, [Next]_backupVars
    PROVE  (fs' = fs /\ removed' = removed) \/ \E p \in Procs : OwnStep(p) \/ RemoveStep(p)
<1>1. CASE \E p \in Procs :
             \/ OpenPrivate(p) \/ WritePrivate(p) \/ OpenPublic(p) \/ WritePublic(p)
             \/ OpenOut(p) \/ WriteOut(p) \/ KeygenFail(p) \/ Fail(p) \/ Crash(p)
  BY <1>1, OwnSteps
<1>2. CASE \E p \in Procs : RemovePublic(p) \/ RemovePrivate(p)
  BY <1>2, RemoveSteps
<1>3. CASE \E p \in Procs : Quiet(p)
  BY <1>3, QuietSteps
<1>4. CASE VaultCommit \/ UNCHANGED backupVars
  BY <1>4 DEF VaultCommit, backupVars
<1> QED
  BY <1>1, <1>2, <1>3, <1>4 DEF Next, Quiet

(* However many commands are given the same path, none changes what a       *)
(* complete file holds: backup_fopen_exclusive opens only what is not there *)
(* and the clean-up of a key generation only removes.                       *)
THEOREM NeverOverwrittenHolds == Spec => NeverOverwritten
<1>1. BackupInv /\ [Next]_backupVars =>
        [\A path \in Paths : Complete(fs[path]) => fs'[path] \in {fs[path], None}]_backupVars
  <2> SUFFICES ASSUME BackupInv, [Next]_backupVars, NEW path \in Paths, Complete(fs[path])
               PROVE  fs'[path] \in {fs[path], None}
    OBVIOUS
  <2>1. \A p \in Procs : fs[path] # Partial(p)
    BY FileMakers DEF Complete
  <2> QED
    BY <2>1, AnyStep DEF OwnStep, RemoveStep, Remove, Complete, BackupInv, Types
<1> QED
  BY <1>1, BackupInvariant, PTL DEF Spec, NeverOverwritten

-----------------------------------------------------------------------------
(* Key pairs on disk *)

(* Whose keys a file has. *)
LEMMA FileKeys ==
    /\ \A q \in Procs : KeysOf(Partial(q)) = {loc[q].key}
    /\ \A f \in File : f.kind \in {"public", "private"} => KeysOf(f) = {f.key}
<1>1. ASSUME NEW q \in Procs PROVE KeysOf(Partial(q)) = {loc[q].key}
  <2>1. /\ Partial(q) # None /\ Partial(q).kind = "partial" /\ Partial(q).writer = q
        /\ q # None
    BY FileMakers, FileKinds, BackupAssumption DEF Partial
  <2> QED
    BY <2>1 DEF KeysOf
<1>2. ASSUME NEW f \in File, f.kind \in {"public", "private"} PROVE KeysOf(f) = {f.key}
  BY <1>2, FileKinds DEF KeysOf
<1> QED
  BY <1>1, <1>2

(* What a generation has on disk are files of its key, and no other's. *)
LEMMA OwnFiles ==
    ASSUME NEW p \in Procs, NEW q \in Procs, p # q, loc[q].key \in Nat
    PROVE  /\ Partial(q) # None /\ Partial(q) # Partial(p)
           /\ loc[q].key \in KeysOf(Partial(q))
           /\ LET f == PublicFile(loc[q].key) IN
                f # None /\ f # Partial(p) /\ loc[q].key \in KeysOf(f)
           /\ \A pass \in Passes : LET f == PrivateFile(loc[q].key, pass) IN
                f # None /\ f # Partial(p) /\ loc[q].key \in KeysOf(f)
  BY FileMakers, FileKinds, FileKeys, PartialWriter

(* A step of p leaves what q has on disk, or accounts for it in removed. *)
LEMMA OthersPair ==
    ASSUME KeyInv, NEW p \in Procs, NEW q \in Procs, p # q,
           OwnStep(p) \/ (RemoveStep(p) /\ loc[p].op = "keygen"),
           pc'[q] = pc[q], loc'[q] = loc[q]
    PROVE  PairOnDisk(q)'
<1> DEFINE l == loc[q]
<1>0. /\ PairOnDisk(q) /\ Progress(q) /\ l \in Local /\ l.key \in Nat
      /\ fs \in [Paths -> File \cup {None}] /\ KeyOrder
  BY DEF KeyInv, BackupInv, Types, Local
<1>1. removed \subseteq removed'
  BY DEF OwnStep, RemoveStep, Remove
<1>2. CASE l.key \in removed
  BY <1>1, <1>2 DEF PairOnDisk
<1>3. CASE pc[q] \in KeygenCalls \/ (pc[q] = "ok" /\ l.op = "keygen")
  <2>1. l.op = "keygen" /\ l.pub \in Paths /\ l.priv \in Paths /\ l.pass \in Passes
    BY <1>0, <1>3 DEF Progress, Generating, Exporting, Importing, Paths, Publics, Privates
  <2>2. ASSUME NEW x \in Paths, NEW f, fs[x] = f, f # None, f # Partial(p),
               l.key \in KeysOf(f)
        PROVE  fs'[x] = f \/ l.key \in removed'
    <3>1. CASE OwnStep(p)
      BY <2>2, <3>1 DEF OwnStep
    <3>2. CASE RemoveStep(p) /\ loc[p].op = "keygen"
      <4>1. l.key # loc[p].key
        BY <1>0, <2>1, <3>2 DEF KeyOrder
      <4> QED
        BY <1>0, <2>2, <3>2, <4>1 DEF RemoveStep, Remove
    <3> QED
      BY <3>1, <3>2
  <2>3. /\ pc[q] = "writePrivate" => fs'[l.priv] = Partial(q) \/ l.key \in removed'
        /\ pc[q] = "writePublic" => fs'[l.pub] = Partial(q) \/ l.key \in removed'
    BY <1>0, <1>2, <2>1, <2>2, OwnFiles DEF PairOnDisk
  <2>4. /\ pc[q] \in {"openPublic", "writePublic"} =>
             fs'[l.priv] = PrivateFile(l.key, l.pass) \/ l.key \in removed'
        /\ pc[q] = "ok" => /\ fs'[l.pub] = PublicFile(l.key) \/ l.key \in removed'
                           /\ fs'[l.priv] = PrivateFile(l.key, l.pass) \/ l.key \in removed'
    BY <1>0, <1>1, <2>1, <2>2, OwnFiles DEF PairOnDisk
  <2> QED
    BY <2>3, <2>4 DEF PairOnDisk
<1>4. CASE pc[q] \notin KeygenCalls /\ ~(pc[q] = "ok" /\ l.op = "keygen")
  BY <1>4 DEF PairOnDisk, KeygenCalls
<1> QED
  BY <1>3, <1>4

(* No step of p publishes a key of q. *)
LEMMA OthersUnpublished ==
    ASSUME KeyInv, NEW p \in Procs, NEW q \in Procs, p # q,
           OwnStep(p) \/ RemoveStep(p), pc'[q] = pc[q], loc'[q] = loc[q]
    PROVE  Unpublished(q)'
<1> SUFFICES ASSUME pc[q] \in KeygenCalls, NEW x \in Paths, fs'[x] # None,
                    fs'[x].kind = "public", fs'[x].key = loc[q].key
             PROVE  FALSE
  BY DEF Unpublished, Holds
<1>0. /\ Unpublished(q) /\ Progress(q) /\ Progress(p) /\ KeyOrder
      /\ fs \in [Paths -> File \cup {None}]
  BY DEF KeyInv, BackupInv, Types
<1>1. CASE fs'[x] = fs[x]
  BY <1>0, <1>1 DEF Unpublished, Holds
<1>2. CASE fs'[x] # fs[x] /\ OwnStep(p)
  <2>1. pc[p] = "writePublic" /\ loc[p].key = loc[q].key
    BY <1>2 DEF OwnStep
  <2>2. loc[p].op = "keygen" /\ loc[q].op = "keygen"
    BY <1>0, <2>1 DEF Progress, Generating, KeygenCalls
  <2> QED
    BY <1>0, <2>1, <2>2 DEF KeyOrder
<1>3. CASE fs'[x] # fs[x] /\ RemoveStep(p)
  BY <1>0, <1>3 DEF RemoveStep, Remove
<1> QED
  BY <1>1, <1>2, <1>3

(* A step that gives out no key keeps their order. *)
LEMMA KeyOrderKept ==
    ASSUME KeyInv, NEW p \in Procs, OwnStep(p) \/ RemoveStep(p), nextKey' = nextKey,
           \A q \in Procs : loc'[q].op = "keygen" =>
                              loc[q].op = "keygen" /\ loc'[q].key = loc[q].key
    PROVE  KeyOrder'
<1>0. /\ KeyOrder /\ Progress(p) /\ fs \in [Paths -> File \cup {None}]
  BY DEF KeyInv, BackupInv, Types
<1>1. ASSUME NEW x \in Paths, Holds(x, "public")' \/ Holds(x, "private")'
      PROVE  fs'[x].key < nextKey'
  <2>1. CASE fs'[x] = fs[x]
    BY <1>0, <1>1, <2>1 DEF KeyOrder, Holds
  <2>2. CASE fs'[x] # fs[x] /\ OwnStep(p)
    <3>1. pc[p] \in KeygenCalls /\ fs'[x].key = loc[p].key
      BY <1>1, <2>2 DEF OwnStep, Holds, KeygenCalls
    <3> QED
      BY <1>0, <3>1 DEF KeyOrder, Progress, Generating
  <2>3. CASE fs'[x] # fs[x] /\ RemoveStep(p)
    BY <1>0, <1>1, <2>3 DEF RemoveStep, Remove, Holds
  <2> QED
    BY <2>1, <2>2, <2>3
<1>2. \A q \in Procs : loc'[q].op = "keygen" => loc'[q].key < nextKey'
  BY <1>0 DEF KeyOrder
<1>3. \A r, q \in Procs : r # q /\ loc'[r].op = "keygen" /\ loc'[q].op = "keygen" =>
                            loc'[r].key # loc'[q].key
  BY <1>0 DEF KeyOrder
<1> QED
  BY <1>1, <1>2, <1>3 DEF KeyOrder

(* A step publishes a key only with its private key on disk, and takes no   *)
(* private key away from a published one without accounting for it.         *)
LEMMA PrivateKept ==
    ASSUME KeyInv, NEW p \in Procs, OwnStep(p) \/ RemoveStep(p)
    PROVE  PublicHasPrivate'
<1>0. /\ KeyOrder /\ Progress(p) /\ PairOnDisk(p) /\ Unpublished(p) /\ PublicHasPrivate
      /\ fs \in [Paths -> File \cup {None}] /\ loc[p].key \in Nat
  BY DEF KeyInv, BackupInv, Types, Local
<1> SUFFICES ASSUME NEW x \in Paths, fs'[x] # None, fs'[x].kind = "public"
             PROVE  \/ fs'[x].key \in removed'
                    \/ \E other \in Paths, pass \in Passes :
                         fs'[other] = PrivateFile(fs'[x].key, pass)
  BY DEF PublicHasPrivate, Holds
<1>1. removed \subseteq removed'
  BY DEF OwnStep, RemoveStep, Remove
<1>2. CASE fs'[x] = fs[x]
  <2>1. CASE fs[x].key \in removed
    BY <1>1, <1>2, <2>1
  <2>2. CASE fs[x].key \notin removed
    <3>1. PICK other \in Paths, pass \in Passes : fs[other] = PrivateFile(fs[x].key, pass)
      BY <1>0, <1>2, <2>2 DEF PublicHasPrivate, Holds
    <3>2. fs[x].key \in Nat
      BY <1>0, <1>2, FileKinds
    <3>3. /\ fs[other] # None /\ fs[other] # Partial(p)
          /\ KeysOf(fs[other]) = {fs[x].key}
      BY <3>1, <3>2, FileMakers, FileKinds, FileKeys
    <3>4. CASE fs'[other] = fs[other]
      BY <1>2, <3>1, <3>4
    <3>5. CASE fs'[other] # fs[other]
      <4>1. RemoveStep(p)
        BY <3>3, <3>5 DEF OwnStep
      <4>2. pc[p] \in KeygenCalls
        BY <4>1 DEF RemoveStep, KeygenCalls
      <4>3. fs[x].key # loc[p].key
        BY <1>0, <1>2, <4>2 DEF Unpublished, Holds
      <4>4. removed' = removed \cup (KeysOf(fs[other]) \ {loc[p].key})
        BY <1>0, <3>5, <4>1 DEF RemoveStep, Remove
      <4> QED
        BY <1>2, <3>3, <4>3, <4>4
    <3> QED
      BY <3>4, <3>5
  <2> QED
    BY <2>1, <2>2
<1>3. CASE fs'[x] # fs[x] /\ OwnStep(p)
  <2>1. pc[p] = "writePublic" /\ fs'[x].key = loc[p].key /\ removed' = removed
    BY <1>3 DEF OwnStep
  <2>2. loc[p].priv \in Paths /\ loc[p].pass \in Passes
    BY <1>0, <2>1 DEF Progress, Generating, KeygenCalls, Paths, Privates
  <2>3. CASE fs[loc[p].priv] = PrivateFile(loc[p].key, loc[p].pass)
    <3>1. fs[loc[p].priv] # None /\ fs[loc[p].priv] # Partial(p)
      BY <1>0, <2>2, <2>3, FileMakers, FileKinds
    <3>2. fs'[loc[p].priv] = fs[loc[p].priv]
      BY <1>3, <2>2, <3>1 DEF OwnStep
    <3> QED
      BY <2>1, <2>2, <2>3, <3>2
  <2> QED
    BY <1>0, <2>1, <2>3 DEF PairOnDisk
<1>4. CASE fs'[x] # fs[x] /\ RemoveStep(p)
  BY <1>0, <1>4 DEF RemoveStep, Remove
<1> QED
  BY <1>2, <1>3, <1>4

(* A step of process p. *)
LEMMA KeysKept ==
    ASSUME KeyInv, BackupInv', NEW p \in Procs,
           OwnStep(p) \/ (RemoveStep(p) /\ loc[p].op = "keygen"),
           KeyOrder', Unpublished(p)', PairOnDisk(p)',
           \A q \in Procs : q # p => pc'[q] = pc[q] /\ loc'[q] = loc[q]
    PROVE  KeyInv'
<1>1. ASSUME NEW q \in Procs, q # p PROVE Unpublished(q)' /\ PairOnDisk(q)'
  BY <1>1, OthersUnpublished, OthersPair
<1> QED
  BY <1>1, PrivateKept DEF KeyInv

(* Every step keeps what is on disk of the key pairs. *)
LEMMA NextKeys == ASSUME KeyInv, [Next]_backupVars PROVE KeyInv'
<1>0. /\ BackupInv /\ BackupInv' /\ Types /\ KeyOrder /\ PublicHasPrivate
      /\ \A p \in Procs : /\ PairOnDisk(p) /\ Unpublished(p) /\ Progress(p)
                          /\ loc[p] \in Local /\ loc[p].key \in Nat
      /\ fs \in [Paths -> File \cup {None}] /\ pc \in [Procs -> Calls]
      /\ loc \in [Procs -> Local] /\ nextKey \in Nat
  BY NextBackup DEF KeyInv, BackupInv, Types, Local
<1>1. CASE UNCHANGED <<fs, nextKey, removed, pc, loc>>
  BY <1>0, <1>1 DEF KeyInv, KeyOrder, Unpublished, PairOnDisk, PublicHasPrivate, Holds
<1>2. ASSUME NEW p \in Procs, NEW pair \in Pairs, NEW pass \in Passes, Keygen(p, pair, pass)
      PROVE  KeyInv'
  <2> DEFINE l == [NoLocals EXCEPT !.op = "keygen", !.pub = pair[1],
                                   !.priv = pair[2], !.pass = pass, !.key = nextKey]
  <2>1. /\ Goto(p, "openPrivate") /\ loc' = [loc EXCEPT ![p] = l]
        /\ UNCHANGED <<fs, removed>> /\ nextKey' = nextKey + 1
    BY <1>2 DEF Keygen, Started
  <2>2. l.op = "keygen" /\ l.key = nextKey
    BY DEF NoLocals
  <2> HIDE DEF l
  <2>3. /\ pc'[p] = "openPrivate" /\ loc'[p] = l
        /\ \A q \in Procs : q # p => pc'[q] = pc[q] /\ loc'[q] = loc[q]
    BY <1>0, <2>1 DEF Goto
  <2>4. \A x \in Paths : Holds(x, "public") \/ Holds(x, "private") => fs[x].key \in Nat
    BY <1>0, FileKinds DEF Holds
  <2>5. KeyOrder'
    <3>1. \A q \in Procs : loc'[q].op = "keygen" => loc'[q].key < nextKey'
      BY <1>0, <2>1, <2>2, <2>3 DEF KeyOrder
    <3>2. \A r, q \in Procs : r # q /\ loc'[r].op = "keygen" /\ loc'[q].op = "keygen" =>
                                loc'[r].key # loc'[q].key
      BY <1>0, <2>1, <2>2, <2>3 DEF KeyOrder
    <3>3. \A x \in Paths : Holds(x, "public")' \/ Holds(x, "private")' => fs'[x].key < nextKey'
      BY <1>0, <2>1, <2>4 DEF KeyOrder, Holds
    <3> QED
      BY <3>1, <3>2, <3>3 DEF KeyOrder
  <2>6. Unpublished(p)'
    BY <1>0, <2>1, <2>2, <2>3, <2>4 DEF Unpublished, KeyOrder, Holds
  <2>7. PairOnDisk(p)'
    BY <2>3 DEF PairOnDisk
  <2> QED
    BY <1>0, <2>1, <2>3, <2>5, <2>6, <2>7, KeysKept DEF OwnStep
(* An export or an import starts, or a call of it only reads. *)
<1>3. ASSUME NEW p \in Procs, Quiet(p),
             ~ \E pair \in Pairs, pass \in Passes : Keygen(p, pair, pass)
      PROVE  KeyInv'
  <2>1. fs' = fs /\ removed' = removed /\ nextKey' = nextKey
    BY <1>3, QuietSteps DEF Quiet, Export, Import, ExportRoot, ExportSnapshot, ExportLoad,
                            ImportRead, ImportDecrypt
  <2>2. pc'[p] \in {"root", "readCapsule", "snapshot", "loadPublic", "openCapsule",
                    "loadPrivate", "openDatabase"}
    BY <1>0, <1>3 DEF Quiet, Export, Import, Started, ExportRoot, ExportSnapshot,
                      ExportLoad, ImportRead, ImportDecrypt, Goto
  <2>3. /\ pc' = [pc EXCEPT ![p] = pc'[p]] /\ loc' = [loc EXCEPT ![p] = loc'[p]]
    BY <1>0, <1>3 DEF Quiet, Export, Import, Started, ExportRoot, ExportSnapshot,
                      ExportLoad, ImportRead, ImportDecrypt, Goto
  <2>4. \A q \in Procs : q # p => pc'[q] = pc[q] /\ loc'[q] = loc[q]
    BY <1>0, <2>3
  <2>5. loc'[p].op # "keygen"
    BY <1>0, <2>2 DEF BackupInv, Progress, Exporting, Importing, ExportCalls, ImportCalls
  <2>6. KeyOrder'
    BY <2>1, <2>4, <2>5, KeyOrderKept DEF OwnStep
  <2>7. Unpublished(p)' /\ PairOnDisk(p)'
    BY <2>2 DEF Unpublished, PairOnDisk, KeygenCalls
  <2> QED
    BY <1>0, <2>1, <2>4, <2>6, <2>7, KeysKept DEF OwnStep
(* The other calls leave the locals alone, but for a crash. *)
<1>4. ASSUME NEW p \in Procs,
             \/ OpenPrivate(p) \/ WritePrivate(p) \/ OpenPublic(p) \/ WritePublic(p)
             \/ OpenOut(p) \/ WriteOut(p) \/ KeygenFail(p) \/ Fail(p) \/ Crash(p)
             \/ RemovePublic(p) \/ RemovePrivate(p)
      PROVE  /\ OwnStep(p) \/ (RemoveStep(p) /\ loc[p].op = "keygen")
             /\ KeyOrder'
             /\ \A q \in Procs : q # p => pc'[q] = pc[q] /\ loc'[q] = loc[q]
  <2>1. OwnStep(p) \/ (RemoveStep(p) /\ loc[p].op = "keygen")
    BY <1>0, <1>4, OwnSteps, RemoveSteps DEF Generating
  <2>2. nextKey' = nextKey /\ (loc' = loc \/ loc' = [loc EXCEPT ![p] = NoLocals])
    BY <1>4 DEF OpenPrivate, WritePrivate, OpenPublic, WritePublic, OpenOut, WriteOut,
                KeygenFail, Fail, Crash, RemovePublic, RemovePrivate
  <2>3. NoLocals.op # "keygen"
    BY BackupAssumption DEF NoLocals
  <2>4. \A q \in Procs : q # p => pc'[q] = pc[q] /\ loc'[q] = loc[q]
    <3>1. \A q \in Procs : q # p => pc'[q] = pc[q]
      BY <1>0, <1>4 DEF OpenPrivate, WritePrivate, OpenPublic, WritePublic, OpenOut, WriteOut,
                        KeygenFail, Fail, Crash, RemovePublic, RemovePrivate, Goto
    <3> QED
      BY <1>0, <2>2, <3>1
  <2>5. \A q \in Procs : loc'[q].op = "keygen" =>
                           loc[q].op = "keygen" /\ loc'[q].key = loc[q].key
    BY <1>0, <2>2, <2>3
  <2> QED
    BY <2>1, <2>2, <2>4, <2>5, KeyOrderKept
<1>5. ASSUME NEW p \in Procs, OpenOut(p) \/ WriteOut(p) \/ Fail(p) \/ Crash(p)
      PROVE  KeyInv'
  <2>1. /\ pc'[p] \in {"writeCapsule", "writeDatabase", "ok", "failed", "idle"}
        /\ pc'[p] = "ok" => loc'[p].op # "keygen"
    BY <1>0, <1>5 DEF OpenOut, WriteOut, Fail, Crash, Goto, Progress, Exporting, Importing,
                      ExportCalls, ImportCalls
  <2>2. Unpublished(p)' /\ PairOnDisk(p)'
    BY <2>1 DEF Unpublished, PairOnDisk, KeygenCalls
  <2> QED
    BY <1>0, <1>4, <1>5, <2>2, KeysKept
<1>6. ASSUME NEW p \in Procs, pc[p] \in KeygenCalls, loc'[p] = loc[p], pc'[p] # "ok",
             OwnStep(p) \/ RemoveStep(p)
      PROVE  Unpublished(p)'
  <2> SUFFICES ASSUME NEW x \in Paths, fs'[x] # None, fs'[x].kind = "public",
                      fs'[x].key = loc[p].key
               PROVE  FALSE
    BY <1>6 DEF Unpublished, Holds
  <2>1. fs'[x] = fs[x]
    BY <1>0, <1>6 DEF OwnStep, RemoveStep, Remove
  <2> QED
    BY <1>0, <1>6, <2>1 DEF Unpublished, Holds
<1>7. ASSUME NEW p \in Procs, KeygenFail(p) \/ RemovePublic(p) \/ RemovePrivate(p)
      PROVE  KeyInv'
  <2>1. /\ pc'[p] \in {"removePublic", "removePrivate", "failed"} /\ loc' = loc
        /\ pc[p] \in KeygenCalls
    BY <1>0, <1>7 DEF KeygenFail, RemovePublic, RemovePrivate, Goto, KeygenCalls
  <2>2. PairOnDisk(p)'
    BY <2>1 DEF PairOnDisk
  <2> QED
    BY <1>0, <1>4, <1>6, <1>7, <2>1, <2>2, KeysKept
<1>8. ASSUME NEW p \in Procs,
             OpenPrivate(p) \/ WritePrivate(p) \/ OpenPublic(p) \/ WritePublic(p)
      PROVE  KeyInv'
  <2> DEFINE l == loc[p]
  <2>1. /\ OwnStep(p) /\ loc' = loc /\ pc[p] \in KeygenCalls /\ removed' = removed
        /\ l.pub \in Paths /\ l.priv \in Paths /\ l.pass \in Passes
    <3>1. /\ loc' = loc /\ pc[p] \in KeygenCalls /\ removed' = removed
      BY <1>8 DEF OpenPrivate, WritePrivate, OpenPublic, WritePublic, KeygenCalls
    <3> QED
      BY <1>0, <1>8, <3>1, OwnSteps DEF Progress, Generating, Paths, Publics, Privates
  <2>2. Unpublished(p)'
    BY <1>6, <1>8, <2>1 DEF Unpublished, KeygenCalls
  <2>3. ASSUME NEW x \in Paths, fs[x] = PrivateFile(l.key, l.pass)
        PROVE  fs'[x] = PrivateFile(l.key, l.pass)
    <3>1. fs[x] # None /\ fs[x] # Partial(p)
      BY <1>0, <2>1, <2>3, FileMakers, FileKinds
    <3> QED
      BY <2>1, <2>3, <3>1 DEF OwnStep
  <2>4. PairOnDisk(p)'
    <3>1. CASE l.key \in removed
      BY <2>1, <3>1 DEF PairOnDisk
    <3>2. CASE l.key \notin removed /\ OpenPrivate(p)
      <4>1. pc'[p] = "writePrivate" /\ fs'[l.priv] = Partial(p)
        BY <1>0, <2>1, <3>2, CreatedFile DEF OpenPrivate, Goto
      <4> QED
        BY <2>1, <4>1 DEF PairOnDisk
    <3>3. CASE l.key \notin removed /\ WritePrivate(p)
      <4>1. /\ pc'[p] = "openPublic" /\ fs[l.priv] = Partial(p)
            /\ Fill(p, l.priv, PrivateFile(l.key, l.pass))
        BY <1>0, <3>3 DEF WritePrivate, Goto, PairOnDisk
      <4>2. fs'[l.priv] = PrivateFile(l.key, l.pass)
        BY <1>0, <2>1, <4>1, FileMakers, FilledFile
      <4> QED
        BY <2>1, <4>1, <4>2 DEF PairOnDisk
    <3>4. CASE l.key \notin removed /\ OpenPublic(p)
      <4>1. /\ pc'[p] = "writePublic" /\ fs[l.priv] = PrivateFile(l.key, l.pass)
            /\ fs'[l.pub] = Partial(p)
        BY <1>0, <2>1, <3>4, CreatedFile DEF OpenPublic, Goto, PairOnDisk
      <4> QED
        BY <2>1, <2>3, <4>1 DEF PairOnDisk
    <3>5. CASE l.key \notin removed /\ WritePublic(p)
      <4>1. /\ pc'[p] = "ok" /\ fs[l.pub] = Partial(p)
            /\ fs[l.priv] = PrivateFile(l.key, l.pass)
            /\ Fill(p, l.pub, PublicFile(l.key))
        BY <1>0, <3>5 DEF WritePublic, Goto, PairOnDisk
      <4>2. fs'[l.pub] = PublicFile(l.key)
        BY <1>0, <2>1, <4>1, FileMakers, FilledFile
      <4> QED
        BY <2>1, <2>3, <4>1, <4>2 DEF PairOnDisk
    <3> QED
      BY <1>8, <3>1, <3>2, <3>3, <3>4, <3>5
  <2> QED
    BY <1>0, <1>4, <1>8, <2>2, <2>4, KeysKept
<1>9. VaultCommit \/ UNCHANGED backupVars => UNCHANGED <<fs, nextKey, removed, pc, loc>>
  BY DEF VaultCommit, backupVars
<1> QED
  BY <1>1, <1>2, <1>3, <1>5, <1>7, <1>8, <1>9 DEF Next, Quiet

(* What is on disk of the key pairs, in every reachable state. *)
LEMMA KeyInvariant == Spec => []KeyInv
<1>1. Init /\ BackupInv => KeyInv
  <2> SUFFICES ASSUME Init, BackupInv PROVE KeyInv
    OBVIOUS
  <2>1. \A x \in Paths : ~Holds(x, "public") /\ ~Holds(x, "private")
    BY FileMakers DEF Init, Holds
  <2>2. NoLocals.op # "keygen"
    BY BackupAssumption DEF NoLocals
  <2>3. KeyOrder /\ PublicHasPrivate
    BY <2>1, <2>2 DEF Init, KeyOrder, PublicHasPrivate
  <2>4. ASSUME NEW p \in Procs PROVE Unpublished(p) /\ PairOnDisk(p)
    BY DEF Init, Unpublished, PairOnDisk, KeygenCalls
  <2> QED
    BY <2>3, <2>4 DEF KeyInv
<1>2. KeyInv /\ [Next]_backupVars => KeyInv'
  BY NextKeys
<1> QED
  BY <1>1, <1>2, BackupInvariant, PTL DEF Spec

(* However many processes generate keys, over whatever paths, a public key  *)
(* that can be read has its private key on disk, wherever backup_pqc_keygen *)
(* fails or dies, unless another generation's clean-up removed a file of    *)
(* the pair: the private key is complete before the public one is opened,   *)
(* and a clean-up of one's own comes before anything is published.          *)
THEOREM PublicHasPrivateHolds == Spec => []PublicHasPrivate
<1>1. KeyInv => PublicHasPrivate
  BY DEF KeyInv
<1> QED
  BY <1>1, KeyInvariant, PTL

-----------------------------------------------------------------------------
(* Outputs of export and import *)

(* A step of p leaves alone what q has written. *)
LEMMA OthersOut ==
    ASSUME OutsApart, OutInv, NEW p \in Procs, NEW q \in Procs, p # q,
           OwnStep(p) \/ RemoveStep(p), pc'[q] = pc[q], loc'[q] = loc[q]
    PROVE  OutOnDisk(q)'
<1> DEFINE l == loc[q]
<1>0. /\ OutOnDisk(q) /\ Progress(q) /\ l \in Local /\ l.snap \in Nat
      /\ fs \in [Paths -> File \cup {None}]
  BY DEF OutInv, BackupInv, Types, Local
<1>1. CASE pc[q] \in {"writeCapsule", "writeDatabase"}
           \/ (pc[q] = "ok" /\ l.op \in {"export", "import"})
  <2>1. l.out \in Outs /\ l.out \in Paths
    BY <1>0, <1>1 DEF Progress, Generating, Exporting, Importing, ExportCalls, ImportCalls, Paths
  <2>2. /\ Partial(q) # None /\ Partial(q) # Partial(p)
        /\ Capsule(l) # None /\ Capsule(l) # Partial(p)
        /\ DatabaseFile(l.snap) # None /\ DatabaseFile(l.snap) # Partial(p)
    BY <1>0, FileMakers, FileKinds, CapsuleFile, PartialWriter
  <2>3. ASSUME fs[l.out] # None, fs[l.out] # Partial(p) PROVE fs'[l.out] = fs[l.out]
    BY <1>0, <2>1, <2>3 DEF OwnStep, RemoveStep, Remove, OutsApart
  <2>4. Capsule(l)' = Capsule(l)
    BY DEF Capsule, CapsuleKey
  <2> QED
    BY <1>0, <2>2, <2>3, <2>4 DEF OutOnDisk
<1>2. CASE pc[q] \notin {"writeCapsule", "writeDatabase"}
           /\ ~(pc[q] = "ok" /\ l.op \in {"export", "import"})
  BY <1>2 DEF OutOnDisk
<1> QED
  BY <1>1, <1>2

(* Every step keeps what exports and imports have written. *)
LEMMA NextOuts == ASSUME OutsApart, OutInv, [Next]_backupVars PROVE OutInv'
<1>0. /\ BackupInv /\ BackupInv' /\ Types
      /\ \A p \in Procs : /\ OutOnDisk(p) /\ Progress(p)
                          /\ loc[p] \in Local /\ loc[p].snap \in Nat
      /\ fs \in [Paths -> File \cup {None}] /\ pc \in [Procs -> Calls]
      /\ loc \in [Procs -> Local]
  BY NextBackup DEF OutInv, BackupInv, Types, Local
<1>1. CASE UNCHANGED <<fs, pc, loc>>
  BY <1>0, <1>1 DEF OutInv, OutOnDisk, Capsule, CapsuleKey
<1>2. ASSUME NEW p \in Procs, OwnStep(p) \/ RemoveStep(p), OutOnDisk(p)',
             pc' = [pc EXCEPT ![p] = pc'[p]], loc' = [loc EXCEPT ![p] = loc'[p]]
      PROVE  OutInv'
  <2>1. \A q \in Procs : q # p => pc'[q] = pc[q] /\ loc'[q] = loc[q]
    BY <1>0, <1>2
  <2>2. \A q \in Procs : q # p => OutOnDisk(q)'
    BY <1>2, <2>1, OthersOut
  <2> QED
    BY <1>0, <1>2, <2>2 DEF OutInv
<1>3. ASSUME NEW p \in Procs, Quiet(p) PROVE OutInv'
  <2>1. pc'[p] \notin {"writeCapsule", "writeDatabase", "ok"}
    BY <1>0, <1>3 DEF Quiet, Keygen, Export, Import, Started, ExportRoot, ExportSnapshot,
                      ExportLoad, ImportRead, ImportDecrypt, Goto
  <2>2. pc' = [pc EXCEPT ![p] = pc'[p]] /\ loc' = [loc EXCEPT ![p] = loc'[p]]
    BY <1>0, <1>3 DEF Quiet, Keygen, Export, Import, Started, ExportRoot, ExportSnapshot,
                      ExportLoad, ImportRead, ImportDecrypt, Goto
  <2>3. OutOnDisk(p)' /\ OwnStep(p)
    BY <1>3, <2>1, QuietSteps DEF OutOnDisk, OwnStep
  <2> QED
    BY <1>2, <2>2, <2>3
<1>4. ASSUME NEW p \in Procs,
             \/ OpenPrivate(p) \/ WritePrivate(p) \/ OpenPublic(p) \/ WritePublic(p)
             \/ KeygenFail(p) \/ Fail(p) \/ Crash(p) \/ RemovePublic(p) \/ RemovePrivate(p)
      PROVE  OutInv'
  <2>1. /\ pc'[p] \notin {"writeCapsule", "writeDatabase"}
        /\ pc'[p] = "ok" => loc'[p].op = "keygen"
    BY <1>0, <1>4 DEF OpenPrivate, WritePrivate, OpenPublic, WritePublic, KeygenFail, Fail,
                      Crash, RemovePublic, RemovePrivate, Goto, Progress, Generating, KeygenCalls
  <2>2. pc' = [pc EXCEPT ![p] = pc'[p]] /\ loc' = [loc EXCEPT ![p] = loc'[p]]
    BY <1>0, <1>4 DEF OpenPrivate, WritePrivate, OpenPublic, WritePublic, KeygenFail, Fail,
                      Crash, RemovePublic, RemovePrivate, Goto
  <2>3. OutOnDisk(p)'
    BY <2>1 DEF OutOnDisk
  <2>4. OwnStep(p) \/ RemoveStep(p)
    BY <1>0, <1>4, OwnSteps, RemoveSteps
  <2> QED
    BY <1>2, <2>2, <2>3, <2>4
<1>5. ASSUME NEW p \in Procs, OpenOut(p) \/ WriteOut(p) PROVE OutInv'
  <2> DEFINE l == loc[p]
  <2>1. /\ loc' = loc /\ loc' = [loc EXCEPT ![p] = loc'[p]] /\ pc' = [pc EXCEPT ![p] = pc'[p]]
        /\ OwnStep(p) /\ l.out \in Paths
    <3>1. loc' = loc /\ pc' = [pc EXCEPT ![p] = pc'[p]]
      BY <1>0, <1>5 DEF OpenOut, WriteOut, Goto
    <3> QED
      BY <1>0, <1>5, <3>1, OwnSteps DEF OpenOut, WriteOut, Progress, Exporting, Importing,
                                        ExportCalls, ImportCalls, Paths
  <2>2. Capsule(l)' = Capsule(l)
    BY <2>1 DEF Capsule, CapsuleKey
  <2>3. CASE OpenOut(p)
    <3>1. pc'[p] \in {"writeCapsule", "writeDatabase"} /\ fs'[l.out] = Partial(p)
      BY <1>0, <2>1, <2>3, CreatedFile DEF OpenOut, Goto
    <3> QED
      BY <1>2, <2>1, <3>1 DEF OutOnDisk
  <2>4. CASE WriteOut(p) /\ pc[p] = "writeCapsule"
    <3>1. /\ pc'[p] = "ok" /\ fs[l.out] = Partial(p) /\ Fill(p, l.out, Capsule(l))
          /\ l.op = "export"
      BY <1>0, <2>4 DEF WriteOut, Goto, OutOnDisk, Progress, Exporting, ExportCalls
    <3>2. fs'[l.out] = Capsule(l)
      BY <1>0, <2>1, <3>1, CapsuleFile, FilledFile
    <3> QED
      BY <1>2, <2>1, <2>2, <3>1, <3>2 DEF OutOnDisk
  <2>5. CASE WriteOut(p) /\ pc[p] = "writeDatabase"
    <3>1. /\ pc'[p] = "ok" /\ fs[l.out] = Partial(p) /\ Fill(p, l.out, DatabaseFile(l.snap))
          /\ l.op = "import"
      BY <1>0, <2>5 DEF WriteOut, Goto, OutOnDisk, Progress, Importing, ImportCalls
    <3>2. fs'[l.out] = DatabaseFile(l.snap)
      BY <1>0, <2>1, <3>1, FileMakers, FilledFile
    <3> QED
      BY <1>2, <2>1, <3>1, <3>2 DEF OutOnDisk
  <2> QED
    BY <1>5, <2>3, <2>4, <2>5 DEF WriteOut
<1>6. VaultCommit \/ UNCHANGED backupVars => UNCHANGED <<fs, pc, loc>>
  BY DEF VaultCommit, backupVars
<1> QED
  BY <1>1, <1>3, <1>4, <1>5, <1>6 DEF Next, Quiet

(* However many commands run, over whatever key paths, a command that has   *)
(* reported success has left complete files, and they stay: a matching key  *)
(* pair, unless another generation's clean-up removed a file of it; the     *)
(* capsule; the snapshot of the capsule imported.  The outputs of exports   *)
(* and imports are taken to be no paths of keys.                            *)
THEOREM SuccessIsCompleteHolds ==
    ASSUME OutsApart
    PROVE  Spec => []SuccessIsComplete
<1>1. Init /\ BackupInv => OutInv
  BY DEF Init, OutInv, OutOnDisk
<1>2. OutInv /\ [Next]_backupVars => OutInv'
  BY NextOuts
<1>3. KeyInv /\ OutInv => SuccessIsComplete
  <2> SUFFICES ASSUME KeyInv, OutInv, NEW p \in Procs, pc[p] = "ok"
               PROVE  LET l == loc[p] IN
                      CASE l.op = "keygen" -> \/ l.key \in removed
                                              \/ /\ fs[l.pub] = PublicFile(l.key)
                                                 /\ fs[l.priv] = PrivateFile(l.key, l.pass)
                        [] l.op = "export" -> fs[l.out] = Capsule(l)
                        [] l.op = "import" -> fs[l.out] = DatabaseFile(l.snap)
    BY DEF SuccessIsComplete
  <2>1. loc[p].op \in {"keygen", "export", "import"}
    BY DEF KeyInv, BackupInv, Progress, Generating, Exporting, Importing
  <2>2. PairOnDisk(p) /\ OutOnDisk(p)
    BY DEF KeyInv, OutInv
  <2> QED
    BY <2>1, <2>2 DEF PairOnDisk, OutOnDisk
<1> QED
  BY <1>1, <1>2, <1>3, BackupInvariant, KeyInvariant, PTL DEF Spec
=============================================================================
