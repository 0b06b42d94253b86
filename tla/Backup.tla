------------------------------- MODULE Backup -------------------------------
(***************************************************************************)
(* Key generation, export and import of encrypted backups (backup.c) over   *)
(* a file system that processes share, with failures of any call and        *)
(* crashes between any two.                                                 *)
(*                                                                          *)
(* A file is what it holds and whether it is complete.  A key pair is a     *)
(* number; a capsule opens with the private key of the public one it was    *)
(* made for.  The vault is the number of its commits: each appends an audit *)
(* entry, so a Merkle root and a snapshot are the number they were taken    *)
(* at.  pqc-keygen and audit-keygen differ only in the number of keys per   *)
(* file and share the actions of keygen.  remove() of an existing file      *)
(* succeeds, as it does in a directory the user may write.                  *)
(***************************************************************************)
EXTENDS Naturals

CONSTANTS
    Procs,
    Pairs,         \* <<public, private>> paths given to keygen
    Outs,          \* paths given to export and import as output
    Passes,        \* passphrases of private keys
    None,
    MaxKeys,       \* bound: key pairs generated
    MaxCommits     \* bound: commits of the vault

Publics == {pair[1] : pair \in Pairs}
Privates == {pair[2] : pair \in Pairs}
Paths == Publics \cup Privates \cup Outs

(* What a file can hold, complete or not. *)
File ==
    [kind: {"partial"}, writer: Procs \cup {None}]
        \cup [kind: {"public"}, key: Nat]
        \cup [kind: {"private"}, key: Nat, pass: Passes]
        \cup [kind: {"capsule"}, sealed: Nat \X Nat, root: Nat, snap: Nat]
        \cup [kind: {"database"}, snap: Nat]
        \cup [kind: {"other"}]

ASSUME BackupAssumption ==
    /\ None \notin Procs \cup Passes \cup Paths \cup {"keygen", "export", "import"}
    /\ None \notin File
    /\ MaxKeys \in Nat /\ MaxCommits \in Nat

VARIABLES
    fs,        \* the files, None where there is none
    commits,   \* commits of the vault so far
    nextKey,   \* the next key pair
    removed,   \* history: keys of which another generation removed a file
    pc,        \* the next call; "ok" and "failed" after the command's exit
    loc        \* the locals of a command

backupVars == <<fs, commits, nextKey, removed, pc, loc>>

(* A file created and not yet closed by its writer, None if that is gone. *)
Partial(p) == [kind |-> "partial", writer |-> p]

PublicFile(k) == [kind |-> "public", key |-> k]

PrivateFile(k, pass) == [kind |-> "private", key |-> k, pass |-> pass]

DatabaseFile(n) == [kind |-> "database", snap |-> n]

(* A file that was there before. *)
OtherFile == [kind |-> "other"]

NoLocals == [op |-> None, pub |-> None, priv |-> None, pass |-> None,
             in |-> None, out |-> None, key |-> 0, root |-> 0, snap |-> 0,
             capsule |-> None]

Init ==
    /\ fs \in [Paths -> {None, OtherFile}]
    /\ commits = 1
    /\ nextKey = 1
    /\ removed = {}
    /\ pc = [p \in Procs |-> "idle"]
    /\ loc = [p \in Procs |-> NoLocals]

-----------------------------------------------------------------------------
(* Calls *)

Running(p) == pc[p] \notin {"idle", "ok", "failed"}

Holds(path, kind) == fs[path] # None /\ fs[path].kind = kind

Goto(p, call) == pc' = [pc EXCEPT ![p] = call]

(* Mutant of Free: an open without O_EXCL. *)
FreeAlways(path) == TRUE

(* backup_fopen_exclusive: O_CREAT | O_EXCL | O_NOFOLLOW. *)
Free(path) == fs[path] = None

Create(p, path) ==
    /\ Free(path)
    /\ fs' = [fs EXCEPT ![path] = Partial(p)]

(* Writes and fclose reach the path unless another process removed it. *)
Fill(p, path, content) ==
    fs' = [fs EXCEPT ![path] = IF @ = Partial(p) THEN content ELSE @]

(* The writer is gone, the file stays as it is. *)
Abandoned(p) ==
    [path \in Paths |-> IF fs[path] = Partial(p) THEN Partial(None) ELSE fs[path]]

(* A command that has not started has no file open. *)
Started(p, call, locals) ==
    /\ ~Running(p)
    /\ Goto(p, call)
    /\ loc' = [loc EXCEPT ![p] = locals]
    /\ UNCHANGED <<fs, commits, removed>>

(* An operation of another process on the vault: one more audit entry. *)
VaultCommit ==
    /\ commits < MaxCommits
    /\ commits' = commits + 1
    /\ UNCHANGED <<fs, nextKey, removed, pc, loc>>

(* The process dies between two calls. *)
Crash(p) ==
    /\ Running(p)
    /\ Goto(p, "idle")
    /\ fs' = Abandoned(p)
    /\ loc' = [loc EXCEPT ![p] = NoLocals]
    /\ UNCHANGED <<commits, nextKey, removed>>

-----------------------------------------------------------------------------
(* backup_pqc_keygen and backup_mldsa_keygen *)

Keygen(p, pair, pass) ==
    /\ nextKey <= MaxKeys
    /\ nextKey' = nextKey + 1
    /\ Started(p, "openPrivate",
               [NoLocals EXCEPT !.op = "keygen", !.pub = pair[1],
                                !.priv = pair[2], !.pass = pass, !.key = nextKey])

OpenPrivate(p) ==
    /\ pc[p] = "openPrivate"
    /\ Create(p, loc[p].priv)
    /\ Goto(p, "writePrivate")
    /\ UNCHANGED <<commits, nextKey, removed, loc>>

(* Mutant of WritePrivate: a short write or a failed fclose goes unnoticed.  *)
WritePrivateUnchecked(p) ==
    /\ pc[p] = "writePrivate"
    /\ \/ Fill(p, loc[p].priv, PrivateFile(loc[p].key, loc[p].pass))
       \/ fs' = Abandoned(p)
    /\ Goto(p, "openPublic")
    /\ UNCHANGED <<commits, nextKey, removed, loc>>

WritePrivate(p) ==
    /\ pc[p] = "writePrivate"
    /\ Fill(p, loc[p].priv, PrivateFile(loc[p].key, loc[p].pass))
    /\ Goto(p, "openPublic")
    /\ UNCHANGED <<commits, nextKey, removed, loc>>

OpenPublic(p) ==
    /\ pc[p] = "openPublic"
    /\ Create(p, loc[p].pub)
    /\ Goto(p, "writePublic")
    /\ UNCHANGED <<commits, nextKey, removed, loc>>

WritePublic(p) ==
    /\ pc[p] = "writePublic"
    /\ Fill(p, loc[p].pub, PublicFile(loc[p].key))
    /\ Goto(p, "ok")
    /\ UNCHANGED <<commits, nextKey, removed, loc>>

(* Any of the four fails, an open because of O_EXCL too. *)
KeygenFail(p) ==
    /\ pc[p] \in {"openPrivate", "writePrivate", "openPublic", "writePublic"}
    /\ fs' = Abandoned(p)
    /\ Goto(p, "removePublic")
    /\ UNCHANGED <<commits, nextKey, removed, loc>>

(* The keys a file belongs to: those of its complete content, or of the     *)
(* generation that is writing it.                                           *)
KeysOf(file) ==
    IF file = None THEN {}
    ELSE CASE file.kind \in {"public", "private"} -> {file.key}
           [] file.kind = "partial" /\ file.writer # None -> {loc[file.writer].key}
           [] OTHER -> {}

(* remove() of the clean-up: the file at the path, whoever created it. *)
Remove(p, path) ==
    /\ fs' = [fs EXCEPT ![path] = None]
    /\ removed' = removed \cup (KeysOf(fs[path]) \ {loc[p].key})

RemovePublic(p) ==
    /\ pc[p] = "removePublic"
    /\ Remove(p, loc[p].pub)
    /\ Goto(p, "removePrivate")
    /\ UNCHANGED <<commits, nextKey, loc>>

RemovePrivate(p) ==
    /\ pc[p] = "removePrivate"
    /\ Remove(p, loc[p].priv)
    /\ Goto(p, "failed")
    /\ UNCHANGED <<commits, nextKey, loc>>

-----------------------------------------------------------------------------
(* vault_backup_export and backup_pqc_export *)

Export(p, pub, out) ==
    /\ Started(p, "root", [NoLocals EXCEPT !.op = "export", !.pub = pub, !.out = out])
    /\ UNCHANGED nextKey

(* vault_audit_merkle_root: the root of the log as it is now. *)
ExportRoot(p) ==
    /\ pc[p] = "root"
    /\ loc' = [loc EXCEPT ![p].root = commits]
    /\ Goto(p, "snapshot")
    /\ UNCHANGED <<fs, commits, nextKey, removed>>

(* backup_sqlite_snapshot: sqlite3_serialize reads one commit. *)
ExportSnapshot(p) ==
    /\ pc[p] = "snapshot"
    /\ loc' = [loc EXCEPT ![p].snap = commits]
    /\ Goto(p, "loadPublic")
    /\ UNCHANGED <<fs, commits, nextKey, removed>>

(* backup_load_public_keypair and the encapsulation. *)
ExportLoad(p) ==
    /\ pc[p] = "loadPublic"
    /\ Holds(loc[p].pub, "public")
    /\ loc' = [loc EXCEPT ![p].key = fs[loc[p].pub].key]
    /\ Goto(p, "openCapsule")
    /\ UNCHANGED <<fs, commits, nextKey, removed>>

(* backup_derive_capsule_key: of the recipient's key and the audit root. *)
CapsuleKey(k, root) == <<k, root>>

(* Mutant of Capsule: the root computed when the file is written. *)
CapsuleRootLate(l) ==
    [kind |-> "capsule", sealed |-> CapsuleKey(l.key, commits), root |-> commits,
     snap |-> l.snap]

(* The root travels in the header; the snapshot is sealed under the key.    *)
Capsule(l) ==
    [kind |-> "capsule", sealed |-> CapsuleKey(l.key, l.root), root |-> l.root,
     snap |-> l.snap]

-----------------------------------------------------------------------------
(* backup_pqc_import *)

Import(p, priv, pass, in, out) ==
    /\ Started(p, "readCapsule",
               [NoLocals EXCEPT !.op = "import", !.in = in, !.priv = priv,
                                !.pass = pass, !.out = out])
    /\ UNCHANGED nextKey

(* backup_read_all and the header: what is no whole capsule is refused. *)
ImportRead(p) ==
    /\ pc[p] = "readCapsule"
    /\ Holds(loc[p].in, "capsule")
    /\ loc' = [loc EXCEPT ![p].capsule = fs[loc[p].in], ![p].snap = fs[loc[p].in].snap]
    /\ Goto(p, "loadPrivate")
    /\ UNCHANGED <<fs, commits, nextKey, removed>>

(* The passphrase opens the file, and the key derived from it and the root  *)
(* in the header opens the capsule.                                         *)
Opens(file, pass, capsule) ==
    file.pass = pass /\ CapsuleKey(file.key, capsule.root) = capsule.sealed

ImportDecrypt(p) ==
    /\ pc[p] = "loadPrivate"
    /\ Holds(loc[p].priv, "private")
    /\ Opens(fs[loc[p].priv], loc[p].pass, loc[p].capsule)
    /\ Goto(p, "openDatabase")
    /\ UNCHANGED <<fs, commits, nextKey, removed, loc>>

-----------------------------------------------------------------------------
(* backup_write_all, of the capsule and of the restored database *)

OpenOut(p) ==
    /\ pc[p] \in {"openCapsule", "openDatabase"}
    /\ Create(p, loc[p].out)
    /\ Goto(p, IF pc[p] = "openCapsule" THEN "writeCapsule" ELSE "writeDatabase")
    /\ UNCHANGED <<commits, nextKey, removed, loc>>

WriteOut(p) ==
    /\ pc[p] \in {"writeCapsule", "writeDatabase"}
    /\ Fill(p, loc[p].out, IF pc[p] = "writeCapsule" THEN Capsule(loc[p])
                                                     ELSE DatabaseFile(loc[p].snap))
    /\ Goto(p, "ok")
    /\ UNCHANGED <<commits, nextKey, removed, loc>>

(* Mutant of Fail: a short write goes unnoticed. *)
FailUnnoticed(p) ==
    /\ Running(p) /\ loc[p].op # "keygen"
    /\ fs' = Abandoned(p)
    /\ Goto(p, IF pc[p] \in {"writeCapsule", "writeDatabase"} THEN "ok" ELSE "failed")
    /\ UNCHANGED <<commits, nextKey, removed, loc>>

(* An export or import ends at the first error and leaves what it wrote. *)
Fail(p) ==
    /\ Running(p) /\ loc[p].op # "keygen"
    /\ fs' = Abandoned(p)
    /\ Goto(p, "failed")
    /\ UNCHANGED <<commits, nextKey, removed, loc>>

Next ==
    \/ VaultCommit
    \/ \E p \in Procs :
         \/ \E pair \in Pairs, pass \in Passes : Keygen(p, pair, pass)
         \/ OpenPrivate(p) \/ WritePrivate(p) \/ OpenPublic(p) \/ WritePublic(p)
         \/ KeygenFail(p) \/ RemovePublic(p) \/ RemovePrivate(p)
         \/ \E pub \in Publics, out \in Outs : Export(p, pub, out)
         \/ ExportRoot(p) \/ ExportSnapshot(p) \/ ExportLoad(p)
         \/ \E priv \in Privates, pass \in Passes, in \in Outs, out \in Outs :
              Import(p, priv, pass, in, out)
         \/ ImportRead(p) \/ ImportDecrypt(p)
         \/ OpenOut(p) \/ WriteOut(p) \/ Fail(p) \/ Crash(p)

Spec == Init /\ [][Next]_backupVars

-----------------------------------------------------------------------------
(* Properties *)

Complete(file) == file # None /\ file.kind # "partial"

(* The capsule's root vouches for a prefix of the log inside its snapshot,  *)
(* whatever commits between the two readings: never for an entry that the   *)
(* restored vault does not have.                                            *)
SnapshotCoversRoot ==
    \A path \in Outs :
        Holds(path, "capsule") => fs[path].root <= fs[path].snap

(* "`O_EXCL` outputs" (README.md:245): no command changes what a complete   *)
(* file holds, also when two commands are given the same output.            *)
NeverOverwritten ==
    [][\A path \in Paths :
         Complete(fs[path]) => fs'[path] \in {fs[path], None}]_backupVars

(* Where a public key can be read its private key is there, so no export is *)
(* made for a key that is lost, wherever key generations fail or die: unless *)
(* the clean-up of another generation removed a file of the pair.  It does   *)
(* when it is given the private key's path, also with another public path:   *)
(* refused at backup.c:1010, it removes that private key at backup.c:1061,   *)
(* and the public key it belongs to stays (PairKept).                        *)
PublicHasPrivate ==
    \A path \in Paths :
        Holds(path, "public") =>
            \/ fs[path].key \in removed
            \/ \E other \in Paths, pass \in Passes :
                 fs[other] = PrivateFile(fs[path].key, pass)

(* A command that reports success has left complete files behind: a pair of *)
(* matching keys, unless the clean-up of another generation removed one of  *)
(* them, be it while it was being written; the capsule; the snapshot the    *)
(* capsule was made of.                                                     *)
SuccessIsComplete ==
    \A p \in Procs : pc[p] = "ok" =>
        LET l == loc[p] IN
        CASE l.op = "keygen" -> \/ l.key \in removed
                                \/ /\ fs[l.pub] = PublicFile(l.key)
                                   /\ fs[l.priv] = PrivateFile(l.key, l.pass)
          [] l.op = "export" -> fs[l.out] = Capsule(l)
          [] l.op = "import" -> fs[l.out] = DatabaseFile(l.snap)

(* "fails if the path already exists (O_EXCL), so no separate existence     *)
(* pre-check is needed" (backup.c:317): a complete key pair survives a key  *)
(* generation that is refused because of it.                                *)
PairKept ==
    [][\A pair \in Pairs :
         Holds(pair[1], "public") /\ Holds(pair[2], "private") =>
             fs'[pair[1]] = fs[pair[1]] /\ fs'[pair[2]] = fs[pair[2]]]_backupVars
=============================================================================
