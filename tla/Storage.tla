------------------------------ MODULE Storage ------------------------------
(***************************************************************************)
(* How a command opens the database file (src/src/storage.c): `fuin init`  *)
(* creates the file and runs the schema, statement by statement, every     *)
(* other command only verifies it.  Several processes do so at once, any   *)
(* call fails and any process dies.                                        *)
(***************************************************************************)
EXTENDS Naturals, SequencesExt

CONSTANTS Procs   \* processes, one command each at a time

VARIABLES
    files,    \* those of the vault's files that exist
    loose,    \* ... and are open to other users
    schema,   \* tables and indexes created
    cmd,      \* the command of each process: "init" or any other, "open"
    at        \* its position in the script it runs; 0 without a command

storageVars == <<files, loose, schema, cmd, at>>

(* The statements of schema.sql, each IF NOT EXISTS and in autocommit mode. *)
Statements == <<"secrets", "audit_log", "metadata", "auth_failures",
                "idx_secrets_name", "idx_secrets_name_active",
                "idx_audit_log_timestamp">>

(* storage_init runs the schema twice, with the sidecars tightened between. *)
InitScript == <<"create", "connect", "wal", "sidecars">> \o Statements
              \o <<"sidecars">> \o Statements \o <<"verify">>

OpenScript == <<"tighten", "connect", "wal", "sidecars", "verify">>

Script(c) == IF c = "init" THEN InitScript ELSE OpenScript

(* Process p is about to run this step of its script. *)
Reaches(p, step) ==
    at[p] \in DOMAIN Script(cmd[p]) /\ Script(cmd[p])[at[p]] = step

Proceed(p) == at' = [at EXCEPT ![p] = @ + 1]

(* g_db is set: the script is past sqlite3_open_v2 ... *)
Connected(p) == at[p] > 2

(* ... and storage_init or storage_open has returned SM_OK. *)
Ready(p) == at[p] > Len(Script(cmd[p]))

StorageInit ==
    /\ files = {} /\ loose = {}
    /\ schema = {}
    /\ cmd = [p \in Procs |-> "open"]
    /\ at = [p \in Procs |-> 0]

(* cli_open_unlocked_vault: only `init` goes on without a file. *)
Start(p, c) ==
    /\ at[p] = 0
    /\ c = "init" \/ "db" \in files
    /\ cmd' = [cmd EXCEPT ![p] = c]
    /\ Proceed(p)
    /\ UNCHANGED <<files, loose, schema>>

(* storage_open_owner_only_fd: open, with O_CREAT for `init`, and fchmod.   *)
(* Its descriptor is closed before SQLite has any on the file.              *)
TightenDb(p) ==
    /\ \/ Reaches(p, "create") /\ files' = files \cup {"db"}
       \/ Reaches(p, "tighten") /\ UNCHANGED files
    /\ loose' = loose \ {"db"}
    /\ Proceed(p)
    /\ UNCHANGED <<schema, cmd>>

Connect(p) ==
    /\ Reaches(p, "connect")
    /\ Proceed(p)
    /\ UNCHANGED <<files, loose, schema, cmd>>

(* PRAGMA journal_mode = WAL; SQLite creates -wal and -shm with the mode of *)
(* the database file.                                                       *)
SetWal(p) ==
    /\ Reaches(p, "wal")
    /\ files' = files \cup {"sidecars"}
    /\ loose' = IF "sidecars" \notin files /\ "db" \in loose
                  THEN loose \cup {"sidecars"} ELSE loose
    /\ Proceed(p)
    /\ UNCHANGED <<schema, cmd>>

(* storage_chmod_wal_sidecars; a missing one is no error. *)
TightenSidecars(p) ==
    /\ Reaches(p, "sidecars")
    /\ loose' = loose \ {"sidecars"}
    /\ Proceed(p)
    /\ UNCHANGED <<files, schema, cmd>>

(* storage_execute_sql(STORAGE_EMBEDDED_SCHEMA), the next statement. *)
Define(p, object) ==
    /\ Reaches(p, object)
    /\ schema' = schema \cup {object}
    /\ Proceed(p)
    /\ UNCHANGED <<files, loose, cmd>>

(* storage_close: the last connection to close removes the sidecars.        *)
StorageClose(p) ==
    /\ at' = [at EXCEPT ![p] = 0]
    /\ cmd' = [cmd EXCEPT ![p] = "open"]
    /\ IF Connected(p) /\ \A q \in Procs \ {p} : ~Connected(q)
         THEN /\ files' = files \ {"sidecars"}
              /\ loose' = loose \ {"sidecars"}
         ELSE UNCHANGED <<files, loose>>
    /\ UNCHANGED schema

Tables == {"secrets", "audit_log", "metadata", "auth_failures"}

(* Mutant of Required: the unique index is not asked for. *)
RequiredTables == Tables

(* What storage_verify_schema asks for: the tables with their columns, and  *)
(* of the indexes the unique one that makes one row active per name.        *)
Required == Tables \cup {"idx_secrets_name_active"}

(* It reads the catalogue in several queries; nothing is ever dropped, so   *)
(* they are one step, the last.                                             *)
Verify(p) ==
    /\ Reaches(p, "verify")
    /\ IF Required \subseteq schema
         THEN Proceed(p) /\ UNCHANGED <<files, loose, schema, cmd>>
         ELSE StorageClose(p)

(* A call fails: both functions close what they opened. *)
OpenFail(p) ==
    /\ at[p] > 0 /\ ~Ready(p)
    /\ StorageClose(p)

(* The process dies: the kernel closes its files, the sidecars stay. *)
Die(p) ==
    /\ at[p] > 0
    /\ at' = [at EXCEPT ![p] = 0]
    /\ cmd' = [cmd EXCEPT ![p] = "open"]
    /\ UNCHANGED <<files, loose, schema>>

(* Somebody copies the vault with another umask while nobody uses it. *)
Loosen(f) ==
    /\ \A p \in Procs : at[p] = 0
    /\ f \in files
    /\ loose' = loose \cup {f}
    /\ UNCHANGED <<files, schema, cmd, at>>

(* The steps that leave the credentials alone. *)
StorageStep ==
    \/ \E p \in Procs :
         \/ \E c \in {"init", "open"} : Start(p, c)
         \/ TightenDb(p) \/ Connect(p) \/ SetWal(p) \/ TightenSidecars(p)
         \/ \E object \in ToSet(Statements) : Define(p, object)
         \/ Verify(p) \/ OpenFail(p)
    \/ \E f \in {"db", "sidecars"} : Loosen(f)

StorageTypeOK ==
    /\ loose \subseteq files /\ files \subseteq {"db", "sidecars"}
    /\ schema \subseteq ToSet(Statements)
    /\ cmd \in [Procs -> {"init", "open"}]
    /\ at \in [Procs -> 0..(Len(InitScript) + 1)]

(* Whoever got past storage_init or storage_open, even next to an init that *)
(* is still running or died half way, finds every table and the index that  *)
(* keeps one version active, in files nobody else may read.                 *)
OpenIsVerified ==
    \A p \in Procs : Ready(p) =>
        /\ Tables \cup {"idx_secrets_name_active"} \subseteq schema
        /\ loose = {}
=============================================================================
