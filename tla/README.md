# A TLA+ model of fuin

fuin is a command line vault for secrets: one SQLite file, envelope encryption
under keys derived from a master password, a signed audit log, access tokens and
encrypted backups. This directory models the parts of it that keep state, checks
them with TLC on small instances and proves the central safety properties with
TLAPS. Paths such as `vault.c` are under `src/src/`.

## 1. The system

| Part | State | Operations |
|---|---|---|
| vault (`vault.c`) | table `secrets`; per process the cached subkeys `g_subkeys` | init, unlock, put, get, get-version, list, delete, rollback, rotate-kek, check-expiry, auto-rotate, report |
| audit log (`audit.c`) | table `audit_log`: hash chain, HMAC per entry with a ratcheted key | append, verify, re-sign, Merkle root, proofs, signed roots |
| keys (`key_manager.c`, `crypto_engine.c`, `kdf.c`) | none of their own; a DEK per row, wrapped by the KEK | wrap, unwrap, rewrap all, encrypt, decrypt, derive |
| storage (`storage.c`, `sql/schema.sql`) | the database file, its `-wal` and `-shm` sidecars and their modes; the handle; one write transaction at a time | init, open, verify, close, begin, commit, rollback; the schema's UNIQUE constraints |
| access tokens (`access.c`, `vault.c`) | metadata `token_not_before` | issue, check, revoke; scope matching |
| backups (`backup.c`) | files: key pairs, capsules | keygen, export, import |
| command line (`main.c`) | the clipboard, a helper process per copy | one command per process: open, unlock, authorise, run, close; copy and clear |
| utilities (`utils.c`) | none | base32, base64, UUIDs, passwords, TOTP, times |

Parts interact by direct calls inside a process. Processes interact only through
the SQLite file: WAL mode, `BEGIN IMMEDIATE` for writers, and no busy timeout, so
a writer that finds the lock taken fails at once. Besides they share the files of
backups and the clipboard. Each statement outside a
transaction sees its own snapshot of the last commit.

Hard behaviour, and therefore what the models keep:

* operations read (active row, version bounds, expiry, audit tail, clock) *before*
  the transaction that writes what they computed;
* reads are audited outside any transaction, one statement at a time;
* keys are cached at unlock and may be retired by another process's rotation;
* any statement may fail and any process may die between two statements;
* `init` creates the schema one committed statement at a time, next to other `init`
  and to commands that open the file;
* the clipboard is read, compared and cleared in separate steps while others copy;
* the loop of auto-rotate, and nobody waiting for a lock.

`PROJECT.json` lists the hazards line by line with the properties that watch them.

## 2. Modules

| Module | Models |
|---|---|
| `AuditLog` | `audit.c` as operators on a log: append, verify, re-sign. Hashes and MACs are the things they bind: `prev` names the entry hashed into `prev_hash`, `key` and `idx` the audit key and how often it was ratcheted |
| `Vault` | processes sharing a database: unlock, put, delete, rollback, get, rotate-kek, one action per statement (or run of local computation), transactions, crashes, failures |
| `SecretStore` | the abstract promise: a versioned store with atomic writes and deletes |
| `VaultProperties` | properties of `Vault` and the refinement mapping to `SecretStore` |
| `VaultProofs`, `VaultAuditProofs` | TLAPS proofs about `Vault`: types, the table and the refinement; then, extending that, the log, keys and reads |
| `Storage` | creating, opening, verifying and closing the database file, as scripts of steps |
| `Credentials` | on top of `Storage`: init, unlock and rotation of the four stored blobs, read one SELECT at a time |
| `Tokens` | on top of `Scope`: issue, check and revoke across processes, with a clock, and what each command asks of its token |
| `Scope` | `access_scope_allows` on strings |
| `Merkle` | Merkle trees, proofs and signed roots, and the commands that make and verify them next to appends that may fork the log, and rotations |
| `AutoRotate` | the loop that re-keys expired secrets, next to put, rollback and delete |
| `Backup` | key generation, export and import over shared files |
| `Clipboard` | copying a secret, the helper that clears it, other copies |
| `Base32` | `utils_base32_decode`, a character a step, and its reference |
| `CredentialsProofs`, `TokensProofs`, `AutoRotateProofs`, `BackupProofs`, `MerkleProofs` | TLAPS proofs about the module of that name (`CredentialsProofs` also about `Storage`, `TokensProofs` about `Scope`) |
| `CliProofs` | TLAPS proofs about `Clipboard` and `Base32` |
| `MC*` | instances for TLC; `MCCli` composes `Base32` and `Clipboard` |

How modules compose: `Vault` is built on `AuditLog`, `Credentials` on `Storage`,
`Tokens` on `Scope`. `Vault` takes an unlock as one
step because `Credentials` shows (`UnlockIsAtomic`) that its four reads give keys
of the generation stored at that moment or nothing. `AutoRotate` takes the
transactions of put, rollback, delete and its own as atomic because `Vault` implements
`SecretStore`; the clock they read before it stays a step of its own. `AutoRotate` in its
turn implements `SecretStore` (`StoreKept`). `MCCli` runs the decoder of `Base32` and then
`Clipboard`, as `totp --copy` does; the code in between is a library's HMAC of the seed and the
time, so copying is explored after one seed, with any text.

### Vault and the code

`db` is the last commit, `work` what the open transaction sees, `writer` its owner.
`pc[p]` names the next statement and `loc[p]` the C locals that cross statements.

* `PutFind`, `ReadBounds`: `vault_find_secret_metadata` and
  `vault_find_secret_history_bounds` in `vault_put_with_options`; `RollbackFind`
  replaces the first in `vault_rollback`, `DeleteFind` in `vault_delete`;
* `Begin`, `Archive`, `Insert`, `LogInTxn`, `Commit`: the transaction. `TxnFail`
  is every error path, the COMMIT's own included; `BeginFail` is SQLITE_BUSY;
* `RotateDerive`, `RotateVerify`, `RotateRewrap`, `RotateAuth`, `RotateResign`,
  then log and commit: `vault_rotate_kek` in its order; the cached keys change
  after the commit (`KeysAfter`);
* `GetFind`, `ReadLastHash`, `ReadNextId`, `ReadCount`, `AppendRead`:
  `vault_read_secret` and the four statements of `audit_log_event` in autocommit;
* `Crash`: the process dies; its transaction is rolled back by SQLite (external).

Data are abstracted: a key is the number of its generation (a fresh salt makes a
fresh key), a row opens under the generation that wrapped it, names are their
lookup hashes. TOKEN_ISSUE, TOKEN_REVOKE and ROTATE_DEK entries follow the paths of
READ, and of put's transaction, and are not separate operations here.

### Opening, unlocking and closing

A process runs one command: `Start` picks `init` or any other (`cli_open_unlocked_vault`),
then its script is run step by step. `at[p]` is the position in `InitScript` or
`OpenScript`, which list the calls of `storage_init` and `storage_open` in their order;
each statement of `schema.sql` commits by itself, and the schema is run twice.
`Verify` is `storage_verify_schema`; every failure ends in `StorageClose`. A process past
its script (`Ready`) may unlock: `Unlock`, `ReadSalt`, `ReadVerifier`, then `Store` for a
new vault or `ReadNonce` and `ReadWrapped` for an old one. `Close` is `vault_close`,
`Crash` the death of the process at any point. SQLite removing the sidecars with the
last connection, and creating them with the mode of the database, is external.

### The clipboard

`Copy`, `Write`, `Schedule`, `Feed` are `cli_copy_secret_to_clipboard` (the vault is closed
first, so no child inherits it); `HelperRead`, `Wake`, `Paste`, `Clear` are
`cli_clipboard_clear_helper` in its own process. Every call of either may fail, the
text getting through in part. `owner` and `stale` are history: who put the text there,
and which helpers looked at a text that was replaced since.

`Names`, `Values`, versions (`IntMax`) and counters (`Int64Max`) are parameters: the
limits are reached in the runs `vault` and `rekey`.

## 3. What is checked

| Run | Instance | Shows |
|---|---|---|
| `vault` | 2 processes, every operation, 1 name, 2 values, versions to 3, 3 key generations, log 3, fairness | table, audit and history properties; refinement of `SecretStore`; ratchet, audited reads, append-only log, each DELETE after what it retires; total and current rotations; what alone can break the log or a row; every operation ends |
| `credentials_unlock` | 2 processes, each init or open, 3 salts, 2 passwords | what opens is complete and private; unlock never mixes generations; one metadata key; always openable; init takes over nothing but a racing init |
| `tokens_revoke` | 2 processes, 1 revoker, 3 seconds, 2 tokens, 2 keys, 2 scopes, 6 commands; all strings up to 3 characters over 4 | revoked tokens stay refused; commands do only what their scope grants; matching equals its definition by path segments |
| `cli` | all seeds up to 5 characters over 3 values and the kinds without one, buffers of 0 to 3 bytes, accumulator of 13 bits; 2 copying commands, 3 texts, 2 other copies, fairness | seeds decode exactly, and just those are refused that should be; the helper clears its secret, when due, and nothing else; the secret goes |
| `merkle` | logs up to 6, forked, rotated and with stale signatures, 2 keys, 2 proofs, 1 signature | proofs are accepted just while the log verifies, bind one entry and place; signatures bind one length and root; roots differ by length |
| `rekey` | 2 processes, 1 of them writes too, 1 name, 3 versions, 3 seconds, fairness | a re-keyed version comes from an expired one and overtakes only later commits; the loop ends |
| `backup` | 2 processes, both generating keys, 2 public paths with one private path, 2 outputs, 2 commits | nothing is overwritten, success means complete files, public keys have their private key unless another generation removed a file of the pair, the snapshot covers the root |

Five runs end in a violation, each a disagreement with a line of the repository
(`findings` in `PROJECT.json`):

* `vault_fork`: two processes, one READ between the other's statements, and the
  chain forks: verification then fails without tampering;
* `vault_stale`: a session open during another process's rotation writes a row no
  password opens;
* `backup_pair`: key generation over an existing pair is refused by O_EXCL and its
  clean-up then deletes the pair; given another public path, it deletes the private key
  and leaves the old public key, for which exports can still be made (this is what
  `PublicHasPrivate` excepts, by the history variable `removed`);
* `scope_segment`: a token for `a/*` is accepted for `a/b/b`, where the comment at
  `access.c:446` has a star span at most one segment. The tests (`test_access.c:62`) and
  `docs/DEVELOPMENT.md:209` side with the code, and so does `GrantIsSubtree`;
* `rekey_value`: auto-rotate decrypts before it reads the history bounds, so a put that
  commits in between is archived and the older value becomes active again, where
  `docs/DEVELOPMENT.md:155` promises "preserves value". `RekeysExpired` is what holds.

Other observations have no run. `vault_revoke_tokens` reads the clock before its
transaction and overwrites `token_not_before`, so of two overlapping revocations the
earlier second may commit last: `tokens_revoke` has one revoker (`Revokers`). Two
concurrent key generations with the same paths remove each other's files, also while
they are being written: `SuccessIsComplete` and `PublicHasPrivate` except those keys
(`removed`). A put between the read of a delete and its transaction makes the DELETE
entry name an older version than the one it retires, which no document rules out:
`DeletesRetire` says that it never names a newer one and follows the creation it
retires. `init` decides that the vault is empty before
its key derivation and stores its blobs with INSERT OR REPLACE, so of two concurrent
`init` the later one replaces the password and the metadata key of the earlier, whose
session goes on with its own: `InitReplacesOnlyRacing` says that this is the only way
one vault takes over another, and `OneMetaKey` excepts it (`replaced`). A helper that has
compared the clipboard clears it although somebody has copied since: `ClearIsDue`
allows that window (`stale`) and no other. If the helper cannot be started the
command says so and the secret stays; if it dies later nobody knows (`"broken"` in
`SecretCleared`). A token is checked before the operation it authorises, and a
revocation in between does not stop the operation. Tightening `-shm` opens and closes
that file in a process that has it open through SQLite, which drops SQLite's POSIX
locks on it (`storage.c:430`); what follows is inside SQLite and not modelled.

With more than one process the log may stop verifying and a row may stop opening, as
`vault_fork` and `vault_stale` show. `OnlyStaleBreaks` says that these are the only two
ways: a session with retired keys, or a READ whose last hash was overtaken. A proof of
`audit-proof` that was accepted once is refused from then on if the log forks, and until
the next unlock if the keys are rotated, because `vault_audit_verify_merkle_proof` checks
the whole log first (`vault.c:2920`): `ProofsVerify` states the equivalence.

**Bounds.** Every finding and every mutant shows up within the instances above: they
need two actors, one name and two or three versions or key generations. `vault` has one
name and one password (a rotation makes fresh keys under the same password too): rows of
other names take no part in a name's constraints, and the theorems hold for all of them.
`backup` shares the private path between two public ones, as that is the way a generation
can hit part of another pair; a third generation would add nothing to the two that collide.
`MaxLog` limits when an operation may *start*, so logs grow past it by what is in
flight. `MaxKek`, `MaxSalt`, `MaxKeys`, `MaxCommits`, `MaxTokens`, `MaxClock`, `MaxEntries`, `MaxProofs`,
`MaxSignatures`, `MaxCopies`, `MaxFailures`, `MaxLen` and `MaxChars` are guards named in
their modules. The accumulator of `Base32` has 32 bits in the code; 13 bits lose their
oldest after three characters as 32 do after seven, so short inputs meet the case (and
`SeedsExactHolds` covers every width from 12 on).
Symmetry (in `credentials_unlock` and `backup`) is over processes, passwords and outputs,
never in a run with a liveness property. `cli` turns deadlock checking off: a decoder that
has returned, or commands that are all done, have no successor.

**Fairness.** `Vault!FairSpec` and `AutoRotate!FairSpec` assume weak fairness of the
steps of an operation under way: the scheduler runs a live process. No lock is
waited for (no busy timeout, no retry), so nothing stronger is needed. No fairness is
assumed of starting, of crashes or of success. `Clipboard!Spec` assumes that time passes
and that a helper which can run is run; a helper that fails is not excluded.

**Files.** `Backup` assumes that `remove` of an existing file succeeds; the code ignores
its result. Writers that lost their path to another process's `remove` write to a file
nobody sees any more (`Fill`).

**Clock.** `Tokens` and `AutoRotate` assume that the clock never steps back. With a
clock that does, a revocation misses tokens from the future, and auto-rotate may spin
until time catches up.

## 4. What is proved

For every number of processes, names, values, limits, generations, tokens and paths,
and for logs, scopes, names and texts of any length (the constants of the modules are restricted only by their `...Assumption`):

| Theorem | About | Module |
|---|---|---|
| `TypeCorrect` | `TypeOK`: no version or counter beyond its integer type | `VaultProofs` |
| `ActiveIsLatestHolds`, `GaplessVersionsHolds`, `NoTxnLeakHolds`, `HistoryImmutableHolds` | the secrets table | `VaultProofs` |
| `StoreImplemented` | `Spec => Store!Spec`, the refinement of `SecretStore` | `VaultProofs` |
| `RatchetIndexHolds`, `AuditAppendOnlyHolds`, `RotationTotalHolds`, `OnlyCurrentRotatesHolds` | the log and rotations | `VaultAuditProofs` |
| `AuditReplaysHolds`, `ReadsAuditedHolds` | the log against table and callers | `VaultAuditProofs` |
| `DeletesRetireHolds`, `OnlyStaleBreaksHolds` | races with a delete; what alone breaks the log or a row | `VaultAuditProofs` |
| `ChainVerifiesHolds`, `EveryRowUnwrapsHolds` (`SoleProcess`) | sequential use: the log verifies and every row opens | `VaultAuditProofs` |
| `CredentialTypes`, `OpenIsVerifiedHolds`, `AlwaysOpenableHolds`, `OneMetaKeyHolds`, `UnlockIsAtomicHolds`, `InitReplacesOnlyRacingHolds` | opening, init, unlock | `CredentialsProofs` |
| `TokenTypes`, `RevokedRefusedHolds` (`OneRevoker`), `AuthorisedIsCoveredHolds` | tokens | `TokensProofs` |
| `StarIsSubtree`, `GrantsAreExact`, `GrantIsSubtreeHolds` | scope matching on strings against path segments | `TokensProofs` |
| `BuiltProofVerifies`, `BuiltProofBinds`, `RootsDiffer` | Merkle trees over every log: a built proof is accepted, for its entry and index only; lengths have different roots | `MerkleProofs` |
| `ProofsVerifyHolds`, `ProofsBindHolds`, `RootShowsLengthHolds`, `SignedRootsBindHolds` | the same of what the commands hand out while the log grows, forks and is signed anew | `MerkleProofs` |
| `AutoRotateTypes`, `RekeysExpiredHolds` | auto-rotation | `AutoRotateProofs` |
| `StoreKept` | `Spec => Store!Spec`: auto-rotation next to writers implements `SecretStore` too | `AutoRotateProofs` |
| `SnapshotCoversRootHolds`, `NeverOverwrittenHolds`, `PublicHasPrivateHolds`; `SuccessIsCompleteHolds` (`OutsApart`) | backups | `BackupProofs` |
| `ClearIsDueHolds` | the clipboard's helper | `CliProofs` |
| `SeedsExactHolds` | base32 decoding | `CliProofs` |

All but `StoreKept`, the two about sequential use and the facts about operators
(`StarIsSubtree`, `GrantsAreExact`, `BuiltProofVerifies`, `BuiltProofBinds`, `RootsDiffer`) state a property of section 3's
runs, and every safety property of a passing run has its theorem. Every inductive invariant below was
also checked by TLC on the instance of the component's run.

### Hypotheses

The names in parentheses are hypotheses of the theorem, written in its `ASSUME`, and the code
needs them:

* `SoleProcess`: with two processes the runs `vault_fork` and `vault_stale` refute
  `ChainIsLinked` and `EveryRowUnwraps`; what holds for any number is `OnlyStaleBreaks`;
* `OneRevoker`: of two overlapping revocations the earlier second may commit last;
* `OutsApart`: no output of an export or import is also given to a key generation, whose
  clean-up would remove it.

Hashes and signatures are symbolic, hence collision-free, in every theorem of
`MerkleProofs`: what is shown is that trees, proofs and verification fit together.

### Arguments

*Types.* `TypeInv` adds to `TypeOK` what each program point knows of its locals
(`Fit`): a writer past its bounds read holds a version and a counter within their
limits.

*The table.* `ActiveIsLatest` and `GaplessVersions` are not inductive: a writer
inserts a version computed from an older table. `TableInv` adds that the uncommitted
table is well formed and carries every committed row, and that for each writer
versions `1..ver-1` are taken (`Reserved`), which stays true because rows are never
lost (`Carries`). Then the UNIQUE constraint leaves exactly one admissible version,
the next one, and the partial index makes sure nothing is active above it.

*The refinement.* The store of `SecretStore` is a function of the committed rows, so only
`Commit` can change it, by everything its transaction did. `StoreInv` therefore describes
how the uncommitted table differs from the committed one at each statement (`Written`):
other names have the same history; the operation's own has it until `Insert`, which adds
one version with the operation's value (`Wrote`), while the archiving of a DELETE leaves
the history and ends what was active. With `Reserved` the new version is the next, which is
`Store!Write`; a DELETE is `Store!Delete`; a rotation, which names no secret (`Nameless`),
and a READ change nothing.

*The log.* `AuditInv` keeps two facts about a reader between its SELECTs and its
INSERT (`Counted`): the id is at most one past the end, and the count lies between
the id and the end. A free id therefore forces both to be current, which is why the
index survives although the link does not. For rotation, `Rotating` records how far
the writer has come, and `FirstSigned` that the first entry is always signed by the
current key: a stale session therefore fails `audit_verify_chain`.

*Replay and reads.* In the open transaction the log lags behind the table for one name, and
only until the entry is written (`Ahead`): at "log" the table already agrees with what the
entry will say (`Tells`). `Replays` is `AuditReplays` for one name, strengthened to a last
mutation that exists; entries about others, new signatures and rewrapped rows leave it alone,
and an entry of its own decides it anew. For reads, `Held` says that what was decrypted is
still stored when the READ is logged, because tables only ever carry rows on.

*Races.* `RaceInv` adds that every DELETE in the log, committed or not, follows the creation it
retires (`Retires`), how far the open transaction's log and keys differ from the committed ones,
and that the version a delete has read is in the table (`Pending`). When its entry is written the
last mutation logged is, by `Replays`, the creation of the version that is active; others only
add newer versions, so the version named is never above the one retired. For
`OnlyStaleBreaks` every step that touches rows or log is shown to keep what verified, unless the
keys it uses are retired or the hash it stores is no longer the last.

*One process.* `SoleInv` is what others could have disturbed (`Undisturbed`): the session holds
the stored keys, and the hash read first is still the last.

*Opening and unlocking.* `Established` says what each position in the script has secured: modes
after the two tightenings, the whole schema after `verify`; tables are never dropped, and no
statement loosens a mode (a user may, while nobody has the vault open). `Unlocking` ties the locals of an unlock to the blobs: a salt
belongs to one generation, and its verifier, nonce and wrapped key must match it to open
anything, so keys that come out belong to the generation of the salt, which is still the
stored one when the last read succeeds. A process about to store found no vault, or was
overtaken while it derived its keys (`raced`).

*Induction.* The library's induction theorems quantify over a predicate, which the provers
cannot instantiate, but a *set* can be: from the well-foundedness of `<` on the naturals, a set
with 0 and with every successor of its members has all naturals (`NatsIn`). The recursive
functions of the models are shown to exist by gluing their finite runs together; from then
on only their equations are used (`PowersRun`, `NumeralRun` and the like).

*Tokens.* `TokenInv` ties the token and request at hand to what was compared; `RevokeInv` adds
that `notBefore` never decreases with one revoker and that a revocation in progress has a time
no earlier than any token it saw.

*Scopes.* `access_resource_matches` compares characters, `Subtree` compares lists of segments.
The lemmas follow `Paths`, the segments of ever longer prefixes: a slash closes the last
segment and opens an empty one (`SlashCloses`), any other character extends the last
(`CharStays`), and closed segments never change (`PathsGrow`). Hence a name whose characters
begin with the pattern has the pattern's segments just when it ends there or goes on at a
slash, and equal segments give the characters back.

*Merkle.* `MerkleInv` says of each proof and signature handed out from how many entries it was
made, no more than there are now, and of the locals what the queries so far have read; entries
are never rewritten, so only `audit_verify_chain` may come to refuse. The rest is about trees. A proof is rebuilt level by
level as the tree was: at each level the node and its sibling are the two halves of their
parent, the sibling of an odd last node being the node itself, so the rebuilt hash is the
root; and since a parent determines its halves, another entry or index would give another
hash on the way up (`BindsBelow`). Logs with the same root have the same number of levels, as
their left edges show (`SameRootHeight`); the last node of the longer log would then be in the
other at every level (`LastNodeBelow`), down to the last entry, which is not.

*Auto-rotation.* `RekeyInv` says of a loop between its reads (`Expired`): the version it picked
is in the history, expired by the clock it read, and everything above it was committed no
earlier than that reading. Appending the re-keyed version then gives `RekeysExpired`, and
versions of others only add to the part above. The same invariant says that a transaction
has a value of the store and a number within INT_MAX at hand, and its guard that the number
is the next one: so each transaction is a write of `SecretStore` and all else stutters
(`StoreKept`).

*Backups.* `BackupInv` orders an export's reads (root before snapshot) and suffices for
`SnapshotCoversRoot` and, with O_EXCL, for `NeverOverwritten`. `KeyInv` adds, for key pairs, that
no two generations have the same key (`KeyOrder`), that until a generation succeeds no public
key of it can be read (`Unpublished`), so its own clean-up orphans nothing, and what it has on
disk at each call unless another's clean-up took it (`PairOnDisk`): the private key is complete
before the public one is opened. `OutInv` is the same for the outputs of export and import.

*The clipboard.* `ClipInv` says that a sleeping helper has all of the secret, and that one about
to clear has seen it on the clipboard or has been overtaken since (`stale`).

*Base32.* `DecodeInv` says that after `pos` characters the output is the bytes of the number
they write, the accumulator is that number modulo its width, and `bits` is what is not written
yet, 0 to 7. One character more leaves the bytes written as they are (`HighBitsKept`), and the
byte taken out lies within the accumulator, so the bits lost above do not matter (`ByteWithin`;
12 bits are needed for 7 + 5). A text that overflows the buffer has more bytes than fit as a
whole, because bytes only grow with characters (`BytesGrow`).

### Only model-checked

Liveness (`OperationsEnd`, `LoopEnds`, `SecretCleared`): fairness is beyond the prover.

## 5. Not modelled

Ciphers, KDFs and encodings themselves; JSON and base64; list, report and check-expiry
(they only read); resolving symbolic links of
paths; SQLite's own locking; argument parsing, prompts and output; the vendored cJSON; benchmarks, fuzzers and demos.

## 6. Plan

Done: 1 the vault core and its proofs, 2 credentials, 3 tokens and scopes, 4 Merkle,
5 auto-rotation, 6 backups, 7 storage under credentials, 8 the clipboard, 9 signed roots,
10 the commands' use of tokens, 11 base32, 12 the proofs of every safety property that a
passing run checks, and of the refinements of `SecretStore`. What could follow: the parts of
section 5 that keep state, first the resolution of symbolic links in backup paths.
