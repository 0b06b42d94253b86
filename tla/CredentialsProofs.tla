------------------------- MODULE CredentialsProofs -------------------------
(***************************************************************************)
(* Opening the database and unlocking the vault, for any number of         *)
(* processes: what is opened is verified and private, an unlock never      *)
(* mixes two generations of credentials, stored credentials always open,   *)
(* and only racing inits replace them.                                     *)
(***************************************************************************)
EXTENDS Credentials, TLAPS

(* What a process has established by its position in the script.           *)
Established(p) ==
    /\ at[p] > 1 => "db" \notin loose
    /\ at[p] > 4 => "sidecars" \notin loose
    /\ Ready(p) => Required \subseteq schema

StorageInv == StorageTypeOK /\ \A p \in Procs : Established(p)

(* Between the reads of an unlock: the process is still connected and holds *)
(* no keys, and the salt at hand is one that a master key was made of.      *)
Unlocking(p) ==
    /\ pc[p] # "idle" =>
         Ready(p) /\ sess[p] = None /\ loc[p].pw \in Passwords
    /\ pc[p] \in {"store", "nonce", "wrapped", "refuse"} =>
         loc[p].blobs.salt \in 1..MaxSalt
    /\ pc[p] = "store" => meta = NoBlobs \/ loc[p].raced

(* A session goes with stored credentials, and unless an init was replaced  *)
(* with the metadata key that they wrap.                                    *)
SessionOf(p) ==
    sess[p] # None => /\ meta # NoBlobs
                      /\ replaced \/ sess[p].meta = meta.wrapped.meta

CredInv ==
    /\ StorageInv
    /\ TypeOK
    /\ AlwaysOpenable
    /\ \A p \in Procs : Unlocking(p) /\ SessionOf(p)

-----------------------------------------------------------------------------
(* The scripts *)

Steps == ToSet(Statements)
         \cup {"create", "tighten", "connect", "wal", "sidecars", "verify"}

(* No statement of the schema is taken for another step. *)
LEMMA StatementSteps ==
    /\ Statements \in Seq(Steps) /\ Len(Statements) = 7
    /\ ToSet(Statements) \cap {"create", "tighten", "connect", "wal",
                               "sidecars", "verify"} = {}
<1>1. Len(Statements) = 7 /\ DOMAIN Statements = 1..7
  BY DEF Statements
<1>2. \A i \in 1..7 : Statements[i] \in Steps
  BY <1>1 DEF Steps, ToSet
<1>3. Statements = [i \in 1..7 |-> Statements[i]]
  BY <1>1 DEF Statements
<1>4. Statements \in Seq(Steps)
  BY <1>1, <1>2, <1>3
<1>5. ToSet(Statements) \cap {"create", "tighten", "connect", "wal",
                              "sidecars", "verify"} = {}
  BY DEF Statements, ToSet
<1> QED
  BY <1>1, <1>4, <1>5

(* What u = s \o t says of lengths and elements. *)
Join(s, t, u) ==
    /\ Len(u) = Len(s) + Len(t)
    /\ \A i \in 1..Len(s) : u[i] = s[i]
    /\ \A i \in 1..Len(t) : u[Len(s) + i] = t[i]

(* A sequence put before another: length and elements. *)
LEMMA Joined ==
    ASSUME NEW S, NEW s \in Seq(S), NEW t \in Seq(S)
    PROVE  s \o t \in Seq(S) /\ Join(s, t, s \o t)
  BY DEF Join

(* Both scripts begin by tightening the database, tighten the sidecars      *)
(* fourth and end by verifying the schema; that of init is the longer one.  *)
LEMMA Scripts ==
    ASSUME NEW c \in {"init", "open"}
    PROVE  /\ Len(Script(c)) \in 5..Len(InitScript)
           /\ DOMAIN Script(c) = 1..Len(Script(c))
           /\ Script(c)[1] \in {"create", "tighten"}
           /\ Script(c)[4] = "sidecars"
           /\ Script(c)[Len(Script(c))] = "verify"
<1>1. /\ Len(OpenScript) = 5 /\ DOMAIN OpenScript = 1..5
      /\ OpenScript[1] = "tighten" /\ OpenScript[4] = "sidecars"
      /\ OpenScript[5] = "verify"
  BY DEF OpenScript
<1>2. /\ InitScript \in Seq(Steps) /\ Len(InitScript) = 20
      /\ InitScript[1] = "create" /\ InitScript[4] = "sidecars"
      /\ InitScript[20] = "verify"
  <2>1. ASSUME NEW head, NEW last, head \in Seq(Steps), Len(head) = 4,
               head[1] = "create", head[4] = "sidecars",
               NEW mid, mid \in Seq(Steps), Len(mid) = 1,
               last \in Seq(Steps), Len(last) = 1, last[1] = "verify"
        PROVE  LET s == head \o Statements \o mid \o Statements \o last IN
               /\ s \in Seq(Steps) /\ Len(s) = 20
               /\ s[1] = "create" /\ s[4] = "sidecars" /\ s[20] = "verify"
    <3> DEFINE one == head \o Statements
               two == one \o mid
               three == two \o Statements
               all == three \o last
    <3>1. one \in Seq(Steps) /\ Join(head, Statements, one)
      BY <2>1, StatementSteps, Joined
    <3> HIDE DEF one
    <3>2. two \in Seq(Steps) /\ Join(one, mid, two)
      BY <2>1, <3>1, Joined
    <3> HIDE DEF two
    <3>3. three \in Seq(Steps) /\ Join(two, Statements, three)
      BY <3>2, StatementSteps, Joined
    <3> HIDE DEF three
    <3>4. all \in Seq(Steps) /\ Join(three, last, all)
      BY <2>1, <3>3, Joined
    <3> HIDE DEF all
    <3>5. Len(one) = 11 /\ one[1] = "create" /\ one[4] = "sidecars"
      BY <2>1, <3>1, StatementSteps DEF Join
    <3>6. Len(two) = 12 /\ two[1] = "create" /\ two[4] = "sidecars"
      BY <2>1, <3>2, <3>5 DEF Join
    <3>7. Len(three) = 19 /\ three[1] = "create" /\ three[4] = "sidecars"
      BY <3>3, <3>6, StatementSteps DEF Join
    <3>8. /\ Len(all) = 20 /\ all[1] = "create" /\ all[4] = "sidecars"
          /\ all[20] = "verify"
      BY <2>1, <3>4, <3>7 DEF Join
    <3> QED
      BY <3>4, <3>8 DEF one, two, three, all
  <2> DEFINE start == <<"create", "connect", "wal", "sidecars">>
             side == <<"sidecars">>
             end == <<"verify">>
  <2>2. /\ start \in Seq(Steps) /\ Len(start) = 4
        /\ start[1] = "create" /\ start[4] = "sidecars"
        /\ side \in Seq(Steps) /\ Len(side) = 1
        /\ end \in Seq(Steps) /\ Len(end) = 1 /\ end[1] = "verify"
    BY DEF Steps
  <2>3. InitScript = start \o Statements \o side \o Statements \o end
    BY DEF InitScript
  <2> HIDE DEF start, side, end
  <2> QED
    BY <2>1, <2>2, <2>3, ZenonT(40)
<1>3. DOMAIN InitScript = 1..20
  BY <1>2
<1>4. CASE c = "init"
  <2>1. Script(c) = InitScript
    BY <1>4 DEF Script
  <2>2. DOMAIN Script(c) = 1..20 /\ Len(Script(c)) = 20
    BY <1>2, <1>3, <2>1
  <2>3. Script(c)[1] \in {"create", "tighten"}
    BY <1>2, <2>1, Zenon
  <2>4. Script(c)[4] = "sidecars"
    BY <1>2, <2>1
  <2>5. Script(c)[Len(Script(c))] = "verify"
    BY <1>2, <2>1
  <2>6. Len(Script(c)) \in 5..Len(InitScript)
    BY <1>2, <2>2
  <2> QED
    BY <2>2, <2>3, <2>4, <2>5, <2>6, Zenon
<1>5. CASE c = "open"
  <2>1. Script(c) = OpenScript
    BY <1>5 DEF Script
  <2>2. DOMAIN Script(c) = 1..5 /\ Len(Script(c)) = 5
    BY <1>1, <2>1
  <2>3. Script(c)[1] \in {"create", "tighten"}
    BY <1>1, <2>1, Zenon
  <2>4. Script(c)[4] = "sidecars"
    BY <1>1, <2>1
  <2>5. Script(c)[Len(Script(c))] = "verify"
    BY <1>1, <2>1
  <2>6. Len(Script(c)) \in 5..Len(InitScript)
    BY <1>2, <2>2
  <2> QED
    BY <2>2, <2>3, <2>4, <2>5, <2>6, Zenon
<1> QED
  BY <1>4, <1>5

-----------------------------------------------------------------------------
(* The database file *)

(* Where a process is in its script: running the step it reaches, ready     *)
(* once past the last, and then nothing but its own close or death moves it.*)
LEMMA Positions ==
    ASSUME StorageTypeOK, NEW p \in Procs
    PROVE  /\ cmd[p] \in {"init", "open"} /\ at[p] \in 0..(Len(InitScript) + 1)
           /\ Len(Script(cmd[p])) \in 5..Len(InitScript)
           /\ \A step : Reaches(p, step) => at[p] \in 1..Len(Script(cmd[p]))
           /\ \A step : Reaches(p, step) /\ at[p] = 1 => step \in {"create", "tighten"}
           /\ \A step : Reaches(p, step) /\ at[p] = 4 => step = "sidecars"
           /\ \A step : Reaches(p, step) /\ at[p] = Len(Script(cmd[p])) => step = "verify"
           /\ Ready(p) => at[p] > 4
<1>1. cmd[p] \in {"init", "open"} /\ at[p] \in 0..(Len(InitScript) + 1)
  BY DEF StorageTypeOK
<1>2. Len(Script("init")) = Len(InitScript)
  BY DEF Script
<1> QED
  BY <1>1, Scripts DEF Reaches, Ready

(* storage_close keeps what the others have established. *)
LEMMA CloseKept ==
    ASSUME StorageInv, NEW p \in Procs, StorageClose(p)
    PROVE  StorageInv'
<1>1. /\ cmd' \in [Procs -> {"init", "open"}]
      /\ at' \in [Procs -> 0..(Len(InitScript) + 1)]
      /\ Len(Script("open")) \in 5..Len(InitScript)
  BY Scripts DEF StorageInv, StorageTypeOK, StorageClose
<1>2. StorageTypeOK'
  BY <1>1 DEF StorageInv, StorageTypeOK, StorageClose
<1>3. ASSUME NEW q \in Procs PROVE Established(q)'
  BY <1>1 DEF StorageInv, StorageTypeOK, StorageClose, Established, Ready
<1> QED
  BY <1>2, <1>3 DEF StorageInv

(* So does a death. *)
LEMMA DieKept ==
    ASSUME StorageInv, NEW p \in Procs, Die(p)
    PROVE  StorageInv'
<1>1. /\ cmd' \in [Procs -> {"init", "open"}]
      /\ at' \in [Procs -> 0..(Len(InitScript) + 1)]
      /\ Len(Script("open")) \in 5..Len(InitScript)
  BY Scripts DEF StorageInv, StorageTypeOK, Die
<1>2. StorageTypeOK'
  BY <1>1 DEF StorageInv, StorageTypeOK, Die
<1>3. ASSUME NEW q \in Procs PROVE Established(q)'
  BY <1>1 DEF StorageInv, StorageTypeOK, Die, Established, Ready
<1> QED
  BY <1>2, <1>3 DEF StorageInv

(* A step of the script: the others stay where they are, and the process    *)
(* becomes ready by the last step only.                                     *)
LEMMA ProceedKept ==
    ASSUME StorageInv, NEW p \in Procs, NEW step, Reaches(p, step), Proceed(p), cmd' = cmd
    PROVE  /\ at' \in [Procs -> 0..(Len(InitScript) + 1)]
           /\ at'[p] = at[p] + 1
           /\ \A q \in Procs \ {p} : at'[q] = at[q]
           /\ \A q \in Procs : Ready(q)' => Ready(q) \/ (q = p /\ step = "verify")
<1>1. at \in [Procs -> 0..(Len(InitScript) + 1)] /\ at[p] \in 1..Len(Script(cmd[p]))
  BY Positions DEF StorageInv, StorageTypeOK
<1>2. Len(Script(cmd[p])) \in 5..Len(InitScript)
  BY Positions DEF StorageInv
<1>3. /\ at' \in [Procs -> 0..(Len(InitScript) + 1)]
      /\ at'[p] = at[p] + 1
      /\ \A q \in Procs \ {p} : at'[q] = at[q]
  BY <1>1, <1>2 DEF Proceed
<1>4. ASSUME NEW q \in Procs, Ready(q)'
      PROVE  Ready(q) \/ (q = p /\ step = "verify")
  <2>1. CASE q = p
    <3>1. at[p] = Len(Script(cmd[p]))
      BY <1>1, <1>2, <1>3, <1>4, <2>1 DEF Ready
    <3> QED
      BY <2>1, <3>1, Positions DEF StorageInv
  <2>2. CASE q # p
    <3>1. at'[q] = at[q] /\ cmd'[q] = cmd[q]
      BY <1>3, <2>2
    <3> QED
      BY <1>4, <3>1 DEF Ready
  <2> QED
    BY <2>1, <2>2
<1> QED
  BY <1>3, <1>4

(* Opening keeps what the processes have established. *)
LEMMA StorageKept ==
    ASSUME StorageInv, StorageStep
    PROVE  StorageInv'
<1>0. StorageTypeOK
  BY DEF StorageInv
<1>1. ASSUME NEW p \in Procs, NEW c \in {"init", "open"}, Start(p, c)
      PROVE  StorageInv'
  <2>1. /\ cmd' \in [Procs -> {"init", "open"}]
        /\ at' \in [Procs -> 0..(Len(InitScript) + 1)]
        /\ Len(Script(c)) \in 5..Len(InitScript)
    BY <1>0, <1>1, Scripts, Positions DEF StorageTypeOK, Start, Proceed
  <2>2. StorageTypeOK'
    BY <2>1, <1>0, <1>1 DEF StorageTypeOK, Start
  <2>3. ASSUME NEW q \in Procs PROVE Established(q)'
    BY <2>1, <1>0, <1>1 DEF StorageInv, StorageTypeOK, Start, Proceed, Established, Ready
  <2> QED
    BY <2>2, <2>3 DEF StorageInv
<1>2. ASSUME NEW p \in Procs, TightenDb(p) PROVE StorageInv'
  <2>1. PICK step \in {"create", "tighten"} : Reaches(p, step)
    BY <1>2 DEF TightenDb
  <2>2. Proceed(p) /\ cmd' = cmd
    BY <1>2 DEF TightenDb
  <2>3. StorageTypeOK'
    BY <1>0, <1>2, <2>1, <2>2, ProceedKept DEF TightenDb, StorageTypeOK
  <2>4. at[p] # 4
    BY <1>0, <2>1, Positions
  <2>5. ASSUME NEW q \in Procs PROVE Established(q)'
    <3>1. Ready(q)' => Ready(q)
      BY <2>1, <2>2, ProceedKept
    <3>2. /\ at \in [Procs -> Nat]
          /\ at'[p] = at[p] + 1 /\ (q # p => at'[q] = at[q])
      BY <1>0, <2>1, <2>2, ProceedKept DEF StorageTypeOK
    <3> QED
      BY <1>2, <2>4, <3>1, <3>2 DEF StorageInv, TightenDb, Established
  <2> QED
    BY <2>3, <2>5 DEF StorageInv
<1>3. ASSUME NEW p \in Procs, Connect(p) PROVE StorageInv'
  BY <1>3, ProceedKept, Positions DEF StorageInv, Connect, StorageTypeOK, Established
<1>4. ASSUME NEW p \in Procs, SetWal(p) PROVE StorageInv'
  BY <1>4, ProceedKept, Positions DEF StorageInv, SetWal, StorageTypeOK, Established
<1>5. ASSUME NEW p \in Procs, TightenSidecars(p) PROVE StorageInv'
  BY <1>5, ProceedKept, Positions DEF StorageInv, TightenSidecars, StorageTypeOK, Established
<1>6. ASSUME NEW p \in Procs, NEW object \in ToSet(Statements), Define(p, object)
      PROVE  StorageInv'
  <2>1. object \notin {"create", "tighten", "connect", "wal", "sidecars", "verify"}
    BY StatementSteps
  <2>2. Reaches(p, object) /\ Proceed(p) /\ cmd' = cmd
    BY <1>6 DEF Define
  <2>3. StorageTypeOK'
    BY <1>0, <1>6, <2>2, ProceedKept DEF Define, StorageTypeOK
  <2>4. at[p] \notin {1, 4}
    BY <1>0, <2>1, <2>2, Positions
  <2>5. ASSUME NEW q \in Procs PROVE Established(q)'
    <3>1. Ready(q)' => Ready(q)
      BY <2>1, <2>2, ProceedKept
    <3>2. /\ at \in [Procs -> Nat]
          /\ at'[p] = at[p] + 1 /\ (q # p => at'[q] = at[q])
      BY <1>0, <2>2, ProceedKept DEF StorageTypeOK
    <3> QED
      BY <1>6, <2>4, <3>1, <3>2 DEF StorageInv, Define, Established
  <2> QED
    BY <2>3, <2>5 DEF StorageInv
<1>7. ASSUME NEW p \in Procs, Verify(p) PROVE StorageInv'
  <2>1. CASE Required \subseteq schema
    <3>1. /\ Reaches(p, "verify") /\ Proceed(p)
          /\ UNCHANGED <<files, loose, schema, cmd>>
      BY <1>7, <2>1 DEF Verify
    <3>2. StorageTypeOK'
      BY <1>0, <3>1, ProceedKept DEF StorageTypeOK
    <3>3. at[p] \notin {1, 4}
      BY <1>0, <3>1, Positions
    <3>4. ASSUME NEW q \in Procs PROVE Established(q)'
      <4>1. /\ at \in [Procs -> Nat]
            /\ at'[p] = at[p] + 1 /\ (q # p => at'[q] = at[q])
        BY <1>0, <3>1, ProceedKept DEF StorageTypeOK
      <4> QED
        BY <2>1, <3>1, <3>3, <4>1 DEF StorageInv, Established
    <3> QED
      BY <3>2, <3>4 DEF StorageInv
  <2>2. CASE ~(Required \subseteq schema)
    BY <1>7, <2>2, CloseKept DEF Verify
  <2> QED
    BY <2>1, <2>2
<1>8. ASSUME NEW p \in Procs, OpenFail(p) PROVE StorageInv'
  BY <1>8, CloseKept DEF OpenFail
<1>9. ASSUME NEW f \in {"db", "sidecars"}, Loosen(f) PROVE StorageInv'
  BY <1>0, <1>9, Positions DEF StorageInv, Loosen, StorageTypeOK, Established, Ready
<1> QED
  BY <1>1, <1>2, <1>3, <1>4, <1>5, <1>6, <1>7, <1>8, <1>9 DEF StorageStep

(* A process that has the database open keeps it through the steps of the   *)
(* others; opening is for the processes that do not.                        *)
LEMMA ReadyKept ==
    ASSUME StorageInv, StorageStep, NEW q \in Procs
    PROVE  Ready(q) => Ready(q)'
<1> SUFFICES ASSUME Ready(q) PROVE at'[q] = at[q] /\ cmd'[q] = cmd[q]
  BY DEF Ready
<1>1. /\ cmd \in [Procs -> {"init", "open"}]
      /\ at \in [Procs -> 0..(Len(InitScript) + 1)]
  BY DEF StorageInv, StorageTypeOK
<1>2. at[q] # 0 /\ \A step : ~Reaches(q, step)
  <2>1. at[q] > 4 /\ at[q] > Len(Script(cmd[q])) /\ Len(Script(cmd[q])) \in Nat
    BY Positions DEF StorageInv, Ready
  <2> QED
    BY <1>1, <2>1, Positions DEF StorageInv
<1>3. ASSUME NEW p \in Procs, p # q, Proceed(p) \/ StorageClose(p), cmd' = cmd \/ StorageClose(p)
      PROVE  at'[q] = at[q] /\ cmd'[q] = cmd[q]
  BY <1>1, <1>3 DEF Proceed, StorageClose
<1>4. CASE \E f \in {"db", "sidecars"} : Loosen(f)
  BY <1>4 DEF Loosen
<1>5. ASSUME NEW p \in Procs, \E c \in {"init", "open"} : Start(p, c)
      PROVE  at'[q] = at[q] /\ cmd'[q] = cmd[q]
  BY <1>1, <1>2, <1>5 DEF Start, Proceed
<1>6. ASSUME NEW p \in Procs,
             TightenDb(p) \/ Connect(p) \/ SetWal(p) \/ TightenSidecars(p)
             \/ (\E object \in ToSet(Statements) : Define(p, object)) \/ Verify(p)
      PROVE  at'[q] = at[q] /\ cmd'[q] = cmd[q]
  <2>1. p # q
    BY <1>2, <1>6 DEF TightenDb, Connect, SetWal, TightenSidecars, Define, Verify
  <2>2. (Proceed(p) /\ cmd' = cmd) \/ StorageClose(p)
    BY <1>6 DEF TightenDb, Connect, SetWal, TightenSidecars, Define, Verify
  <2> QED
    BY <1>3, <2>1, <2>2
<1>7. ASSUME NEW p \in Procs, OpenFail(p)
      PROVE  at'[q] = at[q] /\ cmd'[q] = cmd[q]
  BY <1>3, <1>7 DEF OpenFail
<1> QED
  BY <1>4, <1>5, <1>6, <1>7 DEF StorageStep

-----------------------------------------------------------------------------
(* The credentials *)

Locals == [pw: Passwords \cup {None}, blobs: Blobs, raced: BOOLEAN]

(* A blob read into the locals leaves them well formed. *)
LEMMA ReadTypes ==
    ASSUME NEW l \in Locals, NEW n \in 0..MaxSalt
    PROVE  /\ [l EXCEPT !.blobs.salt = n] \in Locals
           /\ [l EXCEPT !.blobs.nonce = n] \in Locals
<1>1. l.blobs \in Blobs
  BY DEF Locals
<1>2. [l.blobs EXCEPT !.salt = n] \in Blobs /\ [l.blobs EXCEPT !.nonce = n] \in Blobs
  BY <1>1 DEF Blobs
<1> QED
  BY <1>2 DEF Locals

(* Key, stored blobs and locals have their types. *)
LEMMA BlobTypes ==
    /\ \A pw \in Passwords, salt \in 1..MaxSalt : Derive(pw, salt) \in Key
    /\ \A key, mk \in Key : Stored(key, mk) \in Blobs /\ Stored(key, mk) # NoBlobs
    /\ NoBlobs \in Blobs
    /\ NoLocals \in Locals
<1>1. \A pw \in Passwords, salt \in 1..MaxSalt : Derive(pw, salt) \in Key
  BY DEF Derive, Key
<1>2. NoBlobs \in Blobs
  BY CredentialsAssumption DEF NoBlobs, Blobs
<1>3. NoLocals \in Locals
  BY <1>2 DEF NoLocals, Locals
<1>4. ASSUME NEW key \in Key, NEW mk \in Key
      PROVE  Stored(key, mk) \in Blobs /\ Stored(key, mk) # NoBlobs
  <2>1. key.salt \in 1..MaxSalt
    BY DEF Key
  <2>2. Wrap(key, key.salt, mk) \in [by: Key, nonce: 1..MaxSalt, meta: Key]
    BY <2>1 DEF Wrap
  <2> QED
    BY <2>1, <2>2, CredentialsAssumption DEF Stored, Blobs, NoBlobs
<1> QED
  BY <1>1, <1>2, <1>3, <1>4

(* What a vault step of one process must establish, the database being as   *)
(* it was.                                                                  *)
LEMMA VaultStepKept ==
    ASSUME CredInv, UNCHANGED storageVars, NEW p \in Procs, VaultStep(p)
    PROVE  CredInv'
<1> USE CredentialsAssumption DEF Goto
<1>1. StorageInv' /\ \A q \in Procs : Ready(q)' = Ready(q)
  BY DEF CredInv, StorageInv, StorageTypeOK, storageVars, Established, Ready
<1>2. TypeOK /\ StorageTypeOK /\ \A q \in Procs : Unlocking(q) /\ SessionOf(q)
  BY DEF CredInv, StorageInv
<1>3. StorageTypeOK'
  BY <1>1 DEF StorageInv
<1>4. ASSUME NEW pw \in Passwords, Unlock(p, pw) PROVE CredInv'
  <2>1. TypeOK'
    BY <1>1, <1>2, <1>3, <1>4 DEF TypeOK, Unlock
  <2>2. AlwaysOpenable'
    BY <1>4 DEF CredInv, AlwaysOpenable, Unlock
  <2>3. ASSUME NEW q \in Procs PROVE Unlocking(q)' /\ SessionOf(q)'
    BY <1>1, <1>2, <1>4 DEF TypeOK, Unlocking, SessionOf, Unlock
  <2> QED
    BY <1>1, <2>1, <2>2, <2>3 DEF CredInv
<1>5. CASE ReadSalt(p)
  <2>0. loc' \in [Procs -> Locals]
    <3>1. meta.salt \in 0..MaxSalt /\ loc[p] \in Locals
      BY <1>2 DEF TypeOK, Blobs, Locals
    <3> QED
      BY <1>2, <1>5, <3>1, ReadTypes DEF TypeOK, ReadSalt, Locals
  <2>1. TypeOK'
    BY <1>1, <1>2, <1>3, <1>5, <2>0 DEF TypeOK, ReadSalt, Locals
  <2>2. AlwaysOpenable'
    BY <1>5 DEF CredInv, AlwaysOpenable, ReadSalt
  <2>3. ASSUME NEW q \in Procs PROVE Unlocking(q)' /\ SessionOf(q)'
    BY <1>1, <1>2, <1>5 DEF TypeOK, Unlocking, SessionOf, ReadSalt, Blobs
  <2> QED
    BY <1>1, <2>1, <2>2, <2>3 DEF CredInv
<1>6. CASE ReadVerifier(p)
  <2>0. loc' \in [Procs -> Locals] /\ nextSalt' \in 1..(MaxSalt + 1)
    <3>1. loc[p] \in Locals /\ loc \in [Procs -> Locals] /\ NoLocals \in Locals
      BY <1>2, BlobTypes DEF TypeOK, Locals
    <3>2. /\ nextSalt \in 1..(MaxSalt + 1)
          /\ nextSalt <= MaxSalt => nextSalt \in 0..MaxSalt
      BY <1>2 DEF TypeOK
    <3>3. \/ loc' = [loc EXCEPT ![p].blobs.salt = nextSalt]
             /\ nextSalt <= MaxSalt /\ nextSalt' = nextSalt + 1
          \/ loc' = [loc EXCEPT ![p] = NoLocals] /\ nextSalt' = nextSalt
          \/ loc' = loc /\ nextSalt' = nextSalt
      BY <1>6 DEF ReadVerifier, EndLocked
    <3>4. nextSalt <= MaxSalt => [loc[p] EXCEPT !.blobs.salt = nextSalt] \in Locals
      BY <3>1, <3>2, ReadTypes
    <3>5. loc' \in [Procs -> Locals]
      BY <3>1, <3>3, <3>4
    <3> QED
      BY <3>2, <3>3, <3>5
  <2>1. TypeOK'
    BY <1>1, <1>2, <1>3, <1>6, <2>0
       DEF TypeOK, ReadVerifier, EndLocked, Locals
  <2>2. AlwaysOpenable'
    BY <1>6 DEF CredInv, AlwaysOpenable, ReadVerifier
  <2>3. meta.verifier = None => meta = NoBlobs
    BY DEF CredInv, AlwaysOpenable, NoBlobs
  <2>4. ASSUME NEW q \in Procs PROVE Unlocking(q)' /\ SessionOf(q)'
    BY <1>1, <1>2, <1>6, <2>3, SMTT(30)
       DEF TypeOK, Unlocking, SessionOf, ReadVerifier, EndLocked, FoundEmpty, Blobs
  <2> QED
    BY <1>1, <2>1, <2>2, <2>4 DEF CredInv
<1>7. CASE Refuse(p)
  <2>1. TypeOK'
    BY <1>1, <1>2, <1>3, <1>7, BlobTypes DEF TypeOK, Locals, Refuse, EndLocked
  <2>2. AlwaysOpenable'
    BY <1>7 DEF CredInv, AlwaysOpenable, Refuse
  <2>3. ASSUME NEW q \in Procs PROVE Unlocking(q)' /\ SessionOf(q)'
    BY <1>1, <1>2, <1>7 DEF TypeOK, Unlocking, SessionOf, Refuse, EndLocked
  <2> QED
    BY <1>1, <2>1, <2>2, <2>3 DEF CredInv
<1>8. CASE Store(p)
  <2> DEFINE key == Derive(loc[p].pw, loc[p].blobs.salt)
  <2>1. key \in Key /\ Stored(key, key) \in Blobs /\ Stored(key, key) # NoBlobs
    BY <1>2, <1>8, BlobTypes DEF Store, Unlocking
  <2>2. /\ meta' = Stored(key, key) /\ replaced' = (replaced \/ meta # NoBlobs)
        /\ sess' = [sess EXCEPT ![p] = [key |-> key, meta |-> key]]
    BY <1>8 DEF Store
  <2> HIDE DEF key
  <2>0. loc' \in [Procs -> Locals]
    <3>1. \A q \in Procs : [loc[q] EXCEPT !.raced = @ \/ pc[q] = "store"] \in Locals
      BY <1>2 DEF TypeOK, Locals
    <3> QED
      BY <1>8, <3>1, BlobTypes DEF Store
  <2>3. TypeOK'
    BY <1>1, <1>2, <1>3, <1>8, <2>0, <2>1, <2>2 DEF TypeOK, Store, Unlocking, Locals
  <2>4. AlwaysOpenable'
    BY <2>1, <2>2 DEF AlwaysOpenable, Stored, Wrap
  <2>5. meta'.wrapped.meta = key
    BY <2>2 DEF Stored, Wrap
  <2>6. ASSUME NEW q \in Procs PROVE Unlocking(q)'
    BY <1>1, <1>2, <1>8, ZenonT(60) DEF TypeOK, Unlocking, Store
  <2>7. ASSUME NEW q \in Procs PROVE SessionOf(q)'
    BY <1>1, <1>2, <1>8, <2>1, <2>2, <2>5 DEF TypeOK, SessionOf
  <2> QED
    BY <1>1, <2>3, <2>4, <2>6, <2>7 DEF CredInv
<1>9. CASE ReadNonce(p)
  <2>0. loc' \in [Procs -> Locals]
    <3>1. meta.nonce \in 0..MaxSalt /\ loc[p] \in Locals
      BY <1>2 DEF TypeOK, Blobs, Locals
    <3> QED
      BY <1>2, <1>9, <3>1, ReadTypes DEF TypeOK, ReadNonce, Locals
  <2>1. TypeOK'
    BY <1>1, <1>2, <1>3, <1>9, <2>0 DEF TypeOK, ReadNonce, Locals
  <2>2. AlwaysOpenable'
    BY <1>9 DEF CredInv, AlwaysOpenable, ReadNonce
  <2>3. ASSUME NEW q \in Procs PROVE Unlocking(q)' /\ SessionOf(q)'
    BY <1>1, <1>2, <1>9 DEF TypeOK, Unlocking, SessionOf, ReadNonce, Blobs
  <2> QED
    BY <1>1, <2>1, <2>2, <2>3 DEF CredInv
<1>10. CASE ReadWrapped(p)
  <2> DEFINE key == Derive(loc[p].pw, loc[p].blobs.salt)
  <2>1. key \in Key
    BY <1>2, <1>10, BlobTypes DEF ReadWrapped, Unlocking
  <2>2. meta.wrapped # None => meta.wrapped.meta \in Key /\ meta # NoBlobs
    BY <1>2 DEF TypeOK, Blobs, NoBlobs
  <2>3. sess' \in {sess, [sess EXCEPT ![p] = [key |-> key, meta |-> meta.wrapped.meta]]}
        /\ (sess' # sess => meta.wrapped # None)
    BY <1>10 DEF ReadWrapped, Opens
  <2> HIDE DEF key
  <2>4. TypeOK'
    BY <1>1, <1>2, <1>3, <1>10, <2>1, <2>2, <2>3, BlobTypes
       DEF TypeOK, Locals, ReadWrapped, EndLocked, Unlocking
  <2>5. AlwaysOpenable'
    BY <1>10 DEF CredInv, AlwaysOpenable, ReadWrapped
  <2>6. ASSUME NEW q \in Procs PROVE Unlocking(q)'
    BY <1>1, <1>2, <1>10, <2>3 DEF TypeOK, Unlocking, ReadWrapped, EndLocked
  <2>7. ASSUME NEW q \in Procs PROVE SessionOf(q)'
    BY <1>1, <1>2, <1>10, <2>2, <2>3 DEF TypeOK, SessionOf, ReadWrapped
  <2> QED
    BY <1>1, <2>4, <2>5, <2>6, <2>7 DEF CredInv
<1>11. CASE Fail(p)
  <2>1. TypeOK'
    BY <1>1, <1>2, <1>3, <1>11, BlobTypes DEF TypeOK, Locals, Fail, EndLocked
  <2>2. AlwaysOpenable'
    BY <1>11 DEF CredInv, AlwaysOpenable, Fail
  <2>3. ASSUME NEW q \in Procs PROVE Unlocking(q)' /\ SessionOf(q)'
    BY <1>1, <1>2, <1>11 DEF TypeOK, Unlocking, SessionOf, Fail, EndLocked
  <2> QED
    BY <1>1, <2>1, <2>2, <2>3 DEF CredInv
<1>12. CASE Use(p)
  <2>1. TypeOK'
    BY <1>1, <1>2, <1>3, <1>12 DEF TypeOK, Use, Unlocked
  <2>2. AlwaysOpenable'
    BY <1>12 DEF CredInv, AlwaysOpenable, Use
  <2>3. ASSUME NEW q \in Procs PROVE Unlocking(q)' /\ SessionOf(q)'
    BY <1>1, <1>2, <1>12 DEF TypeOK, Unlocking, SessionOf, Use
  <2> QED
    BY <1>1, <2>1, <2>2, <2>3 DEF CredInv
<1>13. ASSUME NEW pw \in Passwords, Rotate(p, pw) PROVE CredInv'
  <2> DEFINE key == Derive(pw, nextSalt)
             mk == sess[p].meta
  <2>1. mk \in Key /\ sess[p] # None /\ pc[p] = "idle" /\ Ready(p)
    BY <1>2, <1>13 DEF TypeOK, Rotate, Unlocked, Idle
  <2>2. key \in Key
    BY <1>2, <1>13, BlobTypes DEF TypeOK, Rotate
  <2>3. Stored(key, mk) \in Blobs /\ Stored(key, mk) # NoBlobs
    BY <2>1, <2>2, BlobTypes
  <2>4. /\ meta' = Stored(key, mk)
        /\ sess' = [sess EXCEPT ![p] = [key |-> key, meta |-> mk]]
        /\ inUse' = {key}
    BY <1>13 DEF Rotate, KeptMetaKey
  <2>5. meta # NoBlobs /\ (replaced \/ mk = meta.wrapped.meta)
    BY <1>2, <2>1 DEF SessionOf
  <2> HIDE DEF key, mk
  <2>6. TypeOK'
    BY <1>1, <1>2, <1>3, <1>13, <2>1, <2>2, <2>3, <2>4 DEF TypeOK, Rotate
  <2>7. AlwaysOpenable'
    BY <2>1, <2>2, <2>4 DEF AlwaysOpenable, Stored, Wrap
  <2>8. meta'.wrapped.meta = mk
    BY <2>4 DEF Stored, Wrap
  <2>9. ASSUME NEW q \in Procs PROVE Unlocking(q)'
    BY <1>1, <1>2, <1>13, <2>1, <2>4, <2>5 DEF TypeOK, Unlocking, Rotate
  <2>10. ASSUME NEW q \in Procs PROVE SessionOf(q)'
    BY <1>1, <1>2, <1>13, <2>3, <2>4, <2>5, <2>8 DEF TypeOK, SessionOf, Rotate
  <2> QED
    BY <1>1, <2>6, <2>7, <2>9, <2>10 DEF CredInv
<1> QED
  BY <1>4, <1>5, <1>6, <1>7, <1>8, <1>9, <1>10, <1>11, <1>12, <1>13 DEF VaultStep

(* The steps that leave the credentials alone: a session and an unlock in   *)
(* progress keep their connection.                                          *)
LEMMA CredVarsKept ==
    ASSUME CredInv, StorageStep, UNCHANGED credVars
    PROVE  CredInv'
<1>1. StorageInv' /\ StorageTypeOK'
  BY StorageKept DEF CredInv, StorageInv
<1>2. \A q \in Procs : Ready(q) => Ready(q)'
  BY ReadyKept DEF CredInv
<1>3. TypeOK'
  BY <1>1, <1>2 DEF CredInv, TypeOK, credVars
<1>4. AlwaysOpenable'
  BY DEF CredInv, AlwaysOpenable, credVars
<1>5. ASSUME NEW q \in Procs PROVE Unlocking(q)' /\ SessionOf(q)'
  BY <1>2 DEF CredInv, Unlocking, SessionOf, credVars
<1> QED
  BY <1>1, <1>3, <1>4, <1>5 DEF CredInv

(* The end of a command, and the death of a process. *)
LEMMA EndKept ==
    ASSUME CredInv, NEW p \in Procs, Close(p) \/ Crash(p)
    PROVE  CredInv'
<1>1. StorageInv' /\ StorageTypeOK'
  BY CloseKept, DieKept DEF CredInv, StorageInv, Close, Crash
<1>2. \A q \in Procs \ {p} : Ready(q) => Ready(q)'
  BY DEF CredInv, StorageInv, StorageTypeOK, Close, Crash, StorageClose, Die, Ready
<1>3. /\ UNCHANGED <<meta, inUse, failures, nextSalt, replaced>>
      /\ sess' = [sess EXCEPT ![p] = None]
      /\ pc' = [pc EXCEPT ![p] = "idle"]
      /\ \/ loc' = loc
         \/ loc' = [loc EXCEPT ![p] = NoLocals]
  BY DEF CredInv, TypeOK, Close, Crash, EndLocked, Goto, Idle
<1>4. TypeOK'
  BY <1>1, <1>2, <1>3, BlobTypes DEF CredInv, TypeOK, Locals
<1>5. AlwaysOpenable'
  BY <1>3 DEF CredInv, AlwaysOpenable
<1>6. ASSUME NEW q \in Procs PROVE Unlocking(q)' /\ SessionOf(q)'
  <2>1. CASE q = p
    BY <1>3, <2>1 DEF CredInv, TypeOK, Unlocking, SessionOf
  <2>2. CASE q # p
    BY <1>2, <1>3, <2>2 DEF CredInv, TypeOK, Unlocking, SessionOf
  <2> QED
    BY <2>1, <2>2
<1> QED
  BY <1>1, <1>4, <1>5, <1>6 DEF CredInv

-----------------------------------------------------------------------------
(* The theorems *)

(* No file, no credentials: the invariant holds at the start. *)
LEMMA InitCred == Init => CredInv
<1> SUFFICES ASSUME Init PROVE CredInv
  OBVIOUS
<1>0. Len(Script("open")) \in 5..Len(InitScript)
  BY Scripts
<1>1. StorageInv /\ \A p \in Procs : ~Ready(p)
  BY <1>0 DEF Init, StorageInit, StorageInv, StorageTypeOK, Established, Ready
<1>2. TypeOK
  <2>1. loc \in [Procs -> Locals] /\ meta \in Blobs
    BY BlobTypes DEF Init
  <2>2. failures \in 0..MaxFailures /\ nextSalt \in 1..(MaxSalt + 1)
    BY CredentialsAssumption DEF Init
  <2>3. /\ pc \in [Procs -> {"idle", "salt", "verifier", "refuse", "store", "nonce",
                            "wrapped"}]
        /\ sess \in [Procs -> [key: Key, meta: Key] \cup {None}]
        /\ \A p \in Procs : sess[p] = None
    BY DEF Init
  <2> QED
    BY <1>1, <2>1, <2>2, <2>3 DEF Init, StorageInv, TypeOK, Locals
<1> QED
  BY <1>1, <1>2 DEF Init, CredInv, AlwaysOpenable, Unlocking, SessionOf

(* Every step keeps the invariant. *)
LEMMA NextCred == ASSUME CredInv, [Next]_vars PROVE CredInv'
<1>1. CASE StorageStep /\ UNCHANGED credVars
  BY <1>1, CredVarsKept
<1>2. ASSUME NEW p \in Procs, VaultStep(p), UNCHANGED storageVars PROVE CredInv'
  BY <1>2, VaultStepKept
<1>3. ASSUME NEW p \in Procs, Close(p) \/ Crash(p) PROVE CredInv'
  BY <1>3, EndKept
<1>4. CASE UNCHANGED vars
  BY <1>4 DEF vars, credVars, storageVars, CredInv, StorageInv, StorageTypeOK,
              Established, Ready, TypeOK, AlwaysOpenable, Unlocking, SessionOf
<1> QED
  BY <1>1, <1>2, <1>3, <1>4 DEF Next

(* The invariant of every behaviour. *)
LEMMA CredInvariant == Spec => []CredInv
<1>1. CredInv /\ [Next]_vars => CredInv'
  BY NextCred
<1> QED
  BY <1>1, InitCred, PTL DEF Spec

(* vault_unlock_internal and its callers never leave the declared states,   *)
(* and only a process with the database open holds keys.                    *)
THEOREM CredentialTypes == Spec => []TypeOK
<1>1. CredInv => TypeOK
  BY DEF CredInv
<1> QED
  BY <1>1, CredInvariant, PTL

(* storage_init and storage_open succeed only on a whole schema in private  *)
(* files, for any number of processes that open, fail and die meanwhile.    *)
THEOREM OpenIsVerifiedHolds == Spec => []OpenIsVerified
<1>1. CredInv => OpenIsVerified
  <2> SUFFICES ASSUME CredInv, NEW p \in Procs, Ready(p)
               PROVE  /\ Tables \cup {"idx_secrets_name_active"} \subseteq schema
                      /\ loose = {}
    BY DEF OpenIsVerified
  <2>1. at[p] > 4 /\ at[p] \in Nat
    BY Positions DEF CredInv, StorageInv, StorageTypeOK
  <2> QED
    BY <2>1 DEF CredInv, StorageInv, StorageTypeOK, Established, Required
<1> QED
  BY <1>1, CredInvariant, PTL

(* store_auth_metadata and vault_rotate_kek leave four blobs that belong    *)
(* together, whoever wins.                                                  *)
THEOREM AlwaysOpenableHolds == Spec => []AlwaysOpenable
<1>1. CredInv => AlwaysOpenable
  BY DEF CredInv
<1> QED
  BY <1>1, CredInvariant, PTL

(* vault_load_meta_key finds the same metadata key in every process, unless *)
(* two init raced.                                                          *)
THEOREM OneMetaKeyHolds == Spec => []OneMetaKey
<1>1. CredInv => OneMetaKey
  BY DEF CredInv, SessionOf, OneMetaKey
<1> QED
  BY <1>1, CredInvariant, PTL

(* The four reads of vault_unlock_internal never combine two generations.   *)
THEOREM UnlockIsAtomicHolds == Spec => UnlockIsAtomic
<1>1. ASSUME CredInv, Next, NEW p \in Procs, pc[p] = "wrapped", sess'[p] # None
      PROVE  meta = Stored(sess'[p].key, sess'[p].meta)
  <2>0. sess[p] = None /\ sess \in [Procs -> [key: Key, meta: Key] \cup {None}]
    BY <1>1 DEF CredInv, Unlocking, TypeOK
  <2>1. ReadWrapped(p)
    BY <1>1, <2>0, SMTT(90) DEF Next, credVars, VaultStep, Unlock, Rotate, ReadSalt, ReadVerifier,
       Refuse, Store, ReadNonce, ReadWrapped, Fail, Use, Close, Crash, Unlocked, Idle
  <2> DEFINE key == Derive(loc[p].pw, loc[p].blobs.salt)
  <2>2. Opens(meta.wrapped, loc[p].blobs.nonce, key)
    BY <1>1, <2>0, <2>1 DEF ReadWrapped
  <2>3. sess'[p] = [key |-> key, meta |-> meta.wrapped.meta]
    BY <2>0, <2>1, <2>2 DEF ReadWrapped
  <2>4. meta.wrapped # None /\ meta.wrapped.by = key
    BY <2>2 DEF Opens
  <2> HIDE DEF key
  <2>5. PICK k \in Key, mk \in Key :
           meta = [salt |-> k.salt, verifier |-> k, nonce |-> k.salt,
                   wrapped |-> [by |-> k, nonce |-> k.salt, meta |-> mk]]
    BY <1>1, <2>4 DEF CredInv, AlwaysOpenable, NoBlobs
  <2>6. key = k /\ meta.wrapped.meta = mk
    BY <2>4, <2>5
  <2> QED
    BY <2>3, <2>5, <2>6 DEF Stored, Wrap
<1>2. CredInv /\ [Next]_vars =>
        [\A p \in Procs : pc[p] = "wrapped" /\ sess'[p] # None =>
            meta = Stored(sess'[p].key, sess'[p].meta)]_vars
  BY <1>1
<1> QED
  BY <1>2, CredInvariant, PTL DEF Spec, UnlockIsAtomic

(* vault_store_auth_metadata overwrites credentials only if they came after *)
(* it had found none.                                                       *)
THEOREM InitReplacesOnlyRacingHolds == Spec => InitReplacesOnlyRacing
<1>1. CredInv => \A p \in Procs : pc[p] = "store" => meta = NoBlobs \/ loc[p].raced
  BY DEF CredInv, Unlocking
<1>2. CredInv /\ [Next]_vars =>
        [\A p \in Procs : pc[p] = "store" /\ meta' # meta =>
            meta = NoBlobs \/ loc[p].raced]_vars
  BY <1>1
<1> QED
  BY <1>2, CredInvariant, PTL DEF Spec, InitReplacesOnlyRacing
=============================================================================
