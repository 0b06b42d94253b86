------------------------------- MODULE Tokens -------------------------------
(***************************************************************************)
(* Access tokens (src/src/access.c, vault.c): issued by one process,       *)
(* checked by another, revoked by a third.  A token is its claims and the  *)
(* key that signed it; nothing is stored but the second of the last        *)
(* revocation.  The clock counts seconds and never steps back.  What a     *)
(* command asks of its token is in main.c, what a scope covers in Scope.   *)
(***************************************************************************)
EXTENDS Scope, FiniteSets

CONSTANTS
    Procs,
    Revokers,       \* processes that run `fuin revoke-tokens`
    Ttls,           \* lifetimes asked for
    Chars,          \* the characters of scopes and names
    Resources,      \* the strings that scopes and requests may name
    Scopes,         \* scopes asked for: sequences of entries
    Names,          \* names of secrets
    None,
    MaxSeconds,     \* ACCESS_MAX_JSON_SECONDS, the largest `exp`
    MaxClock,       \* bound: seconds that pass
    MaxTokens,      \* bound: tokens ever signed
    MaxKey          \* bound: generations of KEK_token

Token == [id: 1..MaxTokens, scope: Scopes,
          iat: 1..MaxClock, exp: 1..MaxSeconds, key: 1..MaxKey]

Actions == {"read", "write", "delete"}

(* action:resource, the action being * for any; or a text without a colon. *)
Entry == [act: Actions \cup {Star, NoColon}, res: Resources]

Request == [act: Actions \cup {NoColon}, res: Resources]

ASSUME TokensAssumption ==
    /\ Resources \subseteq Seq(Chars)
    /\ Scopes \subseteq Seq(Entry) /\ Names \subseteq Resources
    /\ NoColon \notin Actions
    /\ Revokers \subseteq Procs
    /\ Ttls \subseteq Nat \ {0}
    /\ None \notin Token
    /\ {MaxSeconds, MaxClock, MaxTokens, MaxKey} \subseteq Nat \ {0}

VARIABLES
    clock,
    notBefore,  \* metadata token_not_before, 0 when absent
    key,        \* generation of the stored credentials
    sess,       \* generation cached by each process, 0 when locked
    signed,     \* every token signed, delivered to its caller or not
    revoked,    \* those signed before some completed revocation read its clock
    pc,
    loc,        \* the token, revocation second and signed set at hand
    auth        \* what each process's command was authorised to do, and by
                \* which token; or None

tokenVars == <<clock, notBefore, key, sess, signed, revoked, pc, loc, auth>>

NoLocals == [asked |-> None, tok |-> None, now |-> 0, seen |-> {}]

Init ==
    /\ clock = 1
    /\ notBefore = 0
    /\ key = 1
    /\ sess = [p \in Procs |-> 0]
    /\ signed = {}
    /\ revoked = {}
    /\ pc = [p \in Procs |-> "idle"]
    /\ loc = [p \in Procs |-> NoLocals]
    /\ auth = [p \in Procs |-> None]

Tick ==
    /\ clock < MaxClock
    /\ clock' = clock + 1
    /\ UNCHANGED <<notBefore, key, sess, signed, revoked, pc, loc, auth>>

Goto(p, step, l) ==
    /\ pc' = [pc EXCEPT ![p] = step]
    /\ loc' = [loc EXCEPT ![p] = l]

Idle(p) == pc[p] = "idle" /\ sess[p] # 0

(* vault_unlock_existing; a command starts without authorisation. *)
Unlock(p) ==
    /\ pc[p] = "idle"
    /\ sess' = [sess EXCEPT ![p] = key]
    /\ auth' = [auth EXCEPT ![p] = None]
    /\ UNCHANGED <<clock, notBefore, key, signed, revoked, pc, loc>>

(* A committed vault_rotate_kek: new subkeys, KEK_token among them, and     *)
(* token_not_before untouched.                                              *)
Rotate(p) ==
    /\ Idle(p) /\ sess[p] = key /\ key < MaxKey
    /\ key' = key + 1
    /\ sess' = [sess EXCEPT ![p] = key + 1]
    /\ UNCHANGED <<clock, notBefore, signed, revoked, pc, loc, auth>>

-----------------------------------------------------------------------------
(* vault_issue_token *)

(* Mutant of TtlFits: no limit on the expiry. *)
TtlAny(now, ttl) == TRUE

(* Neither the sum nor its JSON form may lose precision. *)
TtlFits(now, ttl) == now + ttl <= MaxSeconds

(* access_issue_token: read the clock, build the claims, sign. *)
IssueSign(p, scope, ttl) ==
    LET tok == [id |-> Cardinality(signed) + 1, scope |-> scope, iat |-> clock,
                exp |-> clock + ttl, key |-> sess[p]] IN
    /\ Idle(p) /\ tok.id <= MaxTokens
    /\ TtlFits(clock, ttl)
    /\ signed' = signed \cup {tok}
    /\ Goto(p, "deliver", [NoLocals EXCEPT !.tok = tok])
    /\ UNCHANGED <<clock, notBefore, key, sess, revoked, auth>>

(* The TOKEN_ISSUE entry is appended and the caller gets the token, or the  *)
(* append fails and the output is cleared: the signed token is the same.    *)
IssueEnd(p) ==
    /\ pc[p] = "deliver"
    /\ Goto(p, "idle", NoLocals)
    /\ UNCHANGED <<clock, notBefore, key, sess, signed, revoked, auth>>

-----------------------------------------------------------------------------
(* The commands that take a token, and what they ask of it.  Each opens and *)
(* unlocks the vault, checks the token and only then calls the vault.       *)

cli_required_scope(operation, name) == [act |-> operation, res |-> name]

cli_run_put(name) == cli_required_scope("write", name)

cli_run_generate(name) == cli_required_scope("write", name)

cli_run_get(name) == cli_required_scope("read", name)

cli_run_totp(name) == cli_required_scope("read", name)

(* Mutant of cli_run_delete: taken for a write. *)
DeleteAsWrite(name) == cli_required_scope("write", name)

cli_run_delete(name) == cli_required_scope("delete", name)

cli_run_rollback(name) == cli_required_scope("write", name)

RequestOf(command, name) ==
    [put |-> cli_run_put(name), generate |-> cli_run_generate(name),
     get |-> cli_run_get(name), totp |-> cli_run_totp(name),
     delete |-> cli_run_delete(name), rollback |-> cli_run_rollback(name)][command]

Commands == {"put", "generate", "get", "totp", "delete", "rollback"}

(* cli_authorize_token, vault_check_token, access_verify_token: signature,  *)
(* then expiry, then scope.                                                 *)
CheckVerify(p, tok, command, name) ==
    /\ Idle(p)
    /\ tok.key = sess[p]
    /\ clock < tok.exp
    /\ access_scope_allows(tok.scope, RequestOf(command, name))
    /\ Goto(p, "notBefore", [NoLocals EXCEPT !.tok = tok,
                                             !.asked = [cmd |-> command, name |-> name]])
    /\ auth' = [auth EXCEPT ![p] = None]
    /\ UNCHANGED <<clock, notBefore, key, sess, signed, revoked>>

(* Mutant of RevokedBy: a token of the same second survives. *)
RevokedBefore(tok, second) == second > 0 /\ tok.iat < second

(* not_before > 0 && claims.issued_at <= not_before *)
RevokedBy(tok, second) == second > 0 /\ tok.iat <= second

CheckNotBefore(p) ==
    /\ pc[p] = "notBefore"
    /\ auth' = IF RevokedBy(loc[p].tok, notBefore)
                 THEN auth
                 ELSE [auth EXCEPT ![p] = [tok |-> loc[p].tok, asked |-> loc[p].asked]]
    /\ Goto(p, "idle", NoLocals)
    /\ UNCHANGED <<clock, notBefore, key, sess, signed, revoked>>

-----------------------------------------------------------------------------
(* vault_revoke_tokens *)

(* time(NULL), before the transaction. *)
RevokeClock(p) ==
    /\ Idle(p) /\ p \in Revokers
    /\ Goto(p, "revoke", [NoLocals EXCEPT !.now = clock, !.seen = signed])
    /\ UNCHANGED <<clock, notBefore, key, sess, signed, revoked, auth>>

(* One transaction: token_not_before is replaced, TOKEN_REVOKE logged. *)
RevokeCommit(p) ==
    /\ pc[p] = "revoke"
    /\ notBefore' = loc[p].now
    /\ revoked' = revoked \cup loc[p].seen
    /\ Goto(p, "idle", NoLocals)
    /\ UNCHANGED <<clock, key, sess, signed, auth>>

(* Any statement fails, or the process dies and is started again. *)
Fail(p) ==
    /\ pc[p] # "idle"
    /\ Goto(p, "idle", NoLocals)
    /\ sess' \in {sess, [sess EXCEPT ![p] = 0]}
    /\ UNCHANGED <<clock, notBefore, key, signed, revoked, auth>>

Next ==
    \/ Tick
    \/ \E p \in Procs :
         \/ Unlock(p) \/ Rotate(p)
         \/ \E scope \in Scopes, ttl \in Ttls : IssueSign(p, scope, ttl)
         \/ IssueEnd(p)
         \/ \E tok \in signed, command \in Commands, name \in Names :
              CheckVerify(p, tok, command, name)
         \/ CheckNotBefore(p) \/ RevokeClock(p) \/ RevokeCommit(p) \/ Fail(p)

Spec == Init /\ [][Next]_tokenVars

-----------------------------------------------------------------------------
(* Properties *)

Asked == [cmd: Commands, name: Names]

(* Types; in particular no expiry beyond what JSON numbers hold exactly. *)
TypeOK ==
    /\ clock \in 1..MaxClock
    /\ notBefore \in 0..MaxClock
    /\ key \in 1..MaxKey
    /\ sess \in [Procs -> 0..MaxKey]
    /\ signed \subseteq Token /\ revoked \subseteq signed
    /\ pc \in [Procs -> {"idle", "deliver", "notBefore", "revoke"}]
    /\ loc \in [Procs -> [asked: Asked \cup {None}, tok: Token \cup {None},
                          now: 0..MaxClock, seen: SUBSET Token]]
    /\ auth \in [Procs -> [tok: Token, asked: Asked] \cup {None}]

(* "all previously issued tokens revoked" (main.c:2996): once the command   *)
(* has returned, no check accepts a token signed before it began, not even  *)
(* one of the same second or one still on its way to its caller.            *)
RevokedRefused ==
    [][\A p \in Procs : auth'[p] # None /\ auth[p] = None =>
          auth'[p].tok \notin revoked]_tokenVars

(* One more character of a path: a slash begins a segment. *)
Extend(path, c) ==
    IF c = Slash THEN Append(path, <<>>)
                 ELSE [path EXCEPT ![Len(path)] = Append(@, c)]

(* The segments of the first i characters, <<>> being an empty segment. *)
Paths(s) ==
    LET path[i \in Nat] == IF i = 0 THEN << <<>> >> ELSE Extend(path[i - 1], s[i])
    IN  path

Segments(s) == Paths(s)[Len(s)]

(* A starred pattern covers the subtree its path names, nothing beside it:  *)
(* db* covers db and what is below, db/* only what is below.                *)
Subtree(prefix, name) ==
    LET path == Segments(prefix) IN
    IF Last(path) = <<>> THEN IsStrictPrefix(Front(path), Segments(name))
                         ELSE IsPrefix(path, Segments(name))

(* What a scope entry means, in terms of paths. *)
Covers(e, r) ==
    \/ /\ e = [act |-> NoColon, res |-> <<Star>>]
       /\ r # [act |-> NoColon, res |-> <<>>]
    \/ /\ e.act # NoColon /\ r.act # NoColon
       /\ e.act = r.act \/ e.act = Star
       /\ \/ e.res = <<Star>>
          \/ e.res # <<>> /\ Last(e.res) = Star /\ Len(e.res) > 1
             /\ Subtree(Front(e.res), r.res)
          \/ e.res = r.res /\ (e.res = <<>> \/ Last(e.res) # Star)

GrantsExactly ==
    \A entry \in Entry, request \in Request :
        access_scope_allows(<<entry>>, request) <=> Covers(entry, request)

(* access_scope_allows grants exactly the paths an entry names: a token for *)
(* db* never reaches db-secret, nor one for a/b* its sibling a/bc.  A star  *)
(* grants the subtree to any depth, as the tests have it (test_access.c:62) *)
(* and the comment in access_resource_matches has not: StarSpansOneSegment. *)
(* (A fact about the operators, asked for once, before any token is signed.)*)
GrantIsSubtree == signed = {} => GrantsExactly

(* What a command does to the secret it names. *)
Effect == [put |-> "write", generate |-> "write", rollback |-> "write",
           get |-> "read", totp |-> "read", delete |-> "delete"]

(* A command that runs on a token does what some entry of its scope grants, *)
(* to a secret in the subtree the entry names.                              *)
AuthorisedIsCovered ==
    \A p \in Procs : auth[p] # None =>
        \E i \in DOMAIN auth[p].tok.scope :
            Covers(auth[p].tok.scope[i],
                   [act |-> Effect[auth[p].asked.cmd], res |-> auth[p].asked.name])

(* At most one segment for the star: what a prefix ending in a slash leaves *)
(* open, or the next one.                                                   *)
OneSegment(pattern, name) ==
    LET path == Segments(Front(pattern)) IN
    Len(Segments(name)) <= Len(path) + (IF Last(path) = <<>> THEN 0 ELSE 1)

Starred(pattern) == Len(pattern) > 1 /\ Last(pattern) = Star

(* "A trailing star spans at most one path segment" (access.c:446): the     *)
(* secret a command may touch is no deeper than the star that covers it.    *)
StarSpansOneSegment ==
    \A p \in Procs : auth[p] # None =>
        \E i \in DOMAIN auth[p].tok.scope :
            LET entry == auth[p].tok.scope[i] IN
            /\ Covers(entry, [act |-> Effect[auth[p].asked.cmd], res |-> auth[p].asked.name])
            /\ Starred(entry.res) => OneSegment(entry.res, auth[p].asked.name)
=============================================================================
