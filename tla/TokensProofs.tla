---------------------------- MODULE TokensProofs ----------------------------
(***************************************************************************)
(* Access tokens for any number of processes, tokens and seconds: types,   *)
(* revocation, which paths a scope grants, and what an authorised command  *)
(* was granted.                                                            *)
(***************************************************************************)
EXTENDS Tokens, FiniteSetTheorems, WellFoundedInduction, TLAPS

(* A check in progress has a signed token that grants what was asked. *)
Granted(tok, asked) ==
    /\ tok \in signed
    /\ asked \in Asked
    /\ access_scope_allows(tok.scope, RequestOf(asked.cmd, asked.name))

(* What a process has at hand, and what its command was authorised to do. *)
TokenAtHand(p) ==
    /\ loc[p].now <= clock
    /\ loc[p].seen \subseteq signed
    /\ pc[p] = "notBefore" => loc[p].tok \in signed /\ Granted(loc[p].tok, loc[p].asked)
    /\ pc[p] = "revoke" => p \in Revokers
    /\ auth[p] # None => Granted(auth[p].tok, auth[p].asked)

TokenInv ==
    /\ TypeOK
    /\ IsFiniteSet(signed)
    /\ \A tok \in signed : tok.iat <= clock
    /\ \A p \in Procs : TokenAtHand(p)

(* Only one process revokes at a time: what was revoked stays revoked. *)
OneRevoker == \A p, q \in Revokers : p = q

RevokeInv ==
    /\ TokenInv
    /\ notBefore <= clock
    /\ \A tok \in revoked : RevokedBy(tok, notBefore)
    /\ \A p \in Procs : pc[p] = "revoke" =>
         /\ loc[p].now >= notBefore /\ loc[p].now > 0
         /\ \A tok \in loc[p].seen : tok.iat <= loc[p].now

-----------------------------------------------------------------------------

Local == [asked: Asked \cup {None}, tok: Token \cup {None},
          now: 0..MaxClock, seen: SUBSET Token]

(* The cleared locals. *)
LEMMA NoLocalsType == NoLocals \in Local /\ NoLocals.now = 0 /\ NoLocals.seen = {}
  BY TokensAssumption DEF NoLocals, Local

(* A step that signs nothing: the others' locals and authorisations stand.  *)
LEMMA AtHandKept ==
    ASSUME NEW q \in Procs, TokenAtHand(q), signed \subseteq signed',
           loc[q].now \in Nat, clock \in Nat, clock' \in Nat, clock <= clock',
           pc'[q] = pc[q], loc'[q] = loc[q], auth'[q] \in {auth[q], None}
    PROVE  TokenAtHand(q)'
  BY DEF TokenAtHand, Granted

(* access_issue_token: the claims of a new token fit their fields. *)
LEMMA SignedType ==
    ASSUME TokenInv, NEW p \in Procs, NEW scope \in Scopes, NEW ttl \in Ttls,
           IssueSign(p, scope, ttl)
    PROVE  LET tok == [id |-> Cardinality(signed) + 1, scope |-> scope, iat |-> clock,
                       exp |-> clock + ttl, key |-> sess[p]]
           IN  tok \in Token /\ tok.iat = clock
<1>1. Cardinality(signed) \in Nat
  BY FS_CardinalityType DEF TokenInv
<1>2. /\ clock \in 1..MaxClock /\ ttl \in Nat \ {0} /\ sess[p] \in 0..MaxKey
      /\ {MaxSeconds, MaxClock, MaxTokens, MaxKey} \subseteq Nat \ {0}
  BY TokensAssumption DEF TokenInv, TypeOK
<1>3. /\ sess[p] # 0 /\ Cardinality(signed) + 1 <= MaxTokens
      /\ clock + ttl <= MaxSeconds
  BY DEF IssueSign, Idle, TtlFits
<1> QED
  BY <1>1, <1>2, <1>3 DEF Token

(* A step that moves only its own process, with locals of the right type,   *)
(* signing at most one new token.                                           *)
LEMMA MoveKept ==
    ASSUME TokenInv, NEW p \in Procs, NEW l \in Local, TokenAtHand(p)',
           NEW step \in {"idle", "deliver", "notBefore", "revoke"}, Goto(p, step, l),
           UNCHANGED <<clock, key>>, notBefore' \in 0..MaxClock,
           sess' \in [Procs -> 0..MaxKey],
           signed \subseteq signed', signed' \subseteq Token, IsFiniteSet(signed'),
           \A tok \in signed' : tok.iat <= clock,
           revoked' \subseteq signed',
           NEW a \in [tok: Token, asked: Asked] \cup {None},
           auth' \in {auth, [auth EXCEPT ![p] = a]}
    PROVE  TokenInv'
<1>1. TypeOK'
  <2>1. loc \in [Procs -> Local] /\ pc \in [Procs -> {"idle", "deliver", "notBefore", "revoke"}]
    BY DEF TokenInv, TypeOK, Local
  <2>2. loc' \in [Procs -> Local] /\ pc' \in [Procs -> {"idle", "deliver", "notBefore", "revoke"}]
    BY <2>1 DEF Goto
  <2>3. auth' \in [Procs -> [tok: Token, asked: Asked] \cup {None}]
    <3> DEFINE A == [tok: Token, asked: Asked] \cup {None}
    <3>1. auth \in [Procs -> A] /\ a \in A
      BY DEF TokenInv, TypeOK
    <3> HIDE DEF A
    <3>2. auth' \in [Procs -> A]
      BY <3>1
    <3> QED
      BY <3>2 DEF A
  <2> QED
    BY <2>2, <2>3 DEF TokenInv, TypeOK, Local
<1>2. ASSUME NEW q \in Procs, q # p PROVE TokenAtHand(q)'
  <2>1. pc'[q] = pc[q] /\ loc'[q] = loc[q] /\ auth'[q] = auth[q]
    BY <1>2 DEF TokenInv, TypeOK, Goto
  <2>2. loc[q].now \in Nat /\ clock \in Nat
    BY TokensAssumption DEF TokenInv, TypeOK
  <2> QED
    BY <2>1, <2>2, AtHandKept DEF TokenInv
<1> QED
  BY <1>1, <1>2 DEF TokenInv

(* Every step keeps the types and what is at hand. *)
LEMMA NextToken == ASSUME TokenInv, [Next]_tokenVars PROVE TokenInv'
<1>0. /\ TypeOK /\ clock \in Nat /\ clock \in 1..MaxClock /\ notBefore \in 0..MaxClock
      /\ sess \in [Procs -> 0..MaxKey] /\ signed \subseteq Token /\ revoked \subseteq signed
      /\ IsFiniteSet(signed) /\ \A tok \in signed : tok.iat <= clock
      /\ \A q \in Procs : TokenAtHand(q) /\ loc[q] \in Local /\ loc[q].now \in Nat
      /\ loc \in [Procs -> Local]
  BY TokensAssumption DEF TokenInv, TypeOK, Local
<1>1. CASE Tick
  <2>1. TypeOK' /\ clock' \in Nat /\ clock <= clock'
    BY <1>0, <1>1, TokensAssumption DEF TypeOK, Tick
  <2>2. \A tok \in signed' : tok.iat <= clock'
    <3>1. signed' = signed /\ \A tok \in signed : tok.iat \in Nat
      BY <1>0, <1>1, TokensAssumption DEF Token, Tick
    <3>2. \A n \in Nat : n <= clock => n <= clock'
      BY <1>0, <2>1
    <3> QED
      BY <1>0, <3>1, <3>2
  <2>3. ASSUME NEW q \in Procs PROVE TokenAtHand(q)'
    BY <1>0, <1>1, <2>1, AtHandKept DEF Tick
  <2> QED
    BY <1>0, <1>1, <2>1, <2>2, <2>3 DEF TokenInv, Tick
<1>2. ASSUME NEW p \in Procs, Unlock(p) PROVE TokenInv'
  <2>1. TypeOK'
    BY <1>0, <1>2 DEF TypeOK, Unlock
  <2>2. ASSUME NEW q \in Procs PROVE TokenAtHand(q)'
    BY <1>0, <1>2, AtHandKept DEF TypeOK, Unlock
  <2> QED
    BY <1>0, <1>2, <2>1, <2>2 DEF TokenInv, Unlock
<1>3. ASSUME NEW p \in Procs, Rotate(p) PROVE TokenInv'
  <2>1. TypeOK'
    BY <1>0, <1>3, TokensAssumption DEF TypeOK, Rotate
  <2>2. ASSUME NEW q \in Procs PROVE TokenAtHand(q)'
    BY <1>0, <1>3, AtHandKept DEF Rotate
  <2> QED
    BY <1>0, <1>3, <2>1, <2>2 DEF TokenInv, Rotate
<1>4. ASSUME NEW p \in Procs, NEW scope \in Scopes, NEW ttl \in Ttls,
             IssueSign(p, scope, ttl)
      PROVE  TokenInv'
  <2> DEFINE tok == [id |-> Cardinality(signed) + 1, scope |-> scope, iat |-> clock,
                     exp |-> clock + ttl, key |-> sess[p]]
             l == [NoLocals EXCEPT !.tok = tok]
  <2>1. tok \in Token /\ tok.iat = clock
    BY <1>4, SignedType
  <2>2. /\ Goto(p, "deliver", l) /\ signed' = signed \cup {tok}
        /\ UNCHANGED <<clock, notBefore, key, sess, revoked, auth>>
    BY <1>4 DEF IssueSign
  <2> HIDE DEF tok
  <2>3. l \in Local /\ l.now = 0 /\ l.seen = {}
    BY <2>1, TokensAssumption DEF NoLocals, Local
  <2> HIDE DEF l
  <2>4. IsFiniteSet(signed')
    BY <1>0, <2>2, FS_AddElement
  <2>5. loc'[p] = l /\ pc'[p] = "deliver" /\ auth' = auth
    BY <1>0, <2>2 DEF Goto, TypeOK
  <2>6. TokenAtHand(p)'
    BY <1>0, <2>2, <2>3, <2>5 DEF TokenAtHand, Granted
  <2>7. signed' \subseteq Token /\ \A t \in signed' : t.iat <= clock
    BY <1>0, <2>1, <2>2
  <2>8. revoked' \subseteq signed'
    BY <1>0, <2>2
  <2> QED
    BY <1>0, <2>2, <2>3, <2>4, <2>5, <2>6, <2>7, <2>8, MoveKept
<1>5. ASSUME NEW p \in Procs, Goto(p, "idle", NoLocals),
             UNCHANGED <<clock, key, signed>>, notBefore' \in 0..MaxClock,
             sess' \in [Procs -> 0..MaxKey], revoked' \subseteq signed',
             NEW a \in [tok: Token, asked: Asked] \cup {None},
             a # None => Granted(a.tok, a.asked),
             auth' \in {auth, [auth EXCEPT ![p] = a]}
      PROVE  TokenInv'
  <2>1. loc'[p] = NoLocals /\ pc'[p] = "idle" /\ auth'[p] \in {auth[p], a}
    BY <1>0, <1>5 DEF Goto, TypeOK
  <2>2. TokenAtHand(p)'
    BY <1>0, <1>5, <2>1, NoLocalsType DEF TokenAtHand, Granted
  <2> QED
    BY <1>0, <1>5, <2>2, NoLocalsType, MoveKept
<1>6. ASSUME NEW p \in Procs, IssueEnd(p) \/ Fail(p) PROVE TokenInv'
  <2>1. /\ Goto(p, "idle", NoLocals) /\ sess' \in [Procs -> 0..MaxKey]
        /\ UNCHANGED <<clock, notBefore, key, signed, revoked, auth>>
    BY <1>0, <1>6, TokensAssumption DEF IssueEnd, Fail
  <2> QED
    BY <1>0, <1>5, <2>1
<1>7. ASSUME NEW p \in Procs, NEW tok \in signed, NEW command \in Commands,
             NEW name \in Names, CheckVerify(p, tok, command, name)
      PROVE  TokenInv'
  <2> DEFINE asked == [cmd |-> command, name |-> name]
             l == [NoLocals EXCEPT !.tok = tok, !.asked = asked]
  <2>1. /\ Goto(p, "notBefore", l) /\ auth' = [auth EXCEPT ![p] = None]
        /\ UNCHANGED <<clock, notBefore, key, sess, signed, revoked>>
    BY <1>7 DEF CheckVerify
  <2>2. Granted(tok, asked)
    BY <1>7 DEF Granted, CheckVerify, Asked
  <2>3. l \in Local /\ l.now = 0 /\ l.seen = {} /\ l.tok = tok /\ l.asked = asked
    <3>1. tok \in Token /\ asked \in Asked /\ 0 \in 0..MaxClock
      BY <1>0, <2>2, TokensAssumption DEF Granted
    <3> HIDE DEF asked
    <3> QED
      BY <3>1 DEF NoLocals, Local
  <2> HIDE DEF l, asked
  <2>4. loc'[p] = l /\ pc'[p] = "notBefore" /\ auth'[p] = None
    BY <1>0, <2>1 DEF Goto, TypeOK
  <2>5. TokenAtHand(p)'
    BY <1>0, <2>1, <2>2, <2>3, <2>4 DEF TokenAtHand, Granted
  <2> QED
    BY <1>0, <2>1, <2>3, <2>5, MoveKept
<1>8. ASSUME NEW p \in Procs, CheckNotBefore(p) PROVE TokenInv'
  <2> DEFINE a == [tok |-> loc[p].tok, asked |-> loc[p].asked]
  <2>1. /\ Goto(p, "idle", NoLocals) /\ auth' \in {auth, [auth EXCEPT ![p] = a]}
        /\ UNCHANGED <<clock, notBefore, key, sess, signed, revoked>>
    BY <1>8 DEF CheckNotBefore
  <2>2. Granted(a.tok, a.asked) /\ a \in [tok: Token, asked: Asked]
    BY <1>0, <1>8 DEF CheckNotBefore, TokenAtHand, Granted
  <2> HIDE DEF a
  <2> QED
    BY <1>0, <1>5, <2>1, <2>2
<1>9. ASSUME NEW p \in Procs, RevokeClock(p) PROVE TokenInv'
  <2> DEFINE l == [NoLocals EXCEPT !.now = clock, !.seen = signed]
  <2>1. /\ Goto(p, "revoke", l) /\ p \in Revokers
        /\ UNCHANGED <<clock, notBefore, key, sess, signed, revoked, auth>>
    BY <1>9 DEF RevokeClock
  <2>2. l \in Local /\ l.now = clock /\ l.seen = signed
    <3>1. clock \in 0..MaxClock /\ signed \in SUBSET Token
      BY <1>0, TokensAssumption
    <3> QED
      BY <3>1 DEF NoLocals, Local
  <2> HIDE DEF l
  <2>3. loc'[p] = l /\ pc'[p] = "revoke" /\ auth' = auth
    BY <1>0, <2>1 DEF Goto, TypeOK
  <2>4. TokenAtHand(p)'
    BY <1>0, <2>1, <2>2, <2>3 DEF TokenAtHand, Granted
  <2> QED
    BY <1>0, <2>1, <2>2, <2>3, <2>4, MoveKept
<1>10. ASSUME NEW p \in Procs, RevokeCommit(p) PROVE TokenInv'
  <2>1. /\ Goto(p, "idle", NoLocals) /\ notBefore' = loc[p].now
        /\ revoked' = revoked \cup loc[p].seen
        /\ UNCHANGED <<clock, key, sess, signed, auth>>
    BY <1>10 DEF RevokeCommit
  <2>2. notBefore' \in 0..MaxClock /\ revoked' \subseteq signed'
    BY <1>0, <2>1 DEF TokenAtHand, Local
  <2> QED
    BY <1>0, <1>5, <2>1, <2>2
<1>11. CASE UNCHANGED tokenVars
  <2>1. TypeOK'
    BY <1>0, <1>11 DEF TypeOK, tokenVars
  <2>2. ASSUME NEW q \in Procs PROVE TokenAtHand(q)'
    BY <1>0, <1>11, AtHandKept DEF tokenVars
  <2> QED
    BY <1>0, <1>11, <2>1, <2>2 DEF TokenInv, tokenVars
<1> QED
  BY <1>1, <1>2, <1>3, <1>4, <1>6, <1>7, <1>8, <1>9, <1>10, <1>11 DEF Next

(* The types and what is at hand, in every reachable state. *)
LEMMA TokenInvariant == Spec => []TokenInv
<1>1. Init => TokenInv
  <2> SUFFICES ASSUME Init PROVE TokenInv
    OBVIOUS
  <2>1. loc \in [Procs -> Local] /\ \A p \in Procs : loc[p] = NoLocals
    BY NoLocalsType DEF Init
  <2>2. TypeOK
    BY <2>1, TokensAssumption DEF Init, TypeOK, Local
  <2>3. IsFiniteSet(signed)
    BY FS_EmptySet DEF Init
  <2>4. ASSUME NEW p \in Procs PROVE TokenAtHand(p)
    BY <2>1, NoLocalsType DEF Init, TokenAtHand
  <2> QED
    BY <2>2, <2>3, <2>4 DEF Init, TokenInv
<1>2. TokenInv /\ [Next]_tokenVars => TokenInv'
  BY NextToken
<1> QED
  BY <1>1, <1>2, PTL DEF Spec

(* Types; in particular access_issue_token never signs an expiry beyond     *)
(* what a JSON number holds exactly, and time and keys stay in range.       *)
THEOREM TokenTypes == Spec => []TypeOK
<1>1. TokenInv => TypeOK
  BY DEF TokenInv
<1> QED
  BY <1>1, TokenInvariant, PTL

-----------------------------------------------------------------------------
(* Revocation *)

(* Where a single process revokes, every step keeps what was revoked         *)
(* revoked: the second stored never goes back, and covers what the revoker   *)
(* saw signed.                                                               *)
LEMMA NextRevoke ==
    ASSUME OneRevoker, RevokeInv, [Next]_tokenVars
    PROVE  RevokeInv'
<1>1. TokenInv'
  BY NextToken DEF RevokeInv
<1>2. /\ clock \in Nat /\ notBefore \in Nat /\ clock' \in Nat
      /\ \A tok \in signed : tok.iat \in Nat /\ tok.iat <= clock
      /\ revoked \subseteq signed
      /\ \A p \in Procs : loc[p].now \in Nat /\ loc[p].now <= clock
                         /\ loc[p].seen \subseteq signed
      /\ \A p \in Procs : pc[p] = "revoke" => p \in Revokers
  BY <1>1, TokensAssumption, SMTT(30) DEF RevokeInv, TokenInv, TypeOK, Token, TokenAtHand
<1>3. CASE UNCHANGED <<notBefore, revoked>> /\ clock <= clock'
           /\ \A p \in Procs : pc'[p] = "revoke" => pc[p] = "revoke" /\ loc'[p] = loc[p]
  BY <1>1, <1>2, <1>3 DEF RevokeInv, RevokedBy
<1>4. ASSUME NEW p \in Procs, RevokeClock(p) PROVE RevokeInv'
  <2>1. /\ loc'[p].now = clock /\ loc'[p].seen = signed
        /\ UNCHANGED <<clock, notBefore, revoked>>
        /\ \A q \in Procs : q # p => pc'[q] = pc[q] /\ loc'[q] = loc[q]
    BY <1>4 DEF RevokeInv, TokenInv, TypeOK, RevokeClock, Goto, NoLocals
  <2>2. clock > 0
    BY TokensAssumption DEF RevokeInv, TokenInv, TypeOK
  <2> QED
    BY <1>1, <1>2, <2>1, <2>2 DEF RevokeInv, RevokedBy
<1>5. ASSUME NEW p \in Procs, RevokeCommit(p) PROVE RevokeInv'
  <2>1. /\ notBefore' = loc[p].now /\ revoked' = revoked \cup loc[p].seen
        /\ clock' = clock /\ pc[p] = "revoke" /\ pc'[p] = "idle"
        /\ \A q \in Procs : q # p => pc'[q] = pc[q] /\ loc'[q] = loc[q]
    BY <1>5 DEF RevokeInv, TokenInv, TypeOK, RevokeCommit, Goto
  <2>2. \A q \in Procs : pc'[q] # "revoke"
    BY <1>2, <2>1 DEF OneRevoker
  <2>3. /\ loc[p].now >= notBefore /\ loc[p].now > 0
        /\ \A tok \in loc[p].seen : tok.iat <= loc[p].now
        /\ \A tok \in revoked : tok.iat <= notBefore
    BY <2>1 DEF RevokeInv, RevokedBy
  <2>4. ASSUME NEW tok \in revoked' PROVE RevokedBy(tok, notBefore')
    <3>1. CASE tok \in loc[p].seen
      BY <2>1, <2>3, <3>1 DEF RevokedBy
    <3>2. CASE tok \in revoked
      <4>1. tok.iat \in Nat /\ loc[p].now \in Nat
        BY <1>2, <3>2
      <4> QED
        BY <1>2, <2>1, <2>3, <3>2, <4>1 DEF RevokedBy
    <3> QED
      BY <2>1, <3>1, <3>2
  <2> QED
    BY <1>1, <1>2, <2>1, <2>2, <2>4 DEF RevokeInv
<1>6. ASSUME NEW p \in Procs, NEW step \in {"idle", "deliver", "notBefore"}, NEW l,
             Goto(p, step, l), UNCHANGED <<clock, notBefore, revoked>>
      PROVE  RevokeInv'
  <2>1. \A q \in Procs : pc'[q] = "revoke" => pc[q] = "revoke" /\ loc'[q] = loc[q]
    BY <1>6 DEF RevokeInv, TokenInv, TypeOK, Goto
  <2> QED
    BY <1>2, <1>3, <1>6, <2>1
<1>7. CASE Tick
  BY <1>2, <1>3, <1>7 DEF Tick
<1>8. ASSUME NEW p \in Procs, Unlock(p) \/ Rotate(p) PROVE RevokeInv'
  BY <1>2, <1>3, <1>8 DEF Unlock, Rotate
<1>9. ASSUME NEW p \in Procs, NEW scope \in Scopes, NEW ttl \in Ttls,
             IssueSign(p, scope, ttl)
      PROVE  RevokeInv'
  BY <1>6, <1>9 DEF IssueSign
<1>10. ASSUME NEW p \in Procs, IssueEnd(p) \/ CheckNotBefore(p) \/ Fail(p) PROVE RevokeInv'
  BY <1>6, <1>10 DEF IssueEnd, CheckNotBefore, Fail
<1>11. ASSUME NEW p \in Procs, NEW tok \in signed, NEW command \in Commands,
             NEW name \in Names, CheckVerify(p, tok, command, name)
      PROVE  RevokeInv'
  BY <1>6, <1>11 DEF CheckVerify
<1>12. CASE UNCHANGED tokenVars
  BY <1>2, <1>3, <1>12 DEF tokenVars
<1> QED
  BY <1>4, <1>5, <1>7, <1>8, <1>9, <1>10, <1>11, <1>12 DEF Next

(* With one revoking process, vault_check_token accepts no token that a      *)
(* completed revoke-tokens covered.  (With two, the second writer may store  *)
(* an earlier second than the first.)                                        *)
THEOREM RevokedRefusedHolds ==
    ASSUME OneRevoker
    PROVE  Spec => RevokedRefused
<1>1. Init => RevokeInv \/ ~TokenInv
  BY DEF Init, RevokeInv
<1>2. RevokeInv /\ [Next]_tokenVars => RevokeInv'
  BY NextRevoke
<1>3. RevokeInv /\ [Next]_tokenVars =>
        [\A p \in Procs : auth'[p] # None /\ auth[p] = None =>
            auth'[p].tok \notin revoked]_tokenVars
  <2> SUFFICES ASSUME RevokeInv, Next, NEW p \in Procs, auth'[p] # None, auth[p] = None
               PROVE  auth'[p].tok \notin revoked
    OBVIOUS
  <2>1. PICK q \in Procs : CheckNotBefore(q)
    BY ZenonT(40) DEF Next, Tick, Unlock, Rotate, IssueSign, IssueEnd, CheckVerify, RevokeClock,
           RevokeCommit, Fail, RevokeInv, TokenInv, TypeOK
  <2>2. /\ auth' # auth /\ ~RevokedBy(loc[q].tok, notBefore)
        /\ auth' = [auth EXCEPT ![q] = [tok |-> loc[q].tok, asked |-> loc[q].asked]]
    BY <2>1 DEF CheckNotBefore
  <2>3. p = q /\ auth'[p].tok = loc[q].tok
    BY <2>2 DEF RevokeInv, TokenInv, TypeOK
  <2> QED
    BY <2>2, <2>3 DEF RevokeInv
<1>4. Spec => []TokenInv
  BY TokenInvariant
<1> QED
  BY <1>1, <1>2, <1>3, <1>4, PTL DEF Spec, RevokedRefused

-----------------------------------------------------------------------------
(* Induction *)

Below == {s \in Nat \X Nat : s[1] < s[2]}

(* A set with 0 and with the successor of each natural in it has them all:  *)
(* otherwise the least natural that is missing would be in it.              *)
LEMMA NatsIn ==
    ASSUME NEW S, 0 \in S, \A n \in Nat : n \in S => n + 1 \in S
    PROVE  \A n \in Nat : n \in S
<1> SUFFICES ASSUME NEW x \in Nat, x \notin S PROVE FALSE
  OBVIOUS
<1> DEFINE T == Nat \ S
<1>1. IsWellFoundedOn(Below, Nat)
  BY NatLessThanWellFounded DEF OpToRel, Below
<1>2. PICK m \in T : \A k \in T : ~ (<<k, m>> \in Below)
  BY <1>1, WFMin
<1>3. m \in Nat /\ m # 0 /\ m - 1 \in Nat /\ m - 1 < m /\ (m - 1) + 1 = m
  BY <1>2
<1>4. <<m - 1, m>> \in Below
  BY <1>3 DEF Below
<1>5. m - 1 \in S
  BY <1>2, <1>3, <1>4
<1> QED
  BY <1>2, <1>3, <1>5

-----------------------------------------------------------------------------
(* Paths *)

(* g holds the segments of the first 0, 1, ..., n characters of s. *)
SplitsTo(s, g, n) ==
    g = [i \in 0..n |-> IF i = 0 THEN << <<>> >> ELSE Extend(g[i - 1], s[i])]

(* Two such functions agree as far as both go. *)
LEMMA SplitsAgree ==
    ASSUME NEW s, NEW g, NEW h, NEW n \in Nat, NEW m \in Nat,
           SplitsTo(s, g, n), SplitsTo(s, h, m)
    PROVE  \A i \in Nat : i <= n /\ i <= m => g[i] = h[i]
<1> DEFINE S == {i \in Nat : i <= n /\ i <= m => g[i] = h[i]}
<1>1. 0 \in S
  BY DEF SplitsTo
<1>2. ASSUME NEW i \in Nat, i \in S PROVE i + 1 \in S
  <2> SUFFICES ASSUME i + 1 <= n, i + 1 <= m PROVE g[i + 1] = h[i + 1]
    OBVIOUS
  <2>1. g[i] = h[i] /\ i + 1 \in 0..n /\ i + 1 \in 0..m /\ i + 1 # 0 /\ (i + 1) - 1 = i
    BY <1>2
  <2>2. g[i + 1] = Extend(g[(i + 1) - 1], s[i + 1]) /\ h[i + 1] = Extend(h[(i + 1) - 1], s[i + 1])
    BY <2>1 DEF SplitsTo
  <2> QED
    BY <2>1, <2>2
<1>3. \A i \in Nat : i \in S
  <2> HIDE DEF S
  <2> QED
    BY <1>1, <1>2, NatsIn
<1> QED
  BY <1>3

(* There is one for every length. *)
LEMMA SplitsExist ==
    ASSUME NEW s
    PROVE  \A n \in Nat : \E g : SplitsTo(s, g, n)
<1> DEFINE S == {n \in Nat : \E g : SplitsTo(s, g, n)}
<1>1. 0 \in S
  <2> DEFINE g == [i \in 0..0 |-> << <<>> >>]
  <2>1. SplitsTo(s, g, 0)
    BY DEF SplitsTo
  <2> QED
    BY <2>1
<1>2. ASSUME NEW n \in Nat, n \in S PROVE n + 1 \in S
  <2>1. PICK g : SplitsTo(s, g, n)
    BY <1>2
  <2> DEFINE h == [i \in 0..(n + 1) |-> IF i = n + 1 THEN Extend(g[n], s[n + 1]) ELSE g[i]]
  <2>2. ASSUME NEW i \in 0..(n + 1)
        PROVE  h[i] = IF i = 0 THEN << <<>> >> ELSE Extend(h[i - 1], s[i])
    <3>1. CASE i = n + 1
      <4>1. h[n] = g[n] /\ (n + 1) - 1 = n /\ n + 1 # 0
        OBVIOUS
      <4> QED
        BY <3>1, <4>1
    <3>2. CASE i # n + 1
      <4>1. i \in 0..n /\ h[i] = g[i]
        BY <3>2
      <4>2. g[i] = IF i = 0 THEN << <<>> >> ELSE Extend(g[i - 1], s[i])
        BY <2>1, <4>1 DEF SplitsTo
      <4>3. i # 0 => h[i - 1] = g[i - 1]
        BY <4>1
      <4> HIDE DEF h
      <4> QED
        BY <4>1, <4>2, <4>3
    <3> QED
      BY <3>1, <3>2
  <2>3. SplitsTo(s, h, n + 1)
    <3>1. h = [i \in 0..(n + 1) |-> h[i]]
      OBVIOUS
    <3> HIDE DEF h
    <3> QED
      BY <2>2, <3>1 DEF SplitsTo
  <2> QED
    BY <2>3
<1>3. \A n \in Nat : n \in S
  <2> HIDE DEF S
  <2> QED
    BY <1>1, <1>2, NatsIn
<1> QED
  BY <1>3

(* So the segments are what the recursion says, character by character. *)
LEMMA PathsRun ==
    ASSUME NEW s
    PROVE  /\ Paths(s)[0] = << <<>> >>
           /\ \A i \in Nat : Paths(s)[i + 1] = Extend(Paths(s)[i], s[i + 1])
<1> DEFINE F == CHOOSE f : f = [i \in Nat |-> IF i = 0 THEN << <<>> >>
                                            ELSE Extend(f[i - 1], s[i])]
<1>1. \E f : f = [i \in Nat |-> IF i = 0 THEN << <<>> >> ELSE Extend(f[i - 1], s[i])]
  <2> DEFINE G(i) == CHOOSE g : SplitsTo(s, g, i)
             f == [i \in Nat |-> G(i)[i]]
  <2>1. \A i \in Nat : SplitsTo(s, G(i), i)
    BY SplitsExist
  <2>2. ASSUME NEW i \in Nat
        PROVE  f[i] = IF i = 0 THEN << <<>> >> ELSE Extend(f[i - 1], s[i])
    <3>1. G(i)[i] = IF i = 0 THEN << <<>> >> ELSE Extend(G(i)[i - 1], s[i])
      <4>1. SplitsTo(s, G(i), i) /\ i \in 0..i
        BY <2>1
      <4> HIDE DEF G
      <4> QED
        BY <4>1 DEF SplitsTo
    <3>2. i # 0 => G(i)[i - 1] = G(i - 1)[i - 1]
      <4> SUFFICES ASSUME i # 0 PROVE G(i)[i - 1] = G(i - 1)[i - 1]
        OBVIOUS
      <4>1. i - 1 \in Nat /\ SplitsTo(s, G(i), i) /\ SplitsTo(s, G(i - 1), i - 1)
        BY <2>1
      <4> HIDE DEF G
      <4> QED
        BY <4>1, SplitsAgree
    <3>3. f[i] = G(i)[i] /\ (i # 0 => f[i - 1] = G(i - 1)[i - 1])
      OBVIOUS
    <3> HIDE DEF f, G
    <3> QED
      BY <3>1, <3>2, <3>3
  <2>3. f = [i \in Nat |-> f[i]]
    OBVIOUS
  <2> HIDE DEF f
  <2>4. f = [i \in Nat |-> IF i = 0 THEN << <<>> >> ELSE Extend(f[i - 1], s[i])]
    BY <2>2, <2>3
  <2> QED
    BY <2>4
<1>2. F = [i \in Nat |-> IF i = 0 THEN << <<>> >> ELSE Extend(F[i - 1], s[i])]
  BY <1>1
<1>3. Paths(s) = F
  BY DEF Paths
<1> HIDE DEF F
<1>4. ASSUME NEW i \in Nat PROVE F[i + 1] = Extend(F[i], s[i + 1])
  <2>1. i + 1 \in Nat /\ i + 1 # 0 /\ (i + 1) - 1 = i
    OBVIOUS
  <2> QED
    BY <1>2, <2>1
<1> QED
  BY <1>2, <1>3, <1>4

(* A function on 1..n is a sequence of length n. *)
LEMMA FunctionIsSeq ==
    ASSUME NEW S, NEW n \in Nat, NEW f \in [1..n -> S]
    PROVE  f \in Seq(S) /\ Len(f) = n
  OBVIOUS

(* A slash opens a segment; any other character lengthens the last one. *)
LEMMA ExtendBy ==
    ASSUME NEW C, NEW path \in Seq(Seq(C)), path # <<>>, NEW c \in C
    PROVE  /\ Extend(path, c) \in Seq(Seq(C)) /\ Extend(path, c) # <<>>
           /\ c = Slash =>
                /\ Len(Extend(path, c)) = Len(path) + 1
                /\ \A m \in 1..Len(path) : Extend(path, c)[m] = path[m]
                /\ Extend(path, c)[Len(path) + 1] = <<>>
           /\ c # Slash =>
                /\ Len(Extend(path, c)) = Len(path)
                /\ \A m \in 1..(Len(path) - 1) : Extend(path, c)[m] = path[m]
                /\ Extend(path, c)[Len(path)] = Append(path[Len(path)], c)
<1>1. CASE c = Slash
  <2>1. Extend(path, c) = Append(path, <<>>) /\ <<>> \in Seq(C)
    BY <1>1 DEF Extend
  <2> QED
    BY <1>1, <2>1
<1>2. CASE c # Slash
  <2>1. Len(path) \in Nat /\ Len(path) # 0 /\ DOMAIN path = 1..Len(path)
        /\ path[Len(path)] \in Seq(C)
    OBVIOUS
  <2>2. Append(path[Len(path)], c) \in Seq(C)
    BY <2>1
  <2>3. Extend(path, c) = [path EXCEPT ![Len(path)] = Append(path[Len(path)], c)]
    BY <1>2 DEF Extend
  <2>4. Extend(path, c) \in [1..Len(path) -> Seq(C)]
    BY <2>1, <2>2, <2>3
  <2>5. Extend(path, c) \in Seq(Seq(C)) /\ Len(Extend(path, c)) = Len(path)
    BY <2>1, <2>4, FunctionIsSeq
  <2>6. Extend(path, c) # <<>>
    BY <2>1, <2>5
  <2> DEFINE x == Append(path[Len(path)], c)
  <2> HIDE DEF x
  <2>7. /\ \A m \in 1..(Len(path) - 1) : Extend(path, c)[m] = path[m]
        /\ Extend(path, c)[Len(path)] = x
    <3>1. Extend(path, c) = [path EXCEPT ![Len(path)] = x] /\ Len(path) \in DOMAIN path
      BY <2>1, <2>3 DEF x
    <3>2. ASSUME NEW m \in 1..(Len(path) - 1) PROVE m \in 1..Len(path) /\ m # Len(path)
      <4>1. \A k \in Nat : \A j \in 1..(k - 1) : j \in 1..k /\ j # k
        OBVIOUS
      <4> QED
        BY <2>1, <4>1
    <3> QED
      BY <2>1, <3>1, <3>2
  <2> QED
    BY <1>2, <2>5, <2>6, <2>7 DEF x
<1> QED
  BY <1>1, <1>2

(* The segments of any part of a string are a nonempty sequence of strings. *)
LEMMA PathsType ==
    ASSUME NEW C, NEW s \in Seq(C)
    PROVE  \A i \in Nat : i <= Len(s) => Paths(s)[i] \in Seq(Seq(C)) /\ Paths(s)[i] # <<>>
<1> DEFINE S == {i \in Nat : i <= Len(s) =>
                               Paths(s)[i] \in Seq(Seq(C)) /\ Paths(s)[i] # <<>>}
<1>1. 0 \in S
  <2>1. << <<>> >> \in Seq(Seq(C)) /\ << <<>> >> # <<>>
    OBVIOUS
  <2> QED
    BY <2>1, PathsRun
<1>2. ASSUME NEW i \in Nat, i \in S PROVE i + 1 \in S
  <2> SUFFICES ASSUME i + 1 <= Len(s)
               PROVE  Paths(s)[i + 1] \in Seq(Seq(C)) /\ Paths(s)[i + 1] # <<>>
    OBVIOUS
  <2>1. Paths(s)[i] \in Seq(Seq(C)) /\ Paths(s)[i] # <<>> /\ s[i + 1] \in C
    BY <1>2
  <2>2. Paths(s)[i + 1] = Extend(Paths(s)[i], s[i + 1])
    BY PathsRun
  <2> QED
    BY <2>1, <2>2, ExtendBy
<1>3. \A i \in Nat : i \in S
  <2> HIDE DEF S
  <2> QED
    BY <1>1, <1>2, NatsIn
<1> QED
  BY <1>3

(* One character further. *)
LEMMA PathStep ==
    ASSUME NEW C, NEW s \in Seq(C), NEW i \in Nat, i < Len(s)
    PROVE  /\ Paths(s)[i] \in Seq(Seq(C)) /\ Paths(s)[i] # <<>> /\ s[i + 1] \in C
           /\ Paths(s)[i + 1] = Extend(Paths(s)[i], s[i + 1])
<1>1. Len(s) \in Nat /\ i <= Len(s) /\ s[i + 1] \in C
  OBVIOUS
<1>2. Paths(s)[i] \in Seq(Seq(C)) /\ Paths(s)[i] # <<>>
  BY <1>1, PathsType
<1>3. Paths(s)[i + 1] = Extend(Paths(s)[i], s[i + 1])
  BY PathsRun
<1> QED
  BY <1>1, <1>2, <1>3

(* Strings that begin alike have the same segments so far. *)
LEMMA PathsAgree ==
    ASSUME NEW s, NEW t, NEW n \in Nat, \A i \in 1..n : s[i] = t[i]
    PROVE  Paths(s)[n] = Paths(t)[n]
<1> DEFINE S == {i \in Nat : i <= n => Paths(s)[i] = Paths(t)[i]}
<1>1. 0 \in S
  BY PathsRun
<1>2. ASSUME NEW i \in Nat, i \in S PROVE i + 1 \in S
  <2> SUFFICES ASSUME i + 1 <= n PROVE Paths(s)[i + 1] = Paths(t)[i + 1]
    OBVIOUS
  <2>1. Paths(s)[i] = Paths(t)[i] /\ s[i + 1] = t[i + 1]
    BY <1>2
  <2> QED
    BY <2>1, PathsRun
<1>3. \A i \in Nat : i \in S
  <2> HIDE DEF S
  <2> QED
    BY <1>1, <1>2, NatsIn
<1> QED
  BY <1>3

(* B begins with A. *)
Begins(A, B) == Len(A) <= Len(B) /\ \A m \in 1..Len(A) : A[m] = B[m]

LEMMA BeginsLonger ==
    ASSUME NEW C, NEW A \in Seq(C), NEW B \in Seq(C), NEW c \in C, Begins(A, B)
    PROVE  Begins(A, Append(B, c))
<1>1. Len(A) \in Nat /\ Len(B) \in Nat /\ Len(A) <= Len(B)
  BY DEF Begins
<1>2. Len(Append(B, c)) = Len(B) + 1 /\ \A m \in 1..Len(B) : Append(B, c)[m] = B[m]
  OBVIOUS
<1>3. \A m \in 1..Len(A) : m \in 1..Len(B)
  BY <1>1
<1>4. Len(A) <= Len(Append(B, c))
  BY <1>1, <1>2
<1> QED
  BY <1>2, <1>3, <1>4 DEF Begins

(* Only the last segment of a part of a string changes later, by growing. *)
LEMMA PathsGrow ==
    ASSUME NEW C, NEW s \in Seq(C), NEW i \in Nat, i <= Len(s)
    PROVE  \A j \in Nat : i <= j /\ j <= Len(s) =>
             /\ Len(Paths(s)[i]) <= Len(Paths(s)[j])
             /\ \A m \in 1..(Len(Paths(s)[i]) - 1) : Paths(s)[j][m] = Paths(s)[i][m]
             /\ Begins(Paths(s)[i][Len(Paths(s)[i])], Paths(s)[j][Len(Paths(s)[i])])
<1> DEFINE k == Len(Paths(s)[i])
           S == {j \in Nat : i <= j /\ j <= Len(s) =>
                   /\ k <= Len(Paths(s)[j])
                   /\ \A m \in 1..(k - 1) : Paths(s)[j][m] = Paths(s)[i][m]
                   /\ Begins(Paths(s)[i][k], Paths(s)[j][k])}
<1>0. /\ Paths(s)[i] \in Seq(Seq(C)) /\ Paths(s)[i] # <<>>
      /\ k \in Nat /\ k # 0 /\ Paths(s)[i][k] \in Seq(C)
  <2>1. Paths(s)[i] \in Seq(Seq(C)) /\ Paths(s)[i] # <<>>
    BY PathsType
  <2> QED
    BY <2>1
<1> HIDE DEF k
<1>1. i \in S
  BY <1>0 DEF Begins, k
<1>2. ASSUME NEW j \in Nat, j \in S PROVE j + 1 \in S
  <2> SUFFICES ASSUME i <= j + 1, j + 1 <= Len(s), i # j + 1
               PROVE  /\ k <= Len(Paths(s)[j + 1])
                      /\ \A m \in 1..(k - 1) : Paths(s)[j + 1][m] = Paths(s)[i][m]
                      /\ Begins(Paths(s)[i][k], Paths(s)[j + 1][k])
    BY <1>1
  <2> DEFINE P == Paths(s)[j]
             Q == Paths(s)[j + 1]
             c == s[j + 1]
  <2>1. /\ k <= Len(P)
        /\ \A m \in 1..(k - 1) : P[m] = Paths(s)[i][m]
        /\ Begins(Paths(s)[i][k], P[k])
    BY <1>2
  <2>2. P \in Seq(Seq(C)) /\ P # <<>> /\ c \in C /\ Q = Extend(P, c)
    <3>1. j < Len(s)
      OBVIOUS
    <3> QED
      BY <3>1, PathStep
  <2> HIDE DEF P, Q, c
  <2>3. Len(P) \in Nat /\ P[k] \in Seq(C) /\ P[Len(P)] \in Seq(C)
    BY <1>0, <2>1, <2>2
  <2>4. CASE c = Slash
    <3>1. Len(Q) = Len(P) + 1 /\ \A m \in 1..Len(P) : Q[m] = P[m]
      BY <2>2, <2>4, ExtendBy
    <3>2. Q[k] = P[k] /\ \A m \in 1..(k - 1) : Q[m] = P[m]
      BY <1>0, <2>1, <2>3, <3>1
    <3>3. k <= Len(Q)
      BY <1>0, <2>1, <2>3, <3>1
    <3> QED
      BY <2>1, <3>2, <3>3 DEF Q
  <2>5. CASE c # Slash
    <3>1. /\ Len(Q) = Len(P) /\ \A m \in 1..(Len(P) - 1) : Q[m] = P[m]
          /\ Q[Len(P)] = Append(P[Len(P)], c)
      BY <2>2, <2>5, ExtendBy
    <3>2. \A m \in 1..(k - 1) : Q[m] = P[m]
      BY <1>0, <2>1, <2>3, <3>1
    <3>3. Begins(Paths(s)[i][k], Q[k])
      <4>1. CASE k < Len(P)
        <5>1. Q[k] = P[k]
          <6>1. k \in 1..(Len(P) - 1)
            BY <1>0, <2>3, <4>1
          <6> QED
            BY <3>1, <6>1
        <5> QED
          BY <2>1, <5>1
      <4>2. CASE k = Len(P)
        <5>1. Q[k] = Append(P[k], c)
          BY <3>1, <4>2
        <5>2. Begins(Paths(s)[i][k], Append(P[k], c))
          BY <1>0, <2>1, <2>2, <2>3, BeginsLonger
        <5> QED
          BY <5>1, <5>2
      <4> QED
        BY <1>0, <2>1, <2>3, <4>1, <4>2
    <3> QED
      BY <2>1, <3>1, <3>2, <3>3 DEF Q
  <2> QED
    BY <2>4, <2>5
<1>3. 0 \in S
  BY <1>1
<1>4. \A j \in Nat : j \in S
  <2> HIDE DEF S
  <2> QED
    BY <1>2, <1>3, NatsIn
<1> QED
  BY <1>4 DEF k

(* A slash ends the segment before it ... *)
LEMMA SlashCloses ==
    ASSUME NEW C, NEW s \in Seq(C), NEW i \in Nat, i < Len(s), s[i + 1] = Slash
    PROVE  /\ Len(Segments(s)) > Len(Paths(s)[i])
           /\ \A m \in 1..Len(Paths(s)[i]) : Segments(s)[m] = Paths(s)[i][m]
<1> DEFINE P == Paths(s)[i]
           Q == Paths(s)[i + 1]
           c == s[i + 1]
<1>0. P \in Seq(Seq(C)) /\ P # <<>> /\ c \in C /\ Q = Extend(P, c)
  BY PathStep
<1>1. c = Slash
  OBVIOUS
<1> HIDE DEF P, Q, c
<1>2. Len(P) \in Nat /\ Len(Q) = Len(P) + 1 /\ \A m \in 1..Len(P) : Q[m] = P[m]
  <2>1. Len(Q) = Len(P) + 1 /\ \A m \in 1..Len(P) : Q[m] = P[m]
    BY <1>0, <1>1, ExtendBy, ZenonT(40)
  <2> QED
    BY <1>0, <2>1
<1>3. Len(s) \in Nat /\ i + 1 \in Nat /\ i + 1 <= Len(s)
  OBVIOUS
<1>4. Segments(s) \in Seq(Seq(C))
  BY <1>3, PathsType DEF Segments, Q
<1>5. /\ Len(Q) <= Len(Segments(s))
      /\ \A m \in 1..(Len(Q) - 1) : Segments(s)[m] = Q[m]
  <2>1. \A j \in Nat : i + 1 <= j /\ j <= Len(s) =>
          /\ Len(Q) <= Len(Paths(s)[j])
          /\ \A m \in 1..(Len(Q) - 1) : Paths(s)[j][m] = Q[m]
          /\ Begins(Q[Len(Q)], Paths(s)[j][Len(Q)])
    BY <1>3, PathsGrow DEF Q
  <2> QED
    BY <1>3, <2>1 DEF Segments
<1>6. Len(P) < Len(Segments(s)) /\ 1..(Len(Q) - 1) = 1..Len(P)
  BY <1>2, <1>4, <1>5
<1> QED
  BY <1>2, <1>5, <1>6 DEF P

(* ... and any other character is in it for good. *)
LEMMA CharStays ==
    ASSUME NEW C, NEW s \in Seq(C), NEW i \in Nat, i < Len(s), s[i + 1] # Slash
    PROVE  /\ Len(Segments(s)) >= Len(Paths(s)[i])
           /\ Begins(Append(Paths(s)[i][Len(Paths(s)[i])], s[i + 1]),
                     Segments(s)[Len(Paths(s)[i])])
<1> DEFINE P == Paths(s)[i]
           Q == Paths(s)[i + 1]
           c == s[i + 1]
<1>0. P \in Seq(Seq(C)) /\ P # <<>> /\ c \in C /\ Q = Extend(P, c)
  BY PathStep
<1>1. c # Slash
  OBVIOUS
<1> HIDE DEF P, Q, c
<1>2. Len(Q) = Len(P) /\ Q[Len(P)] = Append(P[Len(P)], c)
  BY <1>0, <1>1, ExtendBy
<1>3. Len(s) \in Nat /\ i + 1 \in Nat /\ i + 1 <= Len(s)
  OBVIOUS
<1>4. Segments(s) \in Seq(Seq(C)) /\ Q \in Seq(Seq(C))
  BY <1>3, PathsType DEF Segments, Q
<1>5. Len(Q) <= Len(Segments(s)) /\ Begins(Q[Len(Q)], Segments(s)[Len(Q)])
  <2>1. \A j \in Nat : i + 1 <= j /\ j <= Len(s) =>
          /\ Len(Q) <= Len(Paths(s)[j])
          /\ \A m \in 1..(Len(Q) - 1) : Paths(s)[j][m] = Q[m]
          /\ Begins(Q[Len(Q)], Paths(s)[j][Len(Q)])
    BY <1>3, PathsGrow DEF Q
  <2> QED
    BY <1>3, <2>1 DEF Segments
<1>6. Len(Segments(s)) >= Len(P)
  BY <1>2, <1>4, <1>5
<1> QED
  BY <1>2, <1>5, <1>6 DEF P, c

(* IsPrefix, element by element. *)
LEMMA PrefixBegins ==
    ASSUME NEW S, NEW A \in Seq(S), NEW B \in Seq(S)
    PROVE  IsPrefix(A, B) <=> Begins(A, B)
<1>1. Len(A) \in Nat /\ Len(B) \in Nat
  OBVIOUS
<1>2. CASE Len(A) <= Len(B)
  <2> DEFINE D == SubSeq(A, 1, Len(A))
             E == SubSeq(B, 1, Len(A))
  <2>1. D = [m \in 1..Len(A) |-> A[m]]
    BY <1>1
  <2>2. E = [m \in 1..Len(A) |-> B[m]]
    BY <1>1, <1>2
  <2>3. D = E <=> \A m \in 1..Len(A) : D[m] = E[m]
    BY <2>1, <2>2
  <2>4. D = E <=> \A m \in 1..Len(A) : A[m] = B[m]
    BY <2>1, <2>2, <2>3
  <2> HIDE DEF D, E
  <2> QED
    BY <1>2, <2>4 DEF IsPrefix, Begins, D, E
<1> QED
  BY <1>2 DEF IsPrefix, Begins

(* Where a path lies within another, so do their strings. *)
LEMMA PathWithin ==
    ASSUME NEW C, NEW q \in Seq(C), NEW n \in Seq(C), Begins(Segments(q), Segments(n))
    PROVE  Begins(q, n)
<1> DEFINE S == {i \in Nat : i <= Len(q) => i <= Len(n) /\ \A m \in 1..i : q[m] = n[m]}
<1>0. /\ Len(q) \in Nat /\ Len(n) \in Nat
      /\ Segments(q) \in Seq(Seq(C)) /\ Segments(n) \in Seq(Seq(C))
  BY PathsType DEF Segments
<1>1. 0 \in S
  BY <1>0
<1>2. ASSUME NEW i \in Nat, i \in S PROVE i + 1 \in S
  <2> SUFFICES ASSUME i + 1 <= Len(q) PROVE i + 1 <= Len(n) /\ q[i + 1] = n[i + 1]
    BY <1>0, <1>2
  <2> DEFINE P == Paths(q)[i]
             k == Len(P)
  <2>1. i < Len(q) /\ i <= Len(n) /\ \A m \in 1..i : q[m] = n[m]
    BY <1>0, <1>2
  <2>2. Paths(n)[i] = P
    BY <2>1, PathsAgree
  <2>3. P \in Seq(Seq(C)) /\ P # <<>>
    BY <1>0, <2>1, PathsType
  <2> HIDE DEF P
  <2>4. k \in Nat /\ k # 0 /\ k \in 1..k /\ P[k] \in Seq(C) /\ Len(P[k]) \in Nat
    BY <2>3
  <2>5. i = Len(n) => Segments(n) = P
    BY <2>2 DEF Segments
  <2>6. CASE q[i + 1] = Slash
    <3>1. Len(Segments(q)) > k /\ Segments(q)[k] = P[k]
      BY <2>1, <2>4, <2>6, SlashCloses DEF P
    <3>2. Len(Segments(n)) > k /\ Segments(n)[k] = P[k]
      BY <1>0, <2>4, <3>1 DEF Begins
    <3>3. i < Len(n)
      BY <1>0, <2>1, <2>4, <2>5, <3>2
    <3>4. ASSUME n[i + 1] # Slash PROVE FALSE
      <4>1. Begins(Append(P[k], n[i + 1]), P[k])
        BY <2>2, <3>2, <3>3, <3>4, CharStays
      <4>2. n[i + 1] \in C
        BY <1>0, <3>3
      <4>3. Len(Append(P[k], n[i + 1])) = Len(P[k]) + 1
        BY <2>4, <4>2
      <4> QED
        BY <2>4, <4>1, <4>3 DEF Begins
    <3> QED
      BY <1>0, <2>6, <3>3, <3>4
  <2>7. CASE q[i + 1] # Slash
    <3> DEFINE c == q[i + 1]
    <3>1. c \in C
      BY <1>0, <2>1
    <3>2. Len(Segments(q)) >= k /\ Begins(Append(P[k], c), Segments(q)[k])
      BY <2>1, <2>7, CharStays DEF P
    <3> HIDE DEF c
    <3>3. Len(Segments(n)) >= k /\ Segments(n)[k] = Segments(q)[k]
          /\ Segments(n)[k] \in Seq(C)
      BY <1>0, <2>4, <3>2, SMTT(30) DEF Begins
    <3>4. /\ Len(Append(P[k], c)) = Len(P[k]) + 1
          /\ Append(P[k], c)[Len(P[k]) + 1] = c
      BY <2>4, <3>1
    <3>5. Len(Segments(n)[k]) > Len(P[k]) /\ Segments(n)[k][Len(P[k]) + 1] = c
      BY <2>4, <3>2, <3>3, <3>4 DEF Begins
    <3>6. i < Len(n)
      BY <1>0, <2>1, <2>4, <2>5, <3>5
    <3>7. n[i + 1] # Slash
      <4>1. ASSUME n[i + 1] = Slash PROVE Segments(n)[k] = P[k]
        BY <2>2, <2>4, <3>6, <4>1, SlashCloses
      <4> QED
        BY <2>4, <3>5, <4>1
    <3>8. n[i + 1] \in C /\ Begins(Append(P[k], n[i + 1]), Segments(n)[k])
      BY <1>0, <2>2, <3>6, <3>7, CharStays
    <3>9. /\ Len(Append(P[k], n[i + 1])) = Len(P[k]) + 1
          /\ Append(P[k], n[i + 1])[Len(P[k]) + 1] = n[i + 1]
      BY <2>4, <3>8
    <3>10. Segments(n)[k][Len(P[k]) + 1] = n[i + 1]
      BY <2>4, <3>8, <3>9 DEF Begins
    <3> QED
      BY <1>0, <3>5, <3>6, <3>10 DEF c
  <2> QED
    BY <2>6, <2>7
<1>3. \A i \in Nat : i \in S
  <2> HIDE DEF S
  <2> QED
    BY <1>1, <1>2, NatsIn
<1> QED
  BY <1>0, <1>3 DEF Begins

(* A path lies within another just when its string is the whole other one   *)
(* or continues there with a slash.                                         *)
LEMMA WithinAtSlash ==
    ASSUME NEW C, NEW q \in Seq(C), NEW n \in Seq(C)
    PROVE  /\ IsPrefix(Segments(q), Segments(n)) <=>
                Begins(q, n) /\ (Len(n) = Len(q) \/ n[Len(q) + 1] = Slash)
           /\ IsStrictPrefix(Segments(q), Segments(n)) <=>
                Begins(q, n) /\ Len(n) > Len(q) /\ n[Len(q) + 1] = Slash
<1> DEFINE P == Segments(q)
           k == Len(P)
<1>1. /\ Len(q) \in Nat /\ Len(n) \in Nat
      /\ P \in Seq(Seq(C)) /\ P # <<>> /\ Segments(n) \in Seq(Seq(C))
  BY PathsType DEF Segments
<1>2. Begins(q, n) => Paths(n)[Len(q)] = P /\ Len(q) <= Len(n)
  BY <1>1, PathsAgree DEF Begins, Segments
<1>3. ASSUME Begins(q, n), Len(n) = Len(q) PROVE Segments(n) = P
  BY <1>2, <1>3 DEF Segments
<1> HIDE DEF P
<1>4. k \in Nat /\ k # 0 /\ k \in 1..k /\ P[k] \in Seq(C) /\ Len(P[k]) \in Nat
  BY <1>1
<1>5. ASSUME Begins(q, n), Len(n) > Len(q), n[Len(q) + 1] = Slash
      PROVE  Begins(P, Segments(n)) /\ Segments(n) # P
  <2>1. Len(Segments(n)) > k /\ \A m \in 1..k : Segments(n)[m] = P[m]
    <3>1. Paths(n)[Len(q)] = P /\ Len(q) < Len(n)
      BY <1>1, <1>2, <1>5
    <3>2. /\ Len(Segments(n)) > Len(Paths(n)[Len(q)])
          /\ \A m \in 1..Len(Paths(n)[Len(q)]) : Segments(n)[m] = Paths(n)[Len(q)][m]
      BY <1>1, <1>5, <3>1, SlashCloses
    <3> QED
      BY <3>1, <3>2
  <2> QED
    BY <1>1, <1>4, <2>1 DEF Begins
<1>6. ASSUME Begins(P, Segments(n)), Len(n) # Len(q), n[Len(q) + 1] # Slash PROVE FALSE
  <2>1. Begins(q, n) /\ Len(q) < Len(n) /\ n[Len(q) + 1] \in C
    <3>1. Begins(q, n)
      BY <1>6, PathWithin DEF P
    <3> QED
      BY <1>1, <1>2, <1>6, <3>1
  <2>2. Begins(Append(P[k], n[Len(q) + 1]), Segments(n)[k])
    BY <1>1, <1>2, <1>6, <2>1, CharStays
  <2>3. Segments(n)[k] = P[k]
    BY <1>4, <1>6 DEF Begins
  <2>4. Len(Append(P[k], n[Len(q) + 1])) = Len(P[k]) + 1
    BY <1>4, <2>1
  <2> QED
    BY <1>4, <2>2, <2>3, <2>4 DEF Begins
<1>7. Begins(P, Segments(n)) => Begins(q, n)
  BY PathWithin DEF P
<1>8. Begins(P, P)
  BY <1>1 DEF Begins
<1>9. IsPrefix(P, Segments(n)) <=> Begins(P, Segments(n))
  BY <1>1, PrefixBegins
<1>10. Begins(q, n) /\ Len(n) # Len(q) => Len(n) > Len(q)
  BY <1>1 DEF Begins
<1>11. ASSUME Begins(P, Segments(n)), P # Segments(n) PROVE Len(n) # Len(q)
  BY <1>3, <1>7, <1>11
<1>12. Begins(P, Segments(n)) <=>
         Begins(q, n) /\ (Len(n) = Len(q) \/ n[Len(q) + 1] = Slash)
  BY <1>3, <1>5, <1>6, <1>7, <1>8, <1>10
<1>13. Begins(P, Segments(n)) /\ P # Segments(n) <=>
         Begins(q, n) /\ Len(n) > Len(q) /\ n[Len(q) + 1] = Slash
  BY <1>5, <1>10, <1>11, <1>12
<1> QED
  BY <1>9, <1>12, <1>13 DEF IsStrictPrefix, P

(* All but the last character. *)
LEMMA FrontOf ==
    ASSUME NEW C, NEW q \in Seq(C), q # <<>>
    PROVE  /\ Front(q) \in Seq(C) /\ Len(q) \in Nat /\ Len(Front(q)) = Len(q) - 1
           /\ \A m \in 1..(Len(q) - 1) : Front(q)[m] = q[m]
  BY SMTT(30) DEF Front

(* The last segment of a nonempty string is empty just when it ends in a    *)
(* slash; the others are then those of what is before that slash.           *)
LEMMA LastSegment ==
    ASSUME NEW C, NEW q \in Seq(C), q # <<>>
    PROVE  /\ Last(Segments(q)) = <<>> <=> Last(q) = Slash
           /\ Last(q) = Slash => Front(Segments(q)) = Segments(Front(q))
<1> DEFINE i == Len(q) - 1
           P == Paths(q)[i]
           c == q[i + 1]
<1>1. Len(q) \in Nat /\ i \in Nat /\ i + 1 = Len(q) /\ c \in C /\ Last(q) = c
  BY DEF Last
<1>2. P \in Seq(Seq(C)) /\ P # <<>>
  BY <1>1, PathsType
<1>3. Segments(q) = Extend(P, c)
  BY <1>1, PathsRun DEF Segments
<1>4. Front(q) \in Seq(C) /\ Len(Front(q)) = i /\ \A m \in 1..i : Front(q)[m] = q[m]
  BY FrontOf
<1>5. Segments(Front(q)) = P
  <2>1. Paths(Front(q))[i] = Paths(q)[i]
    BY <1>1, <1>4, PathsAgree
  <2> QED
    BY <1>4, <2>1 DEF Segments
<1> HIDE DEF P, c, i
<1>6. Len(P) \in Nat /\ Len(P) # 0 /\ P[Len(P)] \in Seq(C)
  BY <1>2
<1>7. CASE c = Slash
  <2>1. Segments(q) = Append(P, <<>>)
    BY <1>3, <1>7 DEF Extend
  <2>2. Append(P, <<>>)[Len(Append(P, <<>>))] = <<>>
    BY <1>2
  <2>3. SubSeq(Append(P, <<>>), 1, Len(Append(P, <<>>)) - 1) = P
    BY <1>2
  <2> QED
    BY <1>1, <1>5, <1>7, <2>1, <2>2, <2>3 DEF Last, Front
<1>8. CASE c # Slash
  <2>1. Last(Segments(q)) = Append(P[Len(P)], c)
    <3>1. Len(Extend(P, c)) = Len(P) /\ Extend(P, c)[Len(P)] = Append(P[Len(P)], c)
      BY <1>1, <1>2, <1>8, ExtendBy
    <3> QED
      BY <1>3, <3>1 DEF Last
  <2>2. Append(P[Len(P)], c) # <<>>
    BY <1>1, <1>6
  <2> QED
    BY <1>1, <1>8, <2>1, <2>2
<1> QED
  BY <1>7, <1>8

(* The prefix test of access_resource_matches is membership in the subtree  *)
(* that the pattern's path names, for strings of any length: a pattern      *)
(* prefix* never reaches a sibling whose name only begins alike.            *)
THEOREM StarIsSubtree ==
    ASSUME NEW C, NEW prefix \in Seq(C), prefix # <<>>, NEW name \in Seq(C)
    PROVE  StarMatches(prefix, name) <=> Subtree(prefix, name)
<1>1. IsPrefix(prefix, name) <=> Begins(prefix, name)
  BY PrefixBegins
<1>2. Len(prefix) \in Nat /\ Len(prefix) # 0 /\ Len(name) \in Nat
  OBVIOUS
<1>3. CASE Last(prefix) # Slash
  <2>1. Subtree(prefix, name) <=> IsPrefix(Segments(prefix), Segments(name))
    BY <1>3, LastSegment DEF Subtree
  <2>2. StarMatches(prefix, name) <=>
          Begins(prefix, name) /\ (Len(name) = Len(prefix) \/ name[Len(prefix) + 1] = Slash)
    BY <1>1, <1>3 DEF StarMatches
  <2> QED
    BY <2>1, <2>2, WithinAtSlash
<1>4. CASE Last(prefix) = Slash
  <2> DEFINE q == Front(prefix)
  <2>1. /\ q \in Seq(C) /\ Len(q) + 1 = Len(prefix) /\ Len(q) \in Nat
        /\ \A m \in 1..Len(q) : q[m] = prefix[m]
    BY <1>2, FrontOf
  <2>2. prefix[Len(q) + 1] = Slash
    BY <1>4, <2>1 DEF Last
  <2>3. Subtree(prefix, name) <=> IsStrictPrefix(Segments(q), Segments(name))
    BY <1>4, LastSegment DEF Subtree
  <2> HIDE DEF q
  <2>4. Begins(prefix, name) <=>
          Begins(q, name) /\ Len(name) > Len(q) /\ name[Len(q) + 1] = Slash
    <3>1. ASSUME Begins(prefix, name)
          PROVE  Begins(q, name) /\ Len(name) > Len(q) /\ name[Len(q) + 1] = Slash
      BY <1>2, <2>1, <2>2, <3>1 DEF Begins
    <3>2. ASSUME Begins(q, name), Len(name) > Len(q), name[Len(q) + 1] = Slash
          PROVE  Begins(prefix, name)
      BY <1>2, <2>1, <2>2, <3>2, SMTT(30) DEF Begins
    <3> QED
      BY <3>1, <3>2
  <2>5. StarMatches(prefix, name) <=> Begins(prefix, name)
    BY <1>1, <1>4 DEF StarMatches
  <2> QED
    BY <2>1, <2>3, <2>4, <2>5, WithinAtSlash
<1> QED
  BY <1>3, <1>4

-----------------------------------------------------------------------------
(* Authorisation *)

(* What an entry of a scope allows is what it covers. *)
LEMMA AllowsIsCovers ==
    ASSUME NEW e \in Entry, NEW r \in Request, r.act # NoColon \/ r.res # <<>>
    PROVE  access_one_scope_allows(e, r) <=> Covers(e, r)
<1>1. /\ e = [act |-> e.act, res |-> e.res] /\ r = [act |-> r.act, res |-> r.res]
      /\ e.res \in Seq(Chars) /\ r.res \in Seq(Chars)
  BY TokensAssumption DEF Entry, Request
<1>2. r # [act |-> NoColon, res |-> <<>>]
  <2>1. r = [act |-> NoColon, res |-> <<>>] => r.act = NoColon /\ r.res = <<>>
    OBVIOUS
  <2> QED
    BY <2>1
<1>3. e = [act |-> NoColon, res |-> <<Star>>] <=> e.act = NoColon /\ e.res = <<Star>>
  <2>1. e = [act |-> NoColon, res |-> <<Star>>] => e.act = NoColon /\ e.res = <<Star>>
    OBVIOUS
  <2> QED
    BY <1>1, <2>1
<1>4. CASE e.act = NoColon
  BY <1>2, <1>3, <1>4 DEF access_one_scope_allows, Covers
<1>5. CASE e.act # NoColon
  <2>1. Len(e.res) > 1 => StarMatches(Front(e.res), r.res) <=> Subtree(Front(e.res), r.res)
    <3> SUFFICES ASSUME Len(e.res) > 1
                 PROVE  StarMatches(Front(e.res), r.res) <=> Subtree(Front(e.res), r.res)
      OBVIOUS
    <3>1. Front(e.res) \in Seq(Chars) /\ Front(e.res) # <<>>
      <4>1. e.res # <<>>
        BY <1>1
      <4>2. Front(e.res) \in Seq(Chars) /\ Len(Front(e.res)) = Len(e.res) - 1 /\ Len(e.res) \in Nat
        BY <1>1, <4>1, FrontOf
      <4> QED
        BY <4>2
    <3> QED
      BY <1>1, <3>1, StarIsSubtree
  <2>2. Len(e.res) > 1 => e.res # <<>>
    BY <1>1
  <2> QED
    BY <1>3, <1>5, <2>1, <2>2
       DEF access_one_scope_allows, access_resource_matches, Covers
<1> QED
  BY <1>4, <1>5

(* access_scope_allows grants exactly the paths an entry of a scope names,  *)
(* whatever the scope, the request and their lengths.                       *)
THEOREM GrantsAreExact == GrantsExactly
<1> SUFFICES ASSUME NEW e \in Entry, NEW r \in Request
             PROVE  access_scope_allows(<<e>>, r) <=> Covers(e, r)
  BY DEF GrantsExactly
<1>1. access_scope_allows(<<e>>, r) <=>
        (r.act # NoColon \/ r.res # <<>>) /\ access_one_scope_allows(e, r)
  <2>1. DOMAIN <<e>> = {1} /\ <<e>>[1] = e
    OBVIOUS
  <2> QED
    BY <2>1 DEF access_scope_allows
<1>2. CASE r.act # NoColon \/ r.res # <<>>
  BY <1>1, <1>2, AllowsIsCovers
<1>3. CASE r.act = NoColon /\ r.res = <<>>
  <2>1. r = [act |-> NoColon, res |-> <<>>]
    BY <1>3 DEF Request
  <2> QED
    BY <1>1, <1>3, <2>1 DEF Covers
<1> QED
  BY <1>2, <1>3

(* The property of the runs: a grant is a subtree. *)
THEOREM GrantIsSubtreeHolds == Spec => []GrantIsSubtree
<1>1. GrantIsSubtree
  BY GrantsAreExact DEF GrantIsSubtree
<1> QED
  BY <1>1, PTL

(* What access_scope_allows lets a command do, an entry of the scope covers. *)
LEMMA AllowedIsCovered ==
    ASSUME NEW scope \in Scopes, NEW asked \in Asked,
           access_scope_allows(scope, RequestOf(asked.cmd, asked.name))
    PROVE  \E i \in DOMAIN scope :
             Covers(scope[i], [act |-> Effect[asked.cmd], res |-> asked.name])
<1> DEFINE r == [act |-> Effect[asked.cmd], res |-> asked.name]
<1>1. asked.cmd \in Commands /\ asked.name \in Names
  BY DEF Asked
<1>2. RequestOf(asked.cmd, asked.name) = r
  BY <1>1 DEF RequestOf, Effect, Commands, cli_run_put, cli_run_generate, cli_run_get,
              cli_run_totp, cli_run_delete, cli_run_rollback, cli_required_scope
<1>3. r \in Request /\ r.act # NoColon
  <2>1. Effect[asked.cmd] \in Actions
    BY <1>1 DEF Effect, Commands, Actions
  <2> QED
    BY <1>1, <2>1, TokensAssumption DEF Request
<1> HIDE DEF r
<1>4. PICK i \in DOMAIN scope : access_one_scope_allows(scope[i], r)
  BY <1>2 DEF access_scope_allows
<1>5. scope[i] \in Entry
  BY TokensAssumption
<1>6. Covers(scope[i], r)
  BY <1>3, <1>4, <1>5, AllowsIsCovers
<1> QED
  BY <1>6 DEF r

(* A command that runs on a token does what an entry of the token's scope   *)
(* grants: the six cli_run_ functions ask for what they do, the claims and  *)
(* the request at hand stay those that access_verify_token compared, an     *)
(* authorisation ends with its command, and a starred entry reaches its own *)
(* subtree only.                                                            *)
THEOREM AuthorisedIsCoveredHolds == Spec => []AuthorisedIsCovered
<1>1. TokenInv => AuthorisedIsCovered
  <2> SUFFICES ASSUME TokenInv, NEW p \in Procs, auth[p] # None
               PROVE  \E i \in DOMAIN auth[p].tok.scope :
                        Covers(auth[p].tok.scope[i],
                               [act |-> Effect[auth[p].asked.cmd], res |-> auth[p].asked.name])
    BY DEF AuthorisedIsCovered
  <2>1. /\ auth[p].tok \in signed /\ signed \subseteq Token /\ auth[p].asked \in Asked
        /\ access_scope_allows(auth[p].tok.scope,
                               RequestOf(auth[p].asked.cmd, auth[p].asked.name))
    BY DEF TokenInv, TypeOK, TokenAtHand, Granted
  <2>2. auth[p].tok.scope \in Scopes
    BY <2>1 DEF Token
  <2> QED
    BY <2>1, <2>2, AllowedIsCovered
<1> QED
  BY <1>1, TokenInvariant, PTL
=============================================================================
