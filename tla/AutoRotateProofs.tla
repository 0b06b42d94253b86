-------------------------- MODULE AutoRotateProofs --------------------------
(***************************************************************************)
(* `fuin auto-rotate` next to any number of writers: no version beyond     *)
(* INT_MAX, and every re-keyed version continues one that had expired.     *)
(***************************************************************************)
EXTENDS AutoRotate, TLAPS

(* What a writer has at hand between its readings and its transaction. *)
WriteAtHand(l) ==
    /\ l.name \in Names /\ l.val \in Values /\ l.ttl \in Ttls
    /\ l.new \in 1..IntMax

(* The loop has picked version src of its secret, expired at its clock      *)
(* reading; whatever came on top of it was committed since.                 *)
Expired(l) ==
    /\ l.name \in Names /\ l.ttl \in Ttls
    /\ l.src \in DOMAIN hist[l.name]
    /\ LET old == hist[l.name][l.src] IN
       old.ttl = l.ttl /\ old.exp # 0 /\ old.exp <= l.now
    /\ \A k \in (l.src + 1)..Len(hist[l.name]) : hist[l.name][k].at >= l.now

Fields == {"start", "name", "src", "ttl", "now", "val", "new"}

(* Each step of an operation relies on what the earlier ones read. *)
AtHand(p) ==
    LET l == loc[p] IN
    /\ DOMAIN l = Fields
    /\ l.now \in 0..clock
    /\ pc[p] = "metadata" => l.name \in Names
    /\ pc[p] = "write" => WriteAtHand(l)
    /\ pc[p] \in {"decrypt", "bounds", "txn"} => Expired(l)
    /\ pc[p] \in {"bounds", "txn"} => l.val = hist[l.name][l.src].val
    /\ pc[p] = "txn" => l.new \in 1..IntMax

(* Version i of a history continues an expired one, as RekeysExpired says.  *)
Continues(h, i) ==
    /\ \E j \in 1..(i - 1) :
         /\ h[j].val = h[i].val /\ h[j].ttl = h[i].ttl
         /\ h[j].exp # 0 /\ h[j].exp <= h[i].born
         /\ \A k \in (j + 1)..(i - 1) : h[k].rekeyed \/ h[k].at >= h[i].born
    /\ h[i].exp # 0 => h[i].exp > h[i].born

RekeyInv ==
    /\ TypeOK
    /\ hist \in [Names -> Seq(Versions)] /\ DOMAIN live = Names
    /\ RekeysExpired
    /\ \A p \in Procs : AtHand(p)

-----------------------------------------------------------------------------
(* A version appended to a history is its last; the older ones stay. *)
LEMMA AppendProperties ==
    ASSUME NEW s \in Seq(Versions), NEW v \in Versions
    PROVE  /\ Append(s, v) \in Seq(Versions) /\ Append(s, v) # <<>>
           /\ Len(Append(s, v)) = Len(s) + 1
           /\ Append(s, v)[Len(s) + 1] = v
           /\ \A k \in 1..Len(s) : Append(s, v)[k] = s[k]
  OBVIOUS

(* A version of a history, and its fields. *)
LEMMA VersionFields ==
    ASSUME NEW s \in Seq(Versions), NEW i \in DOMAIN s
    PROVE  s[i].val \in Values /\ s[i].ttl \in Ttls
<1>1. s[i] \in Versions
  OBVIOUS
<1> QED
  BY <1>1 DEF Versions

(* The locals of an operation that does not write stay valid while others   *)
(* only read and the clock does not go back.                                *)
LEMMA AtHandKept ==
    ASSUME NEW q \in Procs, AtHand(q), UNCHANGED hist, clock' \in Nat, clock \in Nat,
           clock' >= clock, loc'[q] = loc[q], pc'[q] = pc[q]
    PROVE  AtHand(q)'
  BY DEF AtHand, Expired, WriteAtHand

(* A new version on top of a history is committed after every reading that  *)
(* an operation in progress has made.                                       *)
LEMMA AtHandAppend ==
    ASSUME RekeyInv, NEW q \in Procs, NEW n \in Names, NEW v \in Versions,
           v.at = clock, hist' = [hist EXCEPT ![n] = Append(@, v)],
           UNCHANGED clock, loc'[q] = loc[q], pc'[q] = pc[q]
    PROVE  AtHand(q)'
<1>1. /\ hist[n] \in Seq(Versions) /\ hist \in [Names -> Seq(Versions)]
      /\ clock \in Nat /\ AtHand(q)
  BY AutoRotateAssumption DEF RekeyInv, TypeOK
<1>2. /\ Len(hist'[n]) = Len(hist[n]) + 1 /\ hist'[n][Len(hist[n]) + 1] = v
      /\ \A k \in 1..Len(hist[n]) : hist'[n][k] = hist[n][k]
      /\ hist'[n] \in Seq(Versions)
      /\ \A m \in Names : m # n => hist'[m] = hist[m]
  BY <1>1, AppendProperties
<1>3. ASSUME Expired(loc[q])
      PROVE  Expired(loc[q])' /\ hist'[loc[q].name][loc[q].src] = hist[loc[q].name][loc[q].src]
  <2> DEFINE l == loc[q]
  <2>1. CASE l.name # n
    BY <1>2, <1>3, <2>1 DEF Expired
  <2>2. CASE l.name = n
    <3>1. l.src \in 1..Len(hist[n]) /\ l.src \in DOMAIN hist'[n]
      BY <1>1, <1>2, <1>3, <2>2 DEF Expired
    <3>2. hist'[n][l.src] = hist[n][l.src]
      BY <1>2, <3>1
    <3>3. ASSUME NEW k \in (l.src + 1)..Len(hist'[n]) PROVE hist'[n][k].at >= l.now
      <4>1. CASE k = Len(hist[n]) + 1
        BY <1>1, <1>2, <4>1 DEF AtHand
      <4>2. CASE k # Len(hist[n]) + 1
        <5>1. k \in (l.src + 1)..Len(hist[n]) /\ k \in 1..Len(hist[n])
          BY <1>1, <1>2, <3>1, <4>2
        <5> QED
          BY <1>2, <1>3, <2>2, <5>1 DEF Expired
      <4> QED
        BY <4>1, <4>2
    <3> QED
      BY <1>3, <2>2, <3>1, <3>2, <3>3 DEF Expired
  <2> QED
    BY <2>1, <2>2
<1> QED
  BY <1>1, <1>3 DEF AtHand, WriteAtHand

(* A step that changes only the control of its process. *)
LEMMA MoveKept ==
    ASSUME RekeyInv, NEW p \in Procs, NEW l,
           NEW step \in {"idle", "find", "metadata", "decrypt", "bounds", "txn", "write"},
           Goto(p, step, l), UNCHANGED <<clock, hist, live>>, AtHand(p)'
    PROVE  RekeyInv'
<1>1. TypeOK'
  BY DEF RekeyInv, TypeOK, Goto
<1>2. ASSUME NEW q \in Procs, q # p PROVE AtHand(q)'
  <2>1. loc'[q] = loc[q] /\ pc'[q] = pc[q]
    BY <1>2 DEF RekeyInv, TypeOK, Goto
  <2> QED
    BY <2>1, AtHandKept, AutoRotateAssumption DEF RekeyInv, TypeOK
<1>3. RekeysExpired'
  BY DEF RekeyInv, RekeysExpired, Rekeyed
<1> QED
  BY <1>1, <1>2, <1>3 DEF RekeyInv

(* The transaction of a version: of a put or rollback, or of a re-keying    *)
(* that has its expired source at hand.                                     *)
LEMMA WriteKept ==
    ASSUME RekeyInv, NEW p \in Procs, NEW rekeyed \in BOOLEAN, Write(p, rekeyed),
           WriteAtHand(loc[p]),
           rekeyed => Expired(loc[p]) /\ loc[p].val = hist[loc[p].name][loc[p].src].val,
           NEW l, l.now = 0, DOMAIN l = Fields,
           NEW step \in {"idle", "find"}, Goto(p, step, l)
    PROVE  RekeyInv'
<1> DEFINE n == loc[p].name
<1>1. PICK later \in loc[p].now..clock :
         hist' = [hist EXCEPT ![n] = Append(@, Version(loc[p].val, loc[p].ttl,
                                                       loc[p].now, later, rekeyed))]
  BY DEF Write
<1> DEFINE v == Version(loc[p].val, loc[p].ttl, loc[p].now, later, rekeyed)
<1>2. /\ n \in Names /\ loc[p].now \in Nat /\ clock \in Nat /\ later \in Nat
      /\ loc[p].ttl \in Nat /\ loc[p].now <= later
      /\ hist \in [Names -> Seq(Versions)] /\ hist[n] \in Seq(Versions)
  <2>1. clock \in Nat /\ loc[p].now \in 0..clock /\ n \in Names /\ loc[p].ttl \in Nat
    <3>1. clock \in Nat /\ AtHand(p)
      BY AutoRotateAssumption DEF RekeyInv, TypeOK
    <3>2. loc[p].now \in 0..clock
      BY <3>1 DEF AtHand
    <3>3. n \in Names /\ loc[p].ttl \in Ttls
      BY DEF WriteAtHand
    <3> QED
      BY <3>1, <3>2, <3>3, AutoRotateAssumption
  <2>2. later \in Nat /\ loc[p].now <= later /\ loc[p].now \in Nat
    BY <2>1
  <2>3. hist \in [Names -> Seq(Versions)]
    BY DEF RekeyInv
  <2>4. hist[n] \in Seq(Versions)
    BY <2>1, <2>3
  <2> QED
    BY <2>1, <2>2, <2>3, <2>4
<1>3. /\ v \in Versions /\ v.at = clock /\ v.rekeyed = rekeyed /\ v.born = loc[p].now
      /\ v.val = loc[p].val /\ v.ttl = loc[p].ttl
      /\ v.exp # 0 => v.exp > v.born
  <2>1. (IF loc[p].ttl = 0 THEN 0 ELSE later + loc[p].ttl) \in Nat
    BY <1>2
  <2>2. v \in Versions
    BY <1>2, <2>1 DEF Version, Versions, WriteAtHand
  <2> QED
    BY <1>2, <2>2 DEF Version
<1> HIDE DEF v
<1>4. /\ Len(hist'[n]) = Len(hist[n]) + 1 /\ hist'[n][Len(hist[n]) + 1] = v
      /\ \A k \in 1..Len(hist[n]) : hist'[n][k] = hist[n][k]
      /\ hist'[n] \in Seq(Versions) /\ hist'[n] # <<>>
      /\ \A m \in Names : m # n => hist'[m] = hist[m]
      /\ hist' \in [Names -> Seq(Versions)]
  <2>1. hist'[n] = Append(hist[n], v) /\ hist' \in [Names -> Seq(Versions)]
        /\ \A m \in Names : m # n => hist'[m] = hist[m]
    BY <1>1, <1>2, <1>3 DEF v
  <2>2. hist'[n] # <<>> /\ Len(hist'[n]) = Len(hist[n]) + 1
    BY <1>2, <1>3, <2>1, AppendProperties
  <2>3. hist'[n][Len(hist[n]) + 1] = v
    BY <1>2, <1>3, <2>1, AppendProperties
  <2>4. \A k \in 1..Len(hist[n]) : hist'[n][k] = hist[n][k]
    BY <1>2, <1>3, <2>1, AppendProperties
  <2> QED
    BY <1>2, <2>1, <2>2, <2>3, <2>4
<1>5. loc[p].new = Len(hist[n]) + 1 /\ clock' = clock /\ live' = [live EXCEPT ![n] = TRUE]
  BY DEF Write
<1>6. Len(hist'[n]) <= IntMax
  BY <1>4, <1>5 DEF WriteAtHand
<1>7. TypeOK' /\ DOMAIN live' = Names
  BY <1>4, <1>5, <1>6 DEF RekeyInv, TypeOK, Goto
<1>8. ASSUME NEW q \in Procs PROVE AtHand(q)'
  <2>1. CASE q = p
    BY <2>1, <1>2, <1>5 DEF RekeyInv, TypeOK, AtHand, Goto
  <2>2. CASE q # p
    <3>1. loc'[q] = loc[q] /\ pc'[q] = pc[q]
      BY <2>2 DEF RekeyInv, TypeOK, Goto
    <3> QED
      BY <3>1, <1>1, <1>2, <1>3, <1>5, AtHandAppend DEF v
  <2> QED
    BY <2>1, <2>2
<1>9. RekeysExpired'
  <2>1. ASSUME NEW m \in Names, NEW i \in DOMAIN hist[m], hist[m][i].rekeyed
        PROVE  Continues(hist[m], i)
    <3>1. i \in Rekeyed(m)
      BY <2>1 DEF Rekeyed
    <3> QED
      BY <3>1 DEF RekeyInv, RekeysExpired, Continues
  <2>2. ASSUME NEW m \in Names, NEW i \in DOMAIN hist'[m], hist'[m][i].rekeyed
        PROVE  Continues(hist'[m], i)
    <3>1. CASE m # n
      BY <1>4, <2>1, <2>2, <3>1
    <3>2. CASE m = n /\ i \in 1..Len(hist[n])
      <4>1. Continues(hist[n], i)
        <5>1. hist'[n][i] = hist[n][i] /\ i \in DOMAIN hist[n]
          BY <1>2, <1>4, <3>2
        <5>2. hist[n][i].rekeyed
          BY <2>2, <3>2, <5>1
        <5> QED
          BY <1>2, <2>1, <5>1, <5>2
      <4>2. \A k \in 1..i : hist'[n][k] = hist[n][k]
        BY <1>2, <1>4, <3>2
      <4> QED
        <5>1. Len(hist[n]) \in Nat /\ i \in Nat
          BY <1>2, <3>2
        <5>2. PICK j \in 1..(i - 1) :
                 /\ hist[n][j].val = hist[n][i].val /\ hist[n][j].ttl = hist[n][i].ttl
                 /\ hist[n][j].exp # 0 /\ hist[n][j].exp <= hist[n][i].born
                 /\ \A k \in (j + 1)..(i - 1) :
                      hist[n][k].rekeyed \/ hist[n][k].at >= hist[n][i].born
          BY <4>1 DEF Continues
        <5>3. hist'[n][j] = hist[n][j] /\ hist'[n][i] = hist[n][i]
          BY <4>2, <5>1, <3>2
        <5>4. \A k \in (j + 1)..(i - 1) : hist'[n][k] = hist[n][k]
          BY <4>2, <5>1
        <5>5. /\ hist'[n][j].val = hist'[n][i].val /\ hist'[n][j].ttl = hist'[n][i].ttl
              /\ hist'[n][j].exp # 0 /\ hist'[n][j].exp <= hist'[n][i].born
          BY <5>2, <5>3
        <5>6. \A k \in (j + 1)..(i - 1) :
                 hist'[n][k].rekeyed \/ hist'[n][k].at >= hist'[n][i].born
          BY <5>2, <5>3, <5>4
        <5>7. hist'[n][i].exp # 0 => hist'[n][i].exp > hist'[n][i].born
          BY <4>1, <5>3 DEF Continues
        <5>8. Continues(hist'[n], i)
          BY <5>5, <5>6, <5>7, Zenon DEF Continues
        <5> QED
          BY <3>2, <5>8
    <3>3. CASE m = n /\ i = Len(hist[n]) + 1
      <4>1. hist'[n][i] = v /\ rekeyed
        BY <1>3, <1>4, <2>2, <3>3
      <4>2. Expired(loc[p]) /\ loc[p].val = hist[n][loc[p].src].val
        BY <4>1
      <4> DEFINE j == loc[p].src
      <4>3. /\ j \in 1..Len(hist[n]) /\ j \in 1..(i - 1) /\ hist'[n][j] = hist[n][j]
            /\ Len(hist[n]) \in Nat /\ i - 1 = Len(hist[n])
        <5>1. j \in DOMAIN hist[n] /\ Len(hist[n]) \in Nat
          BY <1>2, <4>2 DEF Expired
        <5>2. j \in 1..Len(hist[n])
          BY <1>2, <5>1
        <5> QED
          BY <1>4, <3>3, <5>1, <5>2
      <4>4. /\ hist[n][j].val = v.val /\ hist[n][j].ttl = v.ttl
            /\ hist[n][j].exp # 0 /\ hist[n][j].exp <= v.born
        BY <1>3, <4>2 DEF Expired
      <4>5. ASSUME NEW k \in (j + 1)..(i - 1) PROVE hist'[n][k].at >= v.born
        <5>1. k \in (j + 1)..Len(hist[n]) /\ k \in 1..Len(hist[n])
          BY <4>3
        <5>2. hist[n][k].at >= loc[p].now
          BY <4>2, <5>1 DEF Expired
        <5> QED
          BY <1>3, <1>4, <5>1, <5>2
      <4> HIDE DEF j
      <4> QED
        <5>1. /\ hist'[n][j].val = hist'[n][i].val /\ hist'[n][j].ttl = hist'[n][i].ttl
              /\ hist'[n][j].exp # 0 /\ hist'[n][j].exp <= hist'[n][i].born
          BY <4>1, <4>3, <4>4
        <5>2. \A k \in (j + 1)..(i - 1) : hist'[n][k].at >= hist'[n][i].born
          BY <4>1, <4>5
        <5>3. hist'[n][i].exp # 0 => hist'[n][i].exp > hist'[n][i].born
          BY <1>3, <4>1
        <5>4. Continues(hist'[n], i)
          BY <4>3, <5>1, <5>2, <5>3, Zenon DEF Continues
        <5> QED
          BY <3>3, <5>4
    <3> QED
      BY <1>2, <1>4, <2>2, <3>1, <3>2, <3>3
  <2> QED
    BY <2>2 DEF RekeysExpired, Rekeyed, Continues
<1> QED
  BY <1>4, <1>7, <1>8, <1>9 DEF RekeyInv

-----------------------------------------------------------------------------
(* The steps *)

(* The cleared locals, with or without the loop's clock reading. *)
LEMMA NoLocalsFields ==
    /\ NoLocals.now = 0 /\ DOMAIN NoLocals = Fields
    /\ \A t : LET l == [NoLocals EXCEPT !.start = t] IN l.now = 0 /\ DOMAIN l = Fields
  BY DEF NoLocals, Fields

(* Locals at the end of an operation, or at the head of the loop. *)
LEMMA ClearedKept ==
    ASSUME RekeyInv, NEW p \in Procs, UNCHANGED <<clock, hist, live>>,
           Return(p) \/ Again(p)
    PROVE  RekeyInv'
<1>1. ASSUME NEW l, l.now = 0, DOMAIN l = Fields, NEW step \in {"idle", "find"},
             Goto(p, step, l)
      PROVE  RekeyInv'
  <2>1. loc'[p] = l /\ pc'[p] = step
    BY <1>1 DEF Goto, RekeyInv, TypeOK
  <2>2. clock' \in Nat
    BY AutoRotateAssumption DEF RekeyInv, TypeOK
  <2>3. AtHand(p)'
    BY <1>1, <2>1, <2>2 DEF AtHand
  <2> QED
    BY <1>1, <2>3, MoveKept
<1>2. CASE Return(p)
  BY <1>1, <1>2, NoLocalsFields DEF Return
<1>3. CASE Again(p)
  BY <1>1, <1>3, NoLocalsFields DEF Again
<1> QED
  BY <1>2, <1>3

(* The last version of a live secret. *)
LEMMA LiveLast ==
    ASSUME RekeyInv, NEW n \in Names, live[n]
    PROVE  /\ Len(hist[n]) \in DOMAIN hist[n] /\ Len(hist[n]) \in Nat \ {0}
           /\ Last(hist[n]) = hist[n][Len(hist[n])]
           /\ Last(hist[n]) \in Versions
<1>1. hist[n] \in Seq(Versions) /\ hist[n] # <<>>
  BY DEF RekeyInv, TypeOK
<1> QED
  BY <1>1 DEF Last

(* Put, rollback and delete, and the passing of time. *)
LEMMA WritersKept ==
    ASSUME RekeyInv
    PROVE  /\ Tick => RekeyInv'
           /\ \A p \in Procs, n \in Names :
                /\ \A x \in Values, ttl \in Ttls : Put(p, n, x, ttl) => RekeyInv'
                /\ \A i \in 1..IntMax : Rollback(p, n, i) => RekeyInv'
                /\ Delete(p, n) => RekeyInv'
<1>1. ASSUME Tick PROVE RekeyInv'
  <2>1. TypeOK' /\ clock \in Nat /\ clock' \in Nat /\ clock' >= clock
    BY <1>1, AutoRotateAssumption DEF RekeyInv, TypeOK, Tick
  <2>2. ASSUME NEW q \in Procs PROVE AtHand(q)'
    BY <1>1, <2>1, AtHandKept DEF RekeyInv, Tick
  <2>3. RekeysExpired'
    BY <1>1 DEF RekeyInv, RekeysExpired, Rekeyed, Tick
  <2> QED
    BY <1>1, <2>1, <2>2, <2>3 DEF RekeyInv, Tick
<1>2. ASSUME NEW p \in Procs, NEW n \in Names, NEW x \in Values, NEW ttl \in Ttls,
             WriteStart(p, n, x, ttl)
      PROVE  RekeyInv'
  <2> DEFINE l == [NoLocals EXCEPT !.name = n, !.val = x, !.ttl = ttl,
                                   !.now = clock, !.new = Len(hist[n]) + 1]
  <2>1. /\ l.name = n /\ l.val = x /\ l.ttl = ttl /\ l.now = clock
        /\ l.new = Len(hist[n]) + 1 /\ DOMAIN l = Fields
    BY DEF NoLocals, Fields
  <2>2. Goto(p, "write", l) /\ UNCHANGED <<clock, hist, live>>
    BY <1>2 DEF WriteStart
  <2> HIDE DEF l
  <2>3. clock \in Nat /\ Len(hist[n]) \in Nat /\ Len(hist[n]) < IntMax
    BY <1>2, AutoRotateAssumption DEF RekeyInv, TypeOK, WriteStart
  <2>4. loc'[p] = l /\ pc'[p] = "write"
    BY <2>2 DEF Goto, RekeyInv, TypeOK
  <2>5. AtHand(p)'
    BY <2>1, <2>2, <2>3, <2>4, AutoRotateAssumption DEF AtHand, WriteAtHand
  <2> QED
    BY <2>2, <2>5, MoveKept
<1>3. ASSUME NEW p \in Procs, NEW n \in Names, NEW i \in 1..IntMax, Rollback(p, n, i)
      PROVE  RekeyInv'
  <2>1. hist[n] \in Seq(Versions) /\ i \in DOMAIN hist[n]
    BY <1>3 DEF RekeyInv, Rollback
  <2>2. hist[n][i].val \in Values /\ hist[n][i].ttl \in Ttls
    BY <2>1, VersionFields
  <2> QED
    BY <1>2, <1>3, <2>2 DEF Rollback, vault_get_version_ttl
<1>4. ASSUME NEW p \in Procs, NEW n \in Names, Delete(p, n) PROVE RekeyInv'
  <2>1. TypeOK' /\ DOMAIN live' = Names
    BY <1>4 DEF RekeyInv, TypeOK, Delete
  <2>2. ASSUME NEW q \in Procs PROVE AtHand(q)'
    BY <1>4, AtHandKept, AutoRotateAssumption DEF RekeyInv, TypeOK, Delete
  <2>3. RekeysExpired'
    BY <1>4 DEF RekeyInv, RekeysExpired, Rekeyed, Delete
  <2> QED
    BY <1>4, <2>1, <2>2, <2>3 DEF RekeyInv, Delete
<1> QED
  BY <1>1, <1>2, <1>3, <1>4 DEF Put

(* The loop up to its transaction: it reads, and keeps what it read. *)
LEMMA LoopKept ==
    ASSUME RekeyInv, NEW p \in Procs
    PROVE  /\ Start(p) => RekeyInv'
           /\ \A n \in Names : FindNext(p, n) => RekeyInv'
           /\ FindNone(p) => RekeyInv'
           /\ ReadMetadata(p) => RekeyInv'
           /\ Decrypt(p) => RekeyInv'
           /\ ReadBounds(p) => RekeyInv'
           /\ Fail(p) => RekeyInv'
<1>0. /\ clock \in Nat /\ AtHand(p) /\ loc[p].now \in 0..clock
      /\ \A step, l : Goto(p, step, l) => loc'[p] = l /\ pc'[p] = step
  BY AutoRotateAssumption DEF RekeyInv, TypeOK, AtHand, Goto
<1>1. ASSUME Start(p) PROVE RekeyInv'
  <2> DEFINE l == [NoLocals EXCEPT !.start = clock]
  <2>1. l.now = 0 /\ DOMAIN l = Fields
    BY NoLocalsFields
  <2>2. Goto(p, "find", l) /\ UNCHANGED <<clock, hist, live>>
    BY <1>1 DEF Start
  <2> HIDE DEF l
  <2>3. AtHand(p)'
    BY <1>0, <2>1, <2>2 DEF AtHand
  <2> QED
    BY <2>2, <2>3, MoveKept
<1>2. ASSUME NEW n \in Names, FindNext(p, n) PROVE RekeyInv'
  <2> DEFINE l == [loc[p] EXCEPT !.name = n, !.now = clock]
  <2>2. Goto(p, "metadata", l) /\ UNCHANGED <<clock, hist, live>>
    BY <1>2 DEF FindNext
  <2>3. l.name = n /\ l.now = clock /\ DOMAIN l = Fields
    BY <1>0 DEF Fields, AtHand
  <2> HIDE DEF l
  <2>4. AtHand(p)'
    BY <1>0, <2>2, <2>3 DEF AtHand
  <2> QED
    BY <2>2, <2>4, MoveKept
<1>3. ASSUME FindNone(p) \/ Fail(p) PROVE RekeyInv'
  BY <1>3, ClearedKept DEF FindNone, Fail
<1>4. ASSUME ReadMetadata(p) PROVE RekeyInv'
  <2> DEFINE n == loc[p].name
  <2>1. PICK now \in loc[p].now..clock :
           \/ Return(p) \/ Again(p)
           \/ /\ Due(n, now)
              /\ Goto(p, "decrypt", [loc[p] EXCEPT !.src = Len(hist[n]),
                                                 !.ttl = Last(hist[n]).ttl, !.now = now])
    BY <1>4 DEF ReadMetadata
  <2>2. pc[p] = "metadata" /\ UNCHANGED <<clock, hist, live>>
    BY <1>4 DEF ReadMetadata
  <2>3. CASE Return(p) \/ Again(p)
    BY <2>2, <2>3, ClearedKept
  <2>4. CASE /\ Due(n, now)
             /\ Goto(p, "decrypt", [loc[p] EXCEPT !.src = Len(hist[n]),
                                                !.ttl = Last(hist[n]).ttl, !.now = now])
    <3> DEFINE l == [loc[p] EXCEPT !.src = Len(hist[n]), !.ttl = Last(hist[n]).ttl,
                                   !.now = now]
    <3>1. /\ l.name = n /\ l.src = Len(hist[n]) /\ l.ttl = Last(hist[n]).ttl
          /\ l.now = now /\ DOMAIN l = Fields
      BY <1>0 DEF Fields, AtHand
    <3>2. loc'[p] = l /\ pc'[p] = "decrypt"
      BY <1>0, <2>4
    <3> HIDE DEF l
    <3>3. n \in Names /\ live[n] /\ IsDue(Last(hist[n]), now)
      BY <1>0, <2>2, <2>4 DEF Due, AtHand
    <3>4. /\ Len(hist[n]) \in DOMAIN hist[n] /\ Len(hist[n]) \in Nat
          /\ Last(hist[n]) = hist[n][Len(hist[n])] /\ Last(hist[n]) \in Versions
      BY <3>3, LiveLast
    <3>5. Expired(l)
      BY <3>1, <3>3, <3>4 DEF Expired, IsDue, Versions
    <3>6. now \in 0..clock
      BY <1>0
    <3>7. AtHand(p)'
      BY <2>2, <3>1, <3>2, <3>5, <3>6 DEF AtHand, Expired
    <3> QED
      BY <2>2, <2>4, <3>7, MoveKept DEF l
  <2> QED
    BY <2>1, <2>3, <2>4
<1>5. ASSUME Decrypt(p) PROVE RekeyInv'
  <2> DEFINE l == [loc[p] EXCEPT !.val = Source(p).val]
  <2>1. /\ pc[p] = "decrypt" /\ Goto(p, "bounds", l)
        /\ UNCHANGED <<clock, hist, live>>
    BY <1>5 DEF Decrypt
  <2>2. /\ l.name = loc[p].name /\ l.src = loc[p].src /\ l.ttl = loc[p].ttl
        /\ l.now = loc[p].now /\ DOMAIN l = Fields
        /\ l.val = hist[loc[p].name][loc[p].src].val
    BY <1>0 DEF Fields, AtHand, Source
  <2>3. loc'[p] = l /\ pc'[p] = "bounds"
    BY <1>0, <2>1
  <2> HIDE DEF l
  <2>4. Expired(loc[p])
    BY <1>0, <2>1 DEF AtHand
  <2>5. AtHand(p)'
    BY <1>0, <2>1, <2>2, <2>3, <2>4 DEF AtHand, Expired
  <2> QED
    BY <2>1, <2>5, MoveKept
<1>6. ASSUME ReadBounds(p) PROVE RekeyInv'
  <2> DEFINE top == Len(hist[loc[p].name])
             l == [loc[p] EXCEPT !.new = top + 1]
  <2>1. pc[p] = "bounds" /\ UNCHANGED <<clock, hist, live>>
    BY <1>6 DEF ReadBounds
  <2>2. CASE Exhausted(top)
    BY <1>6, <2>1, <2>2, ClearedKept DEF ReadBounds
  <2>3. CASE ~Exhausted(top)
    <3>1. Goto(p, "txn", l)
      BY <1>6, <2>3 DEF ReadBounds
    <3>2. /\ l.name = loc[p].name /\ l.src = loc[p].src /\ l.ttl = loc[p].ttl
          /\ l.now = loc[p].now /\ l.val = loc[p].val /\ DOMAIN l = Fields
          /\ l.new = top + 1
      BY <1>0 DEF Fields, AtHand
    <3>3. loc'[p] = l /\ pc'[p] = "txn"
      BY <1>0, <3>1
    <3>4. Expired(loc[p]) /\ loc[p].val = hist[loc[p].name][loc[p].src].val
      BY <1>0, <2>1 DEF AtHand
    <3>5. top \in Nat /\ top <= IntMax
      BY <3>4 DEF Expired, RekeyInv, TypeOK
    <3>6. l.new \in 1..IntMax
      BY <2>3, <3>2, <3>5, AutoRotateAssumption DEF Exhausted
    <3> HIDE DEF l, top
    <3>7. AtHand(p)'
      BY <1>0, <2>1, <3>2, <3>3, <3>4, <3>6 DEF AtHand, Expired
    <3> QED
      BY <2>1, <3>1, <3>7, MoveKept
  <2> QED
    BY <2>2, <2>3
<1> QED
  BY <1>1, <1>2, <1>3, <1>4, <1>5, <1>6

(* A re-keying at its transaction has a version to write at hand. *)
LEMMA RekeyAtHand ==
    ASSUME RekeyInv, NEW p \in Procs, pc[p] = "txn"
    PROVE  /\ Expired(loc[p]) /\ loc[p].val = hist[loc[p].name][loc[p].src].val
           /\ WriteAtHand(loc[p])
<1>1. /\ Expired(loc[p]) /\ loc[p].val = hist[loc[p].name][loc[p].src].val
      /\ loc[p].new \in 1..IntMax
  BY DEF RekeyInv, AtHand
<1>2. hist[loc[p].name] \in Seq(Versions) /\ loc[p].src \in DOMAIN hist[loc[p].name]
  BY <1>1 DEF Expired, RekeyInv
<1>3. hist[loc[p].name][loc[p].src].val \in Values
  BY <1>2, VersionFields
<1> QED
  BY <1>1, <1>3 DEF WriteAtHand, Expired

(* The transactions. *)
LEMMA CommitKept ==
    ASSUME RekeyInv, NEW p \in Procs
    PROVE  /\ WriteCommit(p) => RekeyInv'
           /\ Rekey(p) => RekeyInv'
<1>1. ASSUME WriteCommit(p) PROVE RekeyInv'
  <2>1. WriteAtHand(loc[p])
    BY <1>1 DEF RekeyInv, AtHand, WriteCommit
  <2> QED
    BY <1>1, <2>1, WriteKept, NoLocalsFields DEF WriteCommit, Return
<1>2. ASSUME Rekey(p) PROVE RekeyInv'
  <2>1. /\ Expired(loc[p]) /\ loc[p].val = hist[loc[p].name][loc[p].src].val
        /\ WriteAtHand(loc[p])
    BY <1>2, RekeyAtHand DEF Rekey
  <2> QED
    BY <1>2, <2>1, WriteKept, NoLocalsFields DEF Rekey, Again
<1> QED
  BY <1>1, <1>2

-----------------------------------------------------------------------------
(* The theorems *)

(* The invariant of every behaviour. *)
LEMMA RekeyInvariant == Spec => []RekeyInv
<1>1. Init => RekeyInv
  <2> SUFFICES ASSUME Init PROVE RekeyInv
    OBVIOUS
  <2>1. TypeOK /\ hist \in [Names -> Seq(Versions)] /\ DOMAIN live = Names
    BY AutoRotateAssumption DEF Init, TypeOK
  <2>2. RekeysExpired
    BY DEF Init, RekeysExpired, Rekeyed
  <2>3. \A p \in Procs : AtHand(p)
    BY NoLocalsFields DEF Init, AtHand
  <2> QED
    BY <2>1, <2>2, <2>3 DEF RekeyInv
<1>2. ASSUME RekeyInv, Next PROVE RekeyInv'
  <2>1. CASE Tick
    BY <1>2, <2>1, WritersKept
  <2>2. ASSUME NEW p \in Writers, NEW n \in Names,
               \/ \E x \in Values, ttl \in Ttls : Put(p, n, x, ttl)
               \/ \E i \in 1..IntMax : Rollback(p, n, i)
               \/ Delete(p, n)
        PROVE  RekeyInv'
    <3>1. p \in Procs
      BY AutoRotateAssumption
    <3> QED
      BY <1>2, <2>2, <3>1, WritersKept
  <2>3. ASSUME NEW p \in Procs, Start(p) \/ Step(p) PROVE RekeyInv'
    BY <1>2, <2>3, LoopKept, CommitKept DEF Step
  <2> QED
    BY <1>2, <2>1, <2>2, <2>3 DEF Next
<1>3. RekeyInv /\ UNCHANGED rekeyVars => RekeyInv'
  <2> SUFFICES ASSUME RekeyInv, UNCHANGED rekeyVars PROVE RekeyInv'
    OBVIOUS
  <2>1. TypeOK' /\ UNCHANGED <<hist, live>>
    BY DEF rekeyVars, RekeyInv, TypeOK
  <2>2. RekeysExpired'
    BY DEF rekeyVars, RekeyInv, RekeysExpired, Rekeyed
  <2>3. ASSUME NEW p \in Procs PROVE AtHand(p)'
    BY AtHandKept, AutoRotateAssumption DEF rekeyVars, RekeyInv, TypeOK
  <2> QED
    BY <2>1, <2>2, <2>3 DEF RekeyInv
<1> QED
  BY <1>1, <1>2, <1>3, PTL DEF Spec

(* vault_auto_rotate_expired, put, rollback and delete keep the histories   *)
(* within INT_MAX versions.                                                 *)
THEOREM AutoRotateTypes == Spec => []TypeOK
<1>1. RekeyInv => TypeOK
  BY DEF RekeyInv
<1> QED
  BY <1>1, RekeyInvariant, PTL

(* vault_rotate_expired_secret re-keys only what had expired by the clock   *)
(* it read, with the value and the interval it found, whoever writes in     *)
(* between.                                                                 *)
THEOREM RekeysExpiredHolds == Spec => []RekeysExpired
<1>1. RekeyInv => RekeysExpired
  BY DEF RekeyInv
<1> QED
  BY <1>1, RekeyInvariant, PTL

-----------------------------------------------------------------------------
(* The promise of the vault, kept by the loop *)

(* The values of a history, by version. *)
ValuesOf(h) == [v \in 1..Len(h) |-> h[v].val]

(* SecretStore, of which put, rollback, delete and re-keying are steps. *)
Store == INSTANCE SecretStore WITH
           MaxVersion <- IntMax,
           hist <- [n \in Names |-> ValuesOf(hist[n])]

(* A transaction of the version at hand is a write of the store. *)
LEMMA WriteStores ==
    ASSUME RekeyInv, NEW p \in Procs, WriteAtHand(loc[p]), NEW rekeyed \in BOOLEAN,
           Write(p, rekeyed)
    PROVE  Store!Next
<1> DEFINE l == loc[p]
           n == l.name
           old == [m \in Names |-> ValuesOf(hist[m])]
           new == [m \in Names |-> ValuesOf(hist'[m])]
<1>1. /\ n \in Names /\ l.val \in Values /\ l.new \in 1..IntMax
      /\ l.new = Len(hist[n]) + 1
      /\ hist[n] \in Seq(Versions) /\ hist \in [Names -> Seq(Versions)]
  BY DEF WriteAtHand, RekeyInv, Write
<1>2. PICK later \in l.now..clock :
         hist' = [hist EXCEPT ![n] =
                    Append(@, Version(l.val, l.ttl, l.now, later, rekeyed))]
  BY DEF Write
<1> DEFINE v == Version(l.val, l.ttl, l.now, later, rekeyed)
<1>3. v.val = l.val
  BY DEF Version
<1>4. hist' = [hist EXCEPT ![n] = Append(hist[n], v)]
  BY <1>1, <1>2
<1> HIDE DEF v
<1>5. /\ Len(Append(hist[n], v)) = l.new
      /\ Append(hist[n], v)[l.new] = v
      /\ \A k \in 1..Len(hist[n]) : Append(hist[n], v)[k] = hist[n][k]
      /\ Len(hist[n]) \in Nat
  BY <1>1
<1>6. /\ \A m \in Names \ {n} : hist'[m] = hist[m]
      /\ hist'[n] = Append(hist[n], v)
  BY <1>1, <1>4
<1>7. DOMAIN old[n] = 1..(l.new - 1)
  BY <1>1, <1>5 DEF ValuesOf
<1>8. new[n] = [k \in 1..l.new |-> IF k = l.new THEN l.val ELSE old[n][k]]
  <2>1. ASSUME NEW k \in 1..l.new
        PROVE  hist'[n][k].val = IF k = l.new THEN l.val ELSE old[n][k]
    BY <1>1, <1>3, <1>5, <1>6 DEF ValuesOf
  <2>2. ValuesOf(hist'[n]) = [k \in 1..l.new |-> hist'[n][k].val]
    BY <1>5, <1>6 DEF ValuesOf
  <2> QED
    BY <1>1, <2>1, <2>2
<1>9. new = [old EXCEPT ![n] = [k \in 1..l.new |-> IF k = l.new THEN l.val ELSE @[k]]]
  <2>1. \A m \in Names \ {n} : new[m] = old[m]
    BY <1>6
  <2> HIDE DEF old
  <2> QED
    BY <1>1, <1>8, <2>1 DEF old
<1>10. live' = [live EXCEPT ![n] = TRUE]
  BY DEF Write
<1>11. Store!Write(n, l.new, l.val)
  BY <1>7, <1>9, <1>10 DEF Store!Write
<1> QED
  BY <1>1, <1>11 DEF Store!Next

(* Put, rollback, delete and vault_auto_rotate_expired together do to the   *)
(* secrets what SecretStore promises: whoever overtakes whom, no version is *)
(* lost or rewritten, and every write takes the next number.                *)
THEOREM StoreKept == Spec => Store!Spec
<1>1. Init => Store!Init
  <2> SUFFICES ASSUME Init PROVE Store!Init
    OBVIOUS
  <2>1. ValuesOf(<<>>) = [v \in {} |-> v]
    BY DEF ValuesOf
  <2> QED
    BY <2>1 DEF Init, Store!Init
<1>2. ASSUME RekeyInv, [Next]_rekeyVars PROVE [Store!Next]_Store!storeVars
  <2>1. CASE UNCHANGED <<hist, live>>
    BY <2>1 DEF Store!storeVars
  <2>2. ASSUME NEW n \in Names, NEW p \in Procs, Delete(p, n) PROVE Store!Next
    <3>1. Store!Delete(n)
      BY <2>2 DEF Delete, Store!Delete
    <3> QED
      BY <3>1 DEF Store!Next
  <2>3. ASSUME NEW p \in Procs, WriteCommit(p) PROVE Store!Next
    <3>1. WriteAtHand(loc[p])
      BY <1>2, <2>3 DEF RekeyInv, AtHand, WriteCommit
    <3> QED
      BY <1>2, <2>3, <3>1, WriteStores DEF WriteCommit
  <2>4. ASSUME NEW p \in Procs, Rekey(p) PROVE Store!Next
    BY <1>2, <2>4, RekeyAtHand, WriteStores DEF Rekey
  <2>5. CASE Next
    <3>1. CASE Tick
      BY <2>1, <3>1 DEF Tick
    <3>2. ASSUME NEW p \in Writers, NEW n \in Names,
                 \/ \E x \in Values, ttl \in Ttls : Put(p, n, x, ttl)
                 \/ \E i \in 1..IntMax : Rollback(p, n, i)
                 \/ Delete(p, n)
          PROVE  UNCHANGED <<hist, live>> \/ Store!Next
      BY <2>2, <3>2, AutoRotateAssumption DEF Put, Rollback, WriteStart
    <3>3. ASSUME NEW p \in Procs, Start(p) \/ Step(p)
          PROVE  UNCHANGED <<hist, live>> \/ Store!Next
      BY <2>3, <2>4, <3>3 DEF Start, Step, FindNext, FindNone, ReadMetadata, Decrypt,
           ReadBounds, Fail
    <3> QED
      BY <2>1, <2>5, <3>1, <3>2, <3>3 DEF Next
  <2> QED
    BY <1>2, <2>1, <2>5 DEF rekeyVars
<1> QED
  BY <1>1, <1>2, RekeyInvariant, PTL DEF Spec, Store!Spec
=============================================================================
