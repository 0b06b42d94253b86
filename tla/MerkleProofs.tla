---------------------------- MODULE MerkleProofs ----------------------------
(***************************************************************************)
(* Merkle trees, proofs and signed roots for logs of every length.  The    *)
(* loops of audit.c are recursive functions; that each has the values its  *)
(* body gives, and what it computes, is shown by induction, which rests on *)
(* the least element of a set of naturals.                                 *)
(***************************************************************************)
EXTENDS Merkle, WellFoundedInduction, TLAPS

-----------------------------------------------------------------------------
(* Induction *)

Below == {s \in Nat \X Nat : s[1] < s[2]}

(* Every set of naturals has a least element. *)
LEMMA LeastNat ==
    ASSUME NEW T \in SUBSET Nat, T # {}
    PROVE  \E m \in T : \A k \in T : m <= k
<1>1. IsWellFoundedOn(Below, Nat)
  BY NatLessThanWellFounded DEF OpToRel, Below
<1>2. PICK m \in T : \A k \in T : ~ (<<k, m>> \in Below)
  BY <1>1, WFMin
<1>3. ASSUME NEW k \in T PROVE m <= k
  <2>1. k \in Nat /\ m \in Nat /\ <<k, m>> \notin Below
    BY <1>2
  <2>2. <<k, m>> \in Nat \X Nat => ~(k < m)
    BY <2>1 DEF Below
  <2> QED
    BY <2>1, <2>2
<1> QED
  BY <1>3

(* A set with 0 and with the successor of each natural in it has them all. *)
LEMMA NatsIn ==
    ASSUME NEW S, 0 \in S, \A n \in Nat : n \in S => n + 1 \in S
    PROVE  \A n \in Nat : n \in S
<1> SUFFICES ASSUME NEW x \in Nat, x \notin S PROVE FALSE
  OBVIOUS
<1> DEFINE T == Nat \ S
<1>1. PICK m \in T : \A k \in T : m <= k
  BY LeastNat
<1>2. m # 0 /\ m - 1 \in Nat /\ m - 1 \notin T
  BY <1>1
<1> QED
  BY <1>1, <1>2

-----------------------------------------------------------------------------
(* One round of a verification. *)
Parent(node, index, proof, k) ==
    IF Indices(index)[k - 1] % 2 = 0
      THEN audit_hash_merkle_internal(node, proof[k])
      ELSE audit_hash_merkle_internal(proof[k], node)

(* The loops have the values their bodies give.  A loop is named by what it *)
(* starts from, so that existence is shown once for all of them.            *)

LevelsLoop(n) == [of |-> "levels", n |-> n]
IndexLoop(i) == [of |-> "index", start |-> i]
CountLoop(c) == [of |-> "count", start |-> c]
ClimbLoop(node, index, proof) ==
    [of |-> "climb", start |-> node, index |-> index, proof |-> proof]

First(c) == IF c.of = "levels" THEN Leaves(c.n) ELSE c.start

Round(c, k, v) ==
    IF c.of = "levels" THEN audit_reduce_merkle_level(v)
    ELSE IF c.of = "index" THEN v \div 2
    ELSE IF c.of = "count" THEN (v + 1) \div 2
    ELSE Parent(v, c.index, c.proof, k)

(* g holds the values of loop c up to round n. *)
RunsTo(c, g, n) ==
    g = [k \in 0..n |-> IF k = 0 THEN First(c) ELSE Round(c, k, g[k - 1])]

(* Two runs agree as far as both go. *)
LEMMA RunsAgree ==
    ASSUME NEW c, NEW g, NEW h, NEW n \in Nat, NEW m \in Nat,
           RunsTo(c, g, n), RunsTo(c, h, m)
    PROVE  \A k \in Nat : k <= n /\ k <= m => g[k] = h[k]
<1> DEFINE S == {k \in Nat : k <= n /\ k <= m => g[k] = h[k]}
<1>1. 0 \in S
  BY DEF RunsTo
<1>2. ASSUME NEW k \in Nat, k \in S PROVE k + 1 \in S
  <2> SUFFICES ASSUME k + 1 <= n, k + 1 <= m PROVE g[k + 1] = h[k + 1]
    OBVIOUS
  <2>1. g[k] = h[k]
    BY <1>2
  <2>2. /\ g[k + 1] = Round(c, k + 1, g[(k + 1) - 1])
        /\ h[k + 1] = Round(c, k + 1, h[(k + 1) - 1])
    <3>1. k + 1 \in 0..n /\ k + 1 \in 0..m /\ k + 1 # 0
      OBVIOUS
    <3> QED
      BY <3>1 DEF RunsTo
  <2> QED
    BY <2>1, <2>2
<1>3. \A k \in Nat : k \in S
  <2> HIDE DEF S
  <2> QED
    BY <1>1, <1>2, NatsIn
<1> QED
  BY <1>3

(* A loop can run as far as one likes. *)
LEMMA RunExists ==
    ASSUME NEW c
    PROVE  \A n \in Nat : \E g : RunsTo(c, g, n)
<1> DEFINE S == {n \in Nat : \E g : RunsTo(c, g, n)}
<1>1. 0 \in S
  <2> DEFINE g == [k \in 0..0 |-> First(c)]
  <2>1. RunsTo(c, g, 0)
    BY DEF RunsTo
  <2> QED
    BY <2>1
<1>2. ASSUME NEW n \in Nat, n \in S PROVE n + 1 \in S
  <2>1. PICK g : RunsTo(c, g, n)
    BY <1>2
  <2> DEFINE h == [k \in 0..(n + 1) |-> IF k = n + 1 THEN Round(c, n + 1, g[n]) ELSE g[k]]
  <2>2. ASSUME NEW k \in 0..(n + 1)
        PROVE  h[k] = IF k = 0 THEN First(c) ELSE Round(c, k, h[k - 1])
    <3>1. CASE k = n + 1
      <4>1. h[n] = g[n] /\ (n + 1) - 1 = n /\ n + 1 # 0
        OBVIOUS
      <4> QED
        BY <3>1, <4>1
    <3>2. CASE k # n + 1
      <4>1. k \in 0..n /\ h[k] = g[k]
        BY <3>2
      <4>2. g[k] = IF k = 0 THEN First(c) ELSE Round(c, k, g[k - 1])
        BY <2>1, <4>1 DEF RunsTo
      <4>3. k # 0 => h[k - 1] = g[k - 1]
        BY <4>1
      <4> HIDE DEF h
      <4> QED
        BY <4>1, <4>2, <4>3
    <3> QED
      BY <3>1, <3>2
  <2>3. RunsTo(c, h, n + 1)
    <3>1. h = [k \in 0..(n + 1) |-> h[k]]
      OBVIOUS
    <3> HIDE DEF h
    <3> QED
      BY <2>2, <3>1 DEF RunsTo
  <2> QED
    BY <2>3
<1>3. \A n \in Nat : n \in S
  <2> HIDE DEF S
  <2> QED
    BY <1>1, <1>2, NatsIn
<1> QED
  BY <1>3

(* So there is a function that is the whole loop. *)
LEMMA LoopExists ==
    ASSUME NEW c
    PROVE  \E f : f = [k \in Nat |-> IF k = 0 THEN First(c) ELSE Round(c, k, f[k - 1])]
<1> DEFINE G(k) == CHOOSE g : RunsTo(c, g, k)
           f == [k \in Nat |-> G(k)[k]]
<1>1. \A k \in Nat : RunsTo(c, G(k), k)
  BY RunExists
<1>2. ASSUME NEW k \in Nat
      PROVE  f[k] = IF k = 0 THEN First(c) ELSE Round(c, k, f[k - 1])
  <2>1. G(k)[k] = IF k = 0 THEN First(c) ELSE Round(c, k, G(k)[k - 1])
    <3>1. RunsTo(c, G(k), k) /\ k \in 0..k
      BY <1>1
    <3> HIDE DEF G
    <3> QED
      BY <3>1 DEF RunsTo
  <2>2. k # 0 => G(k)[k - 1] = G(k - 1)[k - 1]
    <3> SUFFICES ASSUME k # 0 PROVE G(k)[k - 1] = G(k - 1)[k - 1]
      OBVIOUS
    <3>1. k - 1 \in Nat /\ RunsTo(c, G(k), k) /\ RunsTo(c, G(k - 1), k - 1)
      BY <1>1
    <3> HIDE DEF G
    <3> QED
      BY <3>1, RunsAgree
  <2>3. f[k] = G(k)[k] /\ (k # 0 => f[k - 1] = G(k - 1)[k - 1])
    OBVIOUS
  <2> HIDE DEF f, G
  <2> QED
    BY <2>1, <2>2, <2>3
<1>3. f = [k \in Nat |-> f[k]]
  OBVIOUS
<1>4. f = [k \in Nat |-> IF k = 0 THEN First(c) ELSE Round(c, k, f[k - 1])]
  <2> HIDE DEF f
  <2> QED
    BY <1>2, <1>3
<1> QED
  BY <1>4

(* The levels, round by round. *)
LEMMA LevelsRun ==
    ASSUME NEW n
    PROVE  /\ Levels(n)[0] = Leaves(n)
           /\ \A k \in Nat : Levels(n)[k + 1] = audit_reduce_merkle_level(Levels(n)[k])
<1> DEFINE F == CHOOSE f : f = [k \in Nat |-> IF k = 0 THEN Leaves(n)
                                            ELSE audit_reduce_merkle_level(f[k - 1])]
<1>1. \E f : f = [k \in Nat |-> IF k = 0 THEN Leaves(n)
                               ELSE audit_reduce_merkle_level(f[k - 1])]
  <2> DEFINE c == LevelsLoop(n)
  <2>1. c.of = "levels" /\ c.n = n
    BY DEF LevelsLoop
  <2>2. First(c) = Leaves(n) /\ \A k, v : Round(c, k, v) = audit_reduce_merkle_level(v)
    BY <2>1 DEF First, Round
  <2> HIDE DEF c
  <2>3. PICK f : f = [k \in Nat |-> IF k = 0 THEN First(c) ELSE Round(c, k, f[k - 1])]
    BY LoopExists
  <2>4. f = [k \in Nat |-> IF k = 0 THEN Leaves(n) ELSE audit_reduce_merkle_level(f[k - 1])]
    BY <2>2, <2>3
  <2> QED
    BY <2>4
<1>2. F = [k \in Nat |-> IF k = 0 THEN Leaves(n) ELSE audit_reduce_merkle_level(F[k - 1])]
  BY <1>1
<1>3. Levels(n) = F
  BY DEF Levels
<1> HIDE DEF F
<1>4. ASSUME NEW k \in Nat PROVE F[k + 1] = audit_reduce_merkle_level(F[k])
  <2>1. k + 1 \in Nat /\ k + 1 # 0 /\ (k + 1) - 1 = k
    OBVIOUS
  <2> QED
    BY <1>2, <2>1
<1> QED
  BY <1>2, <1>3, <1>4

(* The indices, round by round. *)
LEMMA IndicesRun ==
    ASSUME NEW i
    PROVE  /\ Indices(i)[0] = i
           /\ \A k \in Nat : Indices(i)[k + 1] = Indices(i)[k] \div 2
<1> DEFINE F == CHOOSE f : f = [k \in Nat |-> IF k = 0 THEN i
                                            ELSE f[k - 1] \div 2]
<1>1. \E f : f = [k \in Nat |-> IF k = 0 THEN i ELSE f[k - 1] \div 2]
  <2> DEFINE c == IndexLoop(i)
  <2>1. c.of = "index" /\ c.start = i
    BY DEF IndexLoop
  <2>2. First(c) = i /\ \A k, v : Round(c, k, v) = v \div 2
    BY <2>1 DEF First, Round
  <2> HIDE DEF c
  <2>3. PICK f : f = [k \in Nat |-> IF k = 0 THEN First(c) ELSE Round(c, k, f[k - 1])]
    BY LoopExists
  <2>4. f = [k \in Nat |-> IF k = 0 THEN i ELSE f[k - 1] \div 2]
    BY <2>2, <2>3
  <2> QED
    BY <2>4
<1>2. F = [k \in Nat |-> IF k = 0 THEN i ELSE F[k - 1] \div 2]
  BY <1>1
<1>3. Indices(i) = F
  BY DEF Indices
<1> HIDE DEF F
<1>4. ASSUME NEW k \in Nat PROVE F[k + 1] = F[k] \div 2
  <2>1. k + 1 \in Nat /\ k + 1 # 0 /\ (k + 1) - 1 = k
    OBVIOUS
  <2> QED
    BY <1>2, <2>1
<1> QED
  BY <1>2, <1>3, <1>4

(* The counts, round by round. *)
LEMMA CountsRun ==
    ASSUME NEW c0
    PROVE  /\ Counts(c0)[0] = c0
           /\ \A k \in Nat : Counts(c0)[k + 1] = (Counts(c0)[k] + 1) \div 2
<1> DEFINE F == CHOOSE f : f = [k \in Nat |-> IF k = 0 THEN c0
                                            ELSE (f[k - 1] + 1) \div 2]
<1>1. \E f : f = [k \in Nat |-> IF k = 0 THEN c0 ELSE (f[k - 1] + 1) \div 2]
  <2> DEFINE c == CountLoop(c0)
  <2>1. c.of = "count" /\ c.start = c0
    BY DEF CountLoop
  <2>2. First(c) = c0 /\ \A k, v : Round(c, k, v) = (v + 1) \div 2
    BY <2>1 DEF First, Round
  <2> HIDE DEF c
  <2>3. PICK f : f = [k \in Nat |-> IF k = 0 THEN First(c) ELSE Round(c, k, f[k - 1])]
    BY LoopExists
  <2>4. f = [k \in Nat |-> IF k = 0 THEN c0 ELSE (f[k - 1] + 1) \div 2]
    BY <2>2, <2>3
  <2> QED
    BY <2>4
<1>2. F = [k \in Nat |-> IF k = 0 THEN c0 ELSE (F[k - 1] + 1) \div 2]
  BY <1>1
<1>3. Counts(c0) = F
  BY DEF Counts
<1> HIDE DEF F
<1>4. ASSUME NEW k \in Nat PROVE F[k + 1] = (F[k] + 1) \div 2
  <2>1. k + 1 \in Nat /\ k + 1 # 0 /\ (k + 1) - 1 = k
    OBVIOUS
  <2> QED
    BY <1>2, <2>1
<1> QED
  BY <1>2, <1>3, <1>4

(* The hashes of a verification, round by round. *)
LEMMA ClimbRun ==
    ASSUME NEW node, NEW index, NEW proof
    PROVE  /\ Climb(node, index, proof)[0] = node
           /\ \A k \in Nat : Climb(node, index, proof)[k + 1] = Parent(Climb(node, index, proof)[k], index, proof, k + 1)
<1> DEFINE F == CHOOSE f : f = [k \in Nat |-> IF k = 0 THEN node
                                            ELSE Parent(f[k - 1], index, proof, k)]
<1>1. \E f : f = [k \in Nat |-> IF k = 0 THEN node ELSE Parent(f[k - 1], index, proof, k)]
  <2> DEFINE c == ClimbLoop(node, index, proof)
  <2>1. c.of = "climb" /\ c.start = node /\ c.index = index /\ c.proof = proof
    BY DEF ClimbLoop
  <2>2. First(c) = node /\ \A k, v : Round(c, k, v) = Parent(v, index, proof, k)
    BY <2>1 DEF First, Round
  <2> HIDE DEF c
  <2>3. PICK f : f = [k \in Nat |-> IF k = 0 THEN First(c) ELSE Round(c, k, f[k - 1])]
    BY LoopExists
  <2>4. f = [k \in Nat |-> IF k = 0 THEN node ELSE Parent(f[k - 1], index, proof, k)]
    BY <2>2, <2>3
  <2> QED
    BY <2>4
<1>2. F = [k \in Nat |-> IF k = 0 THEN node ELSE Parent(F[k - 1], index, proof, k)]
  BY <1>1
<1>3. Climb(node, index, proof) = F
  BY DEF Climb, Parent
<1> HIDE DEF F
<1>4. ASSUME NEW k \in Nat PROVE F[k + 1] = Parent(F[k], index, proof, k + 1)
  <2>1. k + 1 \in Nat /\ k + 1 # 0 /\ (k + 1) - 1 = k
    OBVIOUS
  <2> QED
    BY <1>2, <2>1
<1> QED
  BY <1>2, <1>3, <1>4

-----------------------------------------------------------------------------
(* Widths and heights *)

(* A count halves, rounding up, and stops at 1 within count rounds. *)
LEMMA CountsShrink ==
    ASSUME NEW n \in Nat \ {0}
    PROVE  \A k \in Nat : /\ Counts(n)[k] \in Nat \ {0}
                          /\ Counts(n)[k] = 1 \/ Counts(n)[k] + k <= n
<1> DEFINE S == {k \in Nat : /\ Counts(n)[k] \in Nat \ {0}
                             /\ Counts(n)[k] = 1 \/ Counts(n)[k] + k <= n}
<1>1. 0 \in S
  BY CountsRun
<1>2. ASSUME NEW k \in Nat, k \in S PROVE k + 1 \in S
  <2> DEFINE c == Counts(n)[k]
  <2>1. Counts(n)[k + 1] = (c + 1) \div 2
    BY CountsRun
  <2>2. c \in Nat \ {0} /\ (c = 1 \/ c + k <= n)
    BY <1>2
  <2> HIDE DEF c
  <2>3. (c + 1) \div 2 \in Nat \ {0} /\ ((c + 1) \div 2 = 1 \/ (c + 1) \div 2 < c)
    BY <2>2
  <2> QED
    BY <2>1, <2>2, <2>3
<1>3. \A k \in Nat : k \in S
  <2> HIDE DEF S
  <2> QED
    BY <1>1, <1>2, NatsIn
<1> QED
  BY <1>3

(* The verification ends, with a count of 1. *)
LEMMA ProofLengthEnds ==
    ASSUME NEW n \in Nat \ {0}
    PROVE  /\ ProofLength(n) \in Nat
           /\ Counts(n)[ProofLength(n)] = 1
           /\ \A j \in 0..(ProofLength(n) - 1) : Counts(n)[j] > 1
<1> DEFINE T == {k \in Nat : Counts(n)[k] <= 1}
<1>1. n \in T
  BY CountsShrink
<1>2. PICK m \in T : \A k \in T : m <= k
  <2> HIDE DEF T
  <2>1. T \in SUBSET Nat
    BY DEF T
  <2> QED
    BY <1>1, <2>1, LeastNat
<1>3. m \in 0..n /\ Counts(n)[m] <= 1 /\ \A j \in 0..(m - 1) : Counts(n)[j] > 1
  <2>1. m \in Nat /\ m <= n /\ Counts(n)[m] <= 1
    BY <1>1, <1>2
  <2>2. ASSUME NEW j \in 0..(m - 1) PROVE Counts(n)[j] > 1
    <3>1. j \in Nat /\ ~(m <= j)
      BY <2>1
    <3>2. j \notin T
      BY <1>2, <3>1
    <3>3. Counts(n)[j] \in Nat
      BY <3>1, CountsShrink
    <3> QED
      BY <3>1, <3>2, <3>3
  <2> QED
    BY <2>1, <2>2
<1> DEFINE h == CHOOSE k \in 0..n : /\ Counts(n)[k] <= 1
                                    /\ \A j \in 0..(k - 1) : Counts(n)[j] > 1
<1>4. h \in 0..n /\ Counts(n)[h] <= 1 /\ \A j \in 0..(h - 1) : Counts(n)[j] > 1
  BY <1>3
<1>5. ProofLength(n) = h
  BY DEF ProofLength
<1> HIDE DEF h
<1>6. h \in Nat /\ Counts(n)[h] \in Nat \ {0}
  BY <1>4, CountsShrink
<1>7. Counts(n)[h] = 1
  BY <1>4, <1>6
<1> QED
  BY <1>4, <1>5, <1>6, <1>7

(* The length of a sequence given by its elements. *)
LEMMA LenOf ==
    ASSUME NEW k \in Nat, NEW s, s = [i \in 1..k |-> s[i]]
    PROVE  Len(s) = k /\ DOMAIN s = 1..k
<1> DEFINE R == {s[i] : i \in 1..k}
<1>1. s \in [1..k -> R]
  OBVIOUS
<1>2. s \in Seq(R)
  BY <1>1
<1> HIDE DEF R
<1> QED
  BY <1>1, <1>2

(* A level and the one above it. *)
LEMMA ReducedLevel ==
    ASSUME NEW w \in Nat \ {0}, NEW level, Len(level) = w
    PROVE  LET up == audit_reduce_merkle_level(level) IN
           /\ Len(up) = (w + 1) \div 2
           /\ \A i \in 1..((w + 1) \div 2) :
                up[i] = audit_hash_merkle_internal(level[2 * i - 1],
                            level[IF 2 * i > w THEN 2 * i - 1 ELSE 2 * i])
<1> DEFINE up == audit_reduce_merkle_level(level)
<1>1. (w + 1) \div 2 \in Nat
  OBVIOUS
<1>2. up = [i \in 1..((w + 1) \div 2) |->
              audit_hash_merkle_internal(level[2 * i - 1],
                  level[IF 2 * i > w THEN 2 * i - 1 ELSE 2 * i])]
  BY DEF audit_reduce_merkle_level
<1> HIDE DEF up
<1>3. up = [i \in 1..((w + 1) \div 2) |-> up[i]]
  BY <1>2
<1>4. Len(up) = (w + 1) \div 2
  BY <1>1, <1>3, LenOf
<1> QED
  BY <1>2, <1>4 DEF up

(* The level after k rounds is as wide as the verification counts. *)
LEMMA LevelWidth ==
    ASSUME NEW n \in Nat \ {0}
    PROVE  \A k \in Nat : Len(Levels(n)[k]) = Counts(n)[k]
<1> DEFINE S == {k \in Nat : Len(Levels(n)[k]) = Counts(n)[k]}
<1>1. 0 \in S
  <2>1. Leaves(n) = [i \in 1..n |-> Leaves(n)[i]]
    BY DEF Leaves
  <2>2. Len(Leaves(n)) = n
    BY <2>1, LenOf
  <2> QED
    BY <2>2, LevelsRun, CountsRun
<1>2. ASSUME NEW k \in Nat, k \in S PROVE k + 1 \in S
  <2> DEFINE w == Counts(n)[k]
             level == Levels(n)[k]
  <2>1. w \in Nat \ {0} /\ Len(level) = w
    BY <1>2, CountsShrink
  <2>2. /\ Levels(n)[k + 1] = audit_reduce_merkle_level(level)
        /\ Counts(n)[k + 1] = (w + 1) \div 2
    BY LevelsRun, CountsRun
  <2> HIDE DEF w, level
  <2>3. Len(audit_reduce_merkle_level(level)) = (w + 1) \div 2
    BY <2>1, ReducedLevel
  <2> QED
    BY <2>2, <2>3
<1>3. \A k \in Nat : k \in S
  <2> HIDE DEF S
  <2> QED
    BY <1>1, <1>2, NatsIn
<1> QED
  BY <1>3

(* A node of a level, in terms of the level below. *)
LEMMA NodeAbove ==
    ASSUME NEW n \in Nat \ {0}, NEW k \in Nat, NEW i \in 1..Counts(n)[k + 1]
    PROVE  /\ Counts(n)[k] \in Nat \ {0} /\ Counts(n)[k + 1] = (Counts(n)[k] + 1) \div 2
           /\ Levels(n)[k + 1][i] =
                audit_hash_merkle_internal(Levels(n)[k][2 * i - 1],
                    Levels(n)[k][IF 2 * i > Counts(n)[k] THEN 2 * i - 1 ELSE 2 * i])
<1> DEFINE w == Counts(n)[k]
           level == Levels(n)[k]
<1>1. w \in Nat \ {0} /\ Len(level) = w
  BY CountsShrink, LevelWidth
<1>2. /\ Levels(n)[k + 1] = audit_reduce_merkle_level(level)
      /\ Counts(n)[k + 1] = (w + 1) \div 2
  BY LevelsRun, CountsRun
<1>3. i \in 1..((w + 1) \div 2)
  BY <1>2
<1> HIDE DEF w, level
<1>4. audit_reduce_merkle_level(level)[i] =
        audit_hash_merkle_internal(level[2 * i - 1],
            level[IF 2 * i > w THEN 2 * i - 1 ELSE 2 * i])
  BY <1>1, <1>3, ReducedLevel
<1> QED
  BY <1>1, <1>2, <1>4 DEF w, level

(* Building a tree takes as many rounds as verifying a proof in it. *)
LEMMA RoundsAre ==
    ASSUME NEW n \in Nat \ {0}
    PROVE  Rounds(n) = ProofLength(n)
<1> DEFINE h == ProofLength(n)
           Ends(k) == /\ Len(Levels(n)[k]) = 1
                      /\ \A j \in 0..(k - 1) : Len(Levels(n)[j]) # 1
<1>1. h \in Nat /\ Counts(n)[h] = 1 /\ \A j \in 0..(h - 1) : Counts(n)[j] > 1
  BY ProofLengthEnds
<1> HIDE DEF h
<1>2. h \in 0..n
  <2>1. CASE h = 0
    BY <2>1
  <2>2. CASE h # 0
    <3>1. h - 1 \in Nat /\ h - 1 \in 0..(h - 1)
      BY <1>1, <2>2
    <3>2. Counts(n)[h - 1] > 1 /\ Counts(n)[h - 1] \in Nat
          /\ (Counts(n)[h - 1] = 1 \/ Counts(n)[h - 1] + (h - 1) <= n)
      BY <1>1, <3>1, CountsShrink
    <3> QED
      BY <1>1, <3>1, <3>2
  <2> QED
    BY <2>1, <2>2
<1>3. Ends(h)
  <2>1. Len(Levels(n)[h]) = 1
    BY <1>1, LevelWidth
  <2>2. ASSUME NEW j \in 0..(h - 1) PROVE Len(Levels(n)[j]) # 1
    <3>1. j \in Nat /\ Counts(n)[j] > 1
      BY <1>1
    <3>2. Len(Levels(n)[j]) = Counts(n)[j] /\ Counts(n)[j] \in Nat
      BY <3>1, LevelWidth, CountsShrink
    <3> QED
      BY <3>1, <3>2
  <2> QED
    BY <2>1, <2>2
<1>4. ASSUME NEW k \in 0..n, Ends(k) PROVE k = h
  <2>1. k \in Nat /\ h \in Nat
    BY <1>1
  <2>2. ~(k < h)
    BY <1>3, <1>4, <2>1
  <2>3. ~(h < k)
    BY <1>3, <1>4, <2>1
  <2> QED
    BY <2>1, <2>2, <2>3
<1>5. Rounds(n) = CHOOSE k \in 0..n : Ends(k)
  BY DEF Rounds
<1> HIDE DEF Ends
<1> QED
  BY <1>2, <1>3, <1>4, <1>5 DEF h

-----------------------------------------------------------------------------
(* Hashes are terms: what they are made of can be read off. *)

LEMMA HashesBind ==
    /\ \A a, b : audit_hash_merkle_leaf(a) = audit_hash_merkle_leaf(b) => a = b
    /\ \A l, r, x, y : audit_hash_merkle_internal(l, r) = audit_hash_merkle_internal(x, y)
                         => l = x /\ r = y
    /\ \A a, l, r : audit_hash_merkle_leaf(a) # audit_hash_merkle_internal(l, r)
    /\ \A a : audit_hash_merkle_leaf(a) # <<>>
    /\ \A l, r : audit_hash_merkle_internal(l, r) # <<>>
<1>1. ASSUME NEW a, NEW b, audit_hash_merkle_leaf(a) = audit_hash_merkle_leaf(b)
      PROVE  a = b
  <2>1. audit_hash_merkle_leaf(a).leaf = a /\ audit_hash_merkle_leaf(b).leaf = b
    BY DEF audit_hash_merkle_leaf
  <2> QED
    BY <1>1, <2>1
<1>2. ASSUME NEW l, NEW r, NEW x, NEW y,
             audit_hash_merkle_internal(l, r) = audit_hash_merkle_internal(x, y)
      PROVE  l = x /\ r = y
  <2>1. /\ audit_hash_merkle_internal(l, r).left = l
        /\ audit_hash_merkle_internal(l, r).right = r
        /\ audit_hash_merkle_internal(x, y).left = x
        /\ audit_hash_merkle_internal(x, y).right = y
    BY DEF audit_hash_merkle_internal
  <2> QED
    BY <1>2, <2>1
<1>3. /\ \A a : DOMAIN audit_hash_merkle_leaf(a) = {"leaf"}
      /\ \A l, r : DOMAIN audit_hash_merkle_internal(l, r) = {"left", "right"}
      /\ DOMAIN <<>> = {}
  BY DEF audit_hash_merkle_leaf, audit_hash_merkle_internal
<1>4. {"leaf"} # {"left", "right"} /\ {"leaf"} # {} /\ {"left", "right"} # {}
  OBVIOUS
<1> QED
  BY <1>1, <1>2, <1>3, <1>4

(* The leaves of a log of n entries. *)
LEMMA LeafAt ==
    ASSUME NEW n \in Nat \ {0}
    PROVE  /\ Counts(n)[0] = n
           /\ \A i \in 1..n : Levels(n)[0][i] = audit_hash_merkle_leaf(i)
<1>1. \A i \in 1..n : Leaves(n)[i] = audit_hash_merkle_leaf(i)
  BY DEF Leaves
<1>2. Levels(n)[0] = Leaves(n) /\ Counts(n)[0] = n
  BY LevelsRun, CountsRun
<1> QED
  BY <1>1, <1>2

(* The index of an entry stays within the level. *)
LEMMA IndexBound ==
    ASSUME NEW n \in Nat \ {0}, NEW i \in 0..(n - 1)
    PROVE  \A k \in Nat : Indices(i)[k] \in Nat /\ Indices(i)[k] < Counts(n)[k]
<1> DEFINE S == {k \in Nat : Indices(i)[k] \in Nat /\ Indices(i)[k] < Counts(n)[k]}
<1>1. 0 \in S
  BY IndicesRun, CountsRun
<1>2. ASSUME NEW k \in Nat, k \in S PROVE k + 1 \in S
  <2> DEFINE a == Indices(i)[k]
             w == Counts(n)[k]
  <2>1. a \in Nat /\ a < w /\ w \in Nat
    BY <1>2, CountsShrink
  <2>2. Indices(i)[k + 1] = a \div 2 /\ Counts(n)[k + 1] = (w + 1) \div 2
    BY IndicesRun, CountsRun
  <2> HIDE DEF a, w
  <2>3. a \div 2 \in Nat /\ a \div 2 < (w + 1) \div 2
    BY <2>1
  <2> QED
    BY <2>2, <2>3
<1>3. \A k \in Nat : k \in S
  <2> HIDE DEF S
  <2> QED
    BY <1>1, <1>2, NatsIn
<1> QED
  BY <1>3

(* No node occurs twice in a level, although an odd last one is hashed      *)
(* twice for the next.                                                      *)
LEMMA NodesDistinct ==
    ASSUME NEW n \in Nat \ {0}
    PROVE  \A k \in Nat : \A i, j \in 1..Counts(n)[k] :
             Levels(n)[k][i] = Levels(n)[k][j] => i = j
<1> DEFINE S == {k \in Nat : \A i, j \in 1..Counts(n)[k] :
                   Levels(n)[k][i] = Levels(n)[k][j] => i = j}
<1>1. 0 \in S
  BY LeafAt, HashesBind
<1>2. ASSUME NEW k \in Nat, k \in S PROVE k + 1 \in S
  <2> SUFFICES ASSUME NEW i \in 1..Counts(n)[k + 1], NEW j \in 1..Counts(n)[k + 1],
                      Levels(n)[k + 1][i] = Levels(n)[k + 1][j]
               PROVE  i = j
    OBVIOUS
  <2> DEFINE w == Counts(n)[k]
             R(x) == Levels(n)[k][IF 2 * x > w THEN 2 * x - 1 ELSE 2 * x]
  <2>1. /\ w \in Nat \ {0} /\ Counts(n)[k + 1] = (w + 1) \div 2
        /\ Levels(n)[k + 1][i] = audit_hash_merkle_internal(Levels(n)[k][2 * i - 1], R(i))
        /\ Levels(n)[k + 1][j] = audit_hash_merkle_internal(Levels(n)[k][2 * j - 1], R(j))
    BY NodeAbove
  <2> HIDE DEF R
  <2>2. Levels(n)[k][2 * i - 1] = Levels(n)[k][2 * j - 1]
    <3>1. audit_hash_merkle_internal(Levels(n)[k][2 * i - 1], R(i)) =
            audit_hash_merkle_internal(Levels(n)[k][2 * j - 1], R(j))
      BY <2>1
    <3> QED
      BY <3>1, HashesBind
  <2>3. \A x, y \in 1..w : Levels(n)[k][x] = Levels(n)[k][y] => x = y
    BY <1>2
  <2> HIDE DEF w
  <2>4. 2 * i - 1 \in 1..w /\ 2 * j - 1 \in 1..w /\ i \in Int /\ j \in Int
    BY <2>1
  <2>5. 2 * i - 1 = 2 * j - 1
    BY <2>2, <2>3, <2>4
  <2> QED
    BY <2>4, <2>5
<1>3. \A k \in Nat : k \in S
  <2> HIDE DEF S
  <2> QED
    BY <1>1, <1>2, NatsIn
<1> QED
  BY <1>3

(* The node above the one at an index, from it and its sibling. *)
LEMMA PathAbove ==
    ASSUME NEW n \in Nat \ {0}, NEW k \in Nat, NEW a \in Nat, a < Counts(n)[k]
    PROVE  LET level == Levels(n)[k] IN
           Levels(n)[k + 1][(a \div 2) + 1] =
             IF a % 2 = 0
               THEN audit_hash_merkle_internal(level[a + 1], Sibling(level, a))
               ELSE audit_hash_merkle_internal(Sibling(level, a), level[a + 1])
<1> DEFINE w == Counts(n)[k]
           level == Levels(n)[k]
           i == (a \div 2) + 1
<1>1. w \in Nat \ {0} /\ a < w /\ Len(level) = w /\ Counts(n)[k + 1] = (w + 1) \div 2
  BY CountsShrink, LevelWidth, CountsRun
<1>2. i \in 1..Counts(n)[k + 1]
  <2> HIDE DEF w, level
  <2> QED
    BY <1>1
<1>3. Levels(n)[k + 1][i] =
        audit_hash_merkle_internal(level[2 * i - 1],
            level[IF 2 * i > w THEN 2 * i - 1 ELSE 2 * i])
  BY <1>2, NodeAbove
<1>4. CASE a % 2 = 0
  <2> HIDE DEF w, level
  <2>1. /\ 2 * i - 1 = a + 1
        /\ (IF 2 * i > w THEN 2 * i - 1 ELSE 2 * i) = (IF a + 1 >= w THEN a ELSE a + 1) + 1
    BY <1>1, <1>4
  <2>2. Sibling(level, a) = level[(IF a + 1 >= w THEN a ELSE a + 1) + 1]
    BY <1>1, <1>4 DEF Sibling
  <2> QED
    BY <1>3, <1>4, <2>1, <2>2 DEF level
<1>5. CASE a % 2 # 0
  <2> HIDE DEF w, level
  <2>1. /\ 2 * i - 1 = a
        /\ (IF 2 * i > w THEN 2 * i - 1 ELSE 2 * i) = a + 1
        /\ ~(a - 1 >= w) /\ (a - 1) + 1 = a
    BY <1>1, <1>5
  <2>2. Sibling(level, a) = level[a]
    BY <1>1, <1>5, <2>1 DEF Sibling
  <2> QED
    BY <1>3, <1>5, <2>1, <2>2 DEF level
<1> QED
  BY <1>4, <1>5

(* A proof has one sibling for each round. *)
LEMMA ProofIs ==
    ASSUME NEW n \in Nat \ {0}, NEW i \in 0..(n - 1)
    PROVE  LET proof == audit_build_merkle_proof(n, i) IN
           /\ Rounds(n) \in Nat /\ Len(proof) = Rounds(n)
           /\ \A k \in Nat : k < Rounds(n) =>
                proof[k + 1] = Sibling(Levels(n)[k], Indices(i)[k])
<1> DEFINE proof == audit_build_merkle_proof(n, i)
           h == Rounds(n)
<1>1. h \in Nat
  BY RoundsAre, ProofLengthEnds
<1>2. proof = [k \in 1..h |-> Sibling(Levels(n)[k - 1], Indices(i)[k - 1])]
  BY DEF audit_build_merkle_proof
<1> HIDE DEF proof, h
<1>3. proof = [k \in 1..h |-> proof[k]]
  BY <1>2
<1>4. Len(proof) = h
  BY <1>1, <1>3, LenOf
<1>5. ASSUME NEW k \in Nat, k < h PROVE proof[k + 1] = Sibling(Levels(n)[k], Indices(i)[k])
  <2>1. k + 1 \in 1..h /\ (k + 1) - 1 = k
    BY <1>1, <1>5
  <2> QED
    BY <1>2, <2>1
<1> QED
  BY <1>1, <1>4, <1>5 DEF proof, h

-----------------------------------------------------------------------------
(* Proofs *)

(* The verification of a proof climbs along the nodes of the tree. *)
LEMMA ClimbsPath ==
    ASSUME NEW n \in Nat \ {0}, NEW i \in 0..(n - 1)
    PROVE  \A k \in Nat : k <= Rounds(n) =>
             Climb(audit_hash_merkle_leaf(i + 1), i, audit_build_merkle_proof(n, i))[k] =
               Levels(n)[k][Indices(i)[k] + 1]
<1> DEFINE proof == audit_build_merkle_proof(n, i)
           C == Climb(audit_hash_merkle_leaf(i + 1), i, proof)
           S == {k \in Nat : k <= Rounds(n) => C[k] = Levels(n)[k][Indices(i)[k] + 1]}
<1>1. 0 \in S
  <2>1. C[0] = audit_hash_merkle_leaf(i + 1)
    BY ClimbRun
  <2>2. Indices(i)[0] = i /\ i + 1 \in 1..n
    BY IndicesRun
  <2>3. Levels(n)[0][i + 1] = audit_hash_merkle_leaf(i + 1)
    BY <2>2, LeafAt
  <2> HIDE DEF C
  <2> QED
    BY <2>1, <2>2, <2>3
<1>2. ASSUME NEW k \in Nat, k \in S PROVE k + 1 \in S
  <2> SUFFICES ASSUME k + 1 <= Rounds(n)
               PROVE  C[k + 1] = Levels(n)[k + 1][Indices(i)[k + 1] + 1]
    OBVIOUS
  <2> DEFINE a == Indices(i)[k]
  <2>1. C[k + 1] = Parent(C[k], i, proof, k + 1)
    BY ClimbRun
  <2>2. Rounds(n) \in Nat /\ proof[k + 1] = Sibling(Levels(n)[k], a)
    BY ProofIs
  <2>3. C[k] = Levels(n)[k][a + 1]
    BY <1>2, <2>2
  <2>4. a \in Nat /\ a < Counts(n)[k] /\ Indices(i)[k + 1] = a \div 2
    BY IndexBound, IndicesRun
  <2>5. (k + 1) - 1 = k
    OBVIOUS
  <2> HIDE DEF a, C, proof
  <2>6. C[k + 1] = IF a % 2 = 0
                     THEN audit_hash_merkle_internal(Levels(n)[k][a + 1], Sibling(Levels(n)[k], a))
                     ELSE audit_hash_merkle_internal(Sibling(Levels(n)[k], a), Levels(n)[k][a + 1])
    BY <2>1, <2>2, <2>3, <2>5 DEF Parent, a
  <2>7. C[k + 1] = Levels(n)[k + 1][(a \div 2) + 1]
    BY <2>4, <2>6, PathAbove
  <2> QED
    BY <2>4, <2>7
<1>3. \A k \in Nat : k \in S
  <2> HIDE DEF S
  <2> QED
    BY <1>1, <1>2, NatsIn
<1> QED
  BY <1>3

(* At the top there is one node, the root, at index 0. *)
LEMMA TopIs ==
    ASSUME NEW n \in Nat \ {0}
    PROVE  /\ Rounds(n) \in Nat /\ Rounds(n) = ProofLength(n)
           /\ Counts(n)[Rounds(n)] = 1
           /\ RootOf(n) = Levels(n)[Rounds(n)][1]
           /\ \A i \in 0..(n - 1) : Indices(i)[Rounds(n)] = 0
<1>1. Rounds(n) = ProofLength(n) /\ Rounds(n) \in Nat /\ Counts(n)[Rounds(n)] = 1
  BY RoundsAre, ProofLengthEnds
<1>2. ASSUME NEW i \in 0..(n - 1) PROVE Indices(i)[Rounds(n)] = 0
  <2>1. Indices(i)[Rounds(n)] \in Nat /\ Indices(i)[Rounds(n)] < 1
    BY <1>1, IndexBound
  <2> QED
    BY <2>1
<1> QED
  BY <1>1, <1>2 DEF RootOf

(* audit_verify_merkle_proof accepts what audit_build_merkle_proof made,    *)
(* for every log and every entry of it.                                     *)
THEOREM BuiltProofVerifies ==
    ASSUME NEW n \in Nat \ {0}, NEW e \in 1..n
    PROVE  audit_verify_merkle_proof(e, e - 1, n, audit_build_merkle_proof(n, e - 1),
                                     RootOf(n))
<1> DEFINE i == e - 1
           h == Rounds(n)
           proof == audit_build_merkle_proof(n, i)
<1>1. i \in 0..(n - 1) /\ i + 1 = e
  OBVIOUS
<1>2. /\ h \in Nat /\ h = ProofLength(n) /\ RootOf(n) = Levels(n)[h][1]
      /\ Indices(i)[h] = 0 /\ Len(proof) = h
  BY <1>1, TopIs, ProofIs
<1>3. Climb(audit_hash_merkle_leaf(i + 1), i, proof)[h] = Levels(n)[h][Indices(i)[h] + 1]
  BY <1>1, <1>2, ClimbsPath
<1>4. IndexInTree(i, n)
  BY <1>1 DEF IndexInTree
<1> HIDE DEF i, h, proof
<1>5. audit_verify_merkle_proof(e, i, n, proof, RootOf(n))
  BY <1>1, <1>2, <1>3, <1>4 DEF audit_verify_merkle_proof
<1> QED
  BY <1>5 DEF i, proof

(* What an accepted hash and index say of the round below. *)
LEMMA BindsBelow ==
    ASSUME NEW n \in Nat \ {0}, NEW k \in Nat,
           NEW a \in Nat, a < Counts(n)[k], NEW b \in Nat, b < Counts(n)[k],
           a \div 2 = b \div 2, NEW node,
           b % 2 = 0 => Levels(n)[k + 1][(a \div 2) + 1] =
               audit_hash_merkle_internal(node, Sibling(Levels(n)[k], a)),
           b % 2 # 0 => Levels(n)[k + 1][(a \div 2) + 1] =
               audit_hash_merkle_internal(Sibling(Levels(n)[k], a), node)
    PROVE  a = b /\ node = Levels(n)[k][a + 1]
<1> DEFINE level == Levels(n)[k]
           s == Sibling(level, a)
           w == Counts(n)[k]
<1>1. (IF a % 2 = 0 THEN audit_hash_merkle_internal(level[a + 1], s)
                    ELSE audit_hash_merkle_internal(s, level[a + 1]))
       = IF b % 2 = 0 THEN audit_hash_merkle_internal(node, s)
                      ELSE audit_hash_merkle_internal(s, node)
  BY PathAbove
<1>2. /\ w \in Nat \ {0} /\ Len(level) = w /\ a < w /\ b < w
      /\ \A x, y \in 1..w : level[x] = level[y] => x = y
  BY CountsShrink, LevelWidth, NodesDistinct
<1>3. CASE a % 2 = b % 2
  <2>1. a = b
    BY <1>3
  <2>2. level[a + 1] = node
    <3> HIDE DEF level, s, w
    <3> QED
      BY <1>1, <1>3, HashesBind
  <2> QED
    BY <2>1, <2>2
<1>4. CASE a % 2 = 0 /\ b % 2 # 0
  <2>1. b = a + 1
    BY <1>4
  <2>2. s = level[a + 2]
    <3> HIDE DEF level, w
    <3> QED
      BY <1>2, <1>4, <2>1 DEF Sibling
  <2>3. level[a + 1] = s
    <3> HIDE DEF level, s, w
    <3> QED
      BY <1>1, <1>4, HashesBind
  <2> HIDE DEF level, s, w
  <2>4. a + 1 \in 1..w /\ a + 2 \in 1..w
    BY <1>2, <2>1
  <2> QED
    BY <1>2, <2>2, <2>3, <2>4
<1>5. CASE a % 2 # 0 /\ b % 2 = 0
  <2>1. a \in 1..w /\ a + 1 \in 1..w /\ ~(a - 1 >= w) /\ (a - 1) + 1 = a
    <3> HIDE DEF w
    <3> QED
      BY <1>2, <1>5
  <2>2. s = level[a]
    <3> HIDE DEF level, w
    <3> QED
      BY <1>2, <1>5, <2>1 DEF Sibling
  <2>3. level[a + 1] = s
    <3> HIDE DEF level, s, w
    <3> QED
      BY <1>1, <1>5, HashesBind
  <2> HIDE DEF level, s, w
  <2>4. a + 1 = a
    BY <1>2, <2>1, <2>2, <2>3
  <2> QED
    BY <2>4
<1>6. a % 2 \in {0, 1} /\ b % 2 \in {0, 1}
  OBVIOUS
<1> QED
  BY <1>3, <1>4, <1>5, <1>6

(* A proof of one entry is refused for every other entry, and for the same  *)
(* one at every other index: for every log, although an odd last node is    *)
(* its own sibling (audit_reduce_merkle_level).                             *)
THEOREM BuiltProofBinds ==
    ASSUME NEW n \in Nat \ {0}, NEW e \in 1..n, NEW f, NEW index \in Nat,
           audit_verify_merkle_proof(f, index, n, audit_build_merkle_proof(n, e - 1),
                                     RootOf(n))
    PROVE  f = e /\ index = e - 1
<1> DEFINE i == e - 1
           h == Rounds(n)
           proof == audit_build_merkle_proof(n, i)
           C == Climb(audit_hash_merkle_leaf(f), index, proof)
           D(k) == /\ Indices(index)[k] = Indices(i)[k]
                   /\ C[k] = Levels(n)[k][Indices(i)[k] + 1]
           S == {d \in Nat : d <= h => D(h - d)}
<1>1. i \in 0..(n - 1) /\ i + 1 = e /\ index \in 0..(n - 1)
  BY DEF audit_verify_merkle_proof, IndexInTree
<1>2. /\ h \in Nat /\ RootOf(n) = Levels(n)[h][1]
      /\ Indices(i)[h] = 0 /\ Indices(index)[h] = 0 /\ Len(proof) = h
  BY <1>1, TopIs, ProofIs
<1>3. C[h] = Levels(n)[h][1]
  BY <1>2 DEF audit_verify_merkle_proof
<1>4. ASSUME NEW k \in Nat, k < h, D(k + 1) PROVE D(k)
  <2> DEFINE a == Indices(i)[k]
             b == Indices(index)[k]
  <2>1. /\ a \in Nat /\ a < Counts(n)[k] /\ Indices(i)[k + 1] = a \div 2
        /\ b \in Nat /\ b < Counts(n)[k] /\ Indices(index)[k + 1] = b \div 2
    BY <1>1, IndexBound, IndicesRun
  <2>2. proof[k + 1] = Sibling(Levels(n)[k], a)
    BY <1>1, <1>4, ProofIs
  <2>3. C[k + 1] = Parent(C[k], index, proof, k + 1)
    BY ClimbRun
  <2>4. (k + 1) - 1 = k
    OBVIOUS
  <2>5. a \div 2 = b \div 2 /\ C[k + 1] = Levels(n)[k + 1][(a \div 2) + 1]
    BY <1>4, <2>1
  <2> HIDE DEF a, b, C, proof, i
  <2>6. C[k + 1] = IF b % 2 = 0
                     THEN audit_hash_merkle_internal(C[k], Sibling(Levels(n)[k], a))
                     ELSE audit_hash_merkle_internal(Sibling(Levels(n)[k], a), C[k])
    BY <2>2, <2>3, <2>4 DEF Parent, b
  <2>7. a = b /\ C[k] = Levels(n)[k][a + 1]
    <3> DEFINE v == C[k]
    <3>1. /\ b % 2 = 0 => Levels(n)[k + 1][(a \div 2) + 1] =
                audit_hash_merkle_internal(v, Sibling(Levels(n)[k], a))
          /\ b % 2 # 0 => Levels(n)[k + 1][(a \div 2) + 1] =
                audit_hash_merkle_internal(Sibling(Levels(n)[k], a), v)
      BY <2>5, <2>6
    <3> HIDE DEF v
    <3>2. /\ a \in Nat /\ a < Counts(n)[k] /\ b \in Nat /\ b < Counts(n)[k]
          /\ a \div 2 = b \div 2
      BY <2>1, <2>5
    <3>3. a = b /\ v = Levels(n)[k][a + 1]
      BY <3>1, <3>2, BindsBelow, Zenon
    <3> QED
      BY <3>3 DEF v
  <2> QED
    BY <2>7 DEF a, b
<1>5. 0 \in S
  <2>1. h - 0 = h /\ 0 + 1 = 1
    BY <1>2
  <2> HIDE DEF C, h, i
  <2> QED
    BY <1>2, <1>3, <2>1
<1>6. ASSUME NEW d \in Nat, d \in S PROVE d + 1 \in S
  <2> SUFFICES ASSUME d + 1 <= h PROVE D(h - (d + 1))
    OBVIOUS
  <2> DEFINE k == h - (d + 1)
  <2>1. k \in Nat /\ k < h /\ k + 1 = h - d /\ d <= h
    BY <1>2
  <2>2. D(h - d)
    BY <1>6, <2>1
  <2> HIDE DEF D, h
  <2>3. D(k)
    BY <1>4, <2>1, <2>2
  <2> QED
    BY <2>3
<1>7. \A d \in Nat : d \in S
  <2> HIDE DEF S
  <2> QED
    BY <1>5, <1>6, NatsIn
<1>8. D(0)
  <2>1. h \in S /\ h - h = 0 /\ h <= h
    BY <1>2, <1>7
  <2> HIDE DEF D, h
  <2> QED
    BY <2>1
<1>9. Indices(index)[0] = index /\ Indices(i)[0] = i /\ C[0] = audit_hash_merkle_leaf(f)
  BY IndicesRun, ClimbRun
<1>10. Levels(n)[0][i + 1] = audit_hash_merkle_leaf(i + 1)
  BY <1>1, LeafAt
<1> HIDE DEF C, i, h, S
<1>11. index = i /\ audit_hash_merkle_leaf(f) = audit_hash_merkle_leaf(i + 1)
  BY <1>8, <1>9, <1>10
<1>12. f = i + 1
  BY <1>11, HashesBind
<1> QED
  BY <1>1, <1>11, <1>12 DEF i

-----------------------------------------------------------------------------
(* Roots *)

(* Above the leaves, a first node is made of the first node below. *)
LEMMA LeftEdge ==
    ASSUME NEW n \in Nat \ {0}, NEW k \in Nat
    PROVE  \E r : Levels(n)[k + 1][1] = audit_hash_merkle_internal(Levels(n)[k][1], r)
<1>1. 1 \in 1..Counts(n)[k + 1] /\ 2 * 1 - 1 = 1
  BY CountsShrink
<1>2. Levels(n)[k + 1][1] = audit_hash_merkle_internal(Levels(n)[k][2 * 1 - 1],
          Levels(n)[k][IF 2 * 1 > Counts(n)[k] THEN 2 * 1 - 1 ELSE 2 * 1])
  BY <1>1, NodeAbove
<1> QED
  BY <1>1, <1>2

(* Trees with the same root have the same height: along their left edges    *)
(* the one meets a leaf when the other does.                                *)
LEMMA SameRootHeight ==
    ASSUME NEW n \in Nat \ {0}, NEW m \in Nat \ {0}, RootOf(n) = RootOf(m)
    PROVE  Rounds(m) <= Rounds(n)
<1> DEFINE h == Rounds(n)
           g == Rounds(m)
           S == {d \in Nat : d <= h => Levels(n)[h - d][1] = Levels(m)[g - d][1]}
<1>1. /\ h \in Nat /\ RootOf(n) = Levels(n)[h][1]
      /\ g \in Nat /\ RootOf(m) = Levels(m)[g][1]
  BY TopIs
<1> SUFFICES ASSUME h < g PROVE FALSE
  BY <1>1
<1> HIDE DEF h, g
<1>2. 0 \in S
  <2>1. h - 0 = h /\ g - 0 = g
    BY <1>1
  <2>2. Levels(n)[h][1] = Levels(m)[g][1]
    BY <1>1, Zenon
  <2> QED
    BY <2>1, <2>2
<1>3. ASSUME NEW d \in Nat, d \in S PROVE d + 1 \in S
  <2> SUFFICES ASSUME d + 1 <= h
               PROVE  Levels(n)[h - (d + 1)][1] = Levels(m)[g - (d + 1)][1]
    OBVIOUS
  <2> DEFINE k == h - (d + 1)
             l == g - (d + 1)
  <2>1. k \in Nat /\ l \in Nat /\ k + 1 = h - d /\ l + 1 = g - d /\ d <= h
    BY <1>1
  <2>2. Levels(n)[k + 1][1] = Levels(m)[l + 1][1]
    BY <1>3, <2>1
  <2> HIDE DEF k, l
  <2>3. PICK r : Levels(n)[k + 1][1] = audit_hash_merkle_internal(Levels(n)[k][1], r)
    BY <2>1, LeftEdge
  <2>4. PICK q : Levels(m)[l + 1][1] = audit_hash_merkle_internal(Levels(m)[l][1], q)
    BY <2>1, LeftEdge
  <2>5. audit_hash_merkle_internal(Levels(n)[k][1], r) =
          audit_hash_merkle_internal(Levels(m)[l][1], q)
    BY <2>2, <2>3, <2>4
  <2>6. Levels(n)[k][1] = Levels(m)[l][1]
    BY <2>5, HashesBind
  <2> QED
    BY <2>6 DEF k, l
<1>4. \A d \in Nat : d \in S
  <2> HIDE DEF S
  <2> QED
    BY <1>2, <1>3, NatsIn
<1>5. Levels(n)[0][1] = Levels(m)[g - h][1]
  <2>1. h \in S /\ h - h = 0 /\ h <= h
    BY <1>1, <1>4
  <2> QED
    BY <2>1
<1>6. PICK r : Levels(m)[g - h][1] = audit_hash_merkle_internal(Levels(m)[(g - h) - 1][1], r)
  <2> DEFINE k == (g - h) - 1
  <2>1. k \in Nat /\ k + 1 = g - h
    BY <1>1
  <2> HIDE DEF k
  <2>2. \E r : Levels(m)[k + 1][1] = audit_hash_merkle_internal(Levels(m)[k][1], r)
    BY <2>1, LeftEdge
  <2> QED
    BY <2>1, <2>2 DEF k
<1>7. Levels(n)[0][1] = audit_hash_merkle_leaf(1)
  BY LeafAt
<1> QED
  BY <1>5, <1>6, <1>7, HashesBind

(* A tree of the same height over fewer entries lacks the last node of      *)
(* every level.                                                             *)
LEMMA LastNodeBelow ==
    ASSUME NEW n \in Nat \ {0}, NEW m \in Nat \ {0}, NEW k \in Nat,
           NEW i \in 1..Counts(n)[k + 1],
           Levels(n)[k + 1][i] = Levels(m)[k + 1][Counts(m)[k + 1]]
    PROVE  \E j \in 1..Counts(n)[k] : Levels(n)[k][j] = Levels(m)[k][Counts(m)[k]]
<1> DEFINE w == Counts(n)[k]
           v == Counts(m)[k]
           t == Counts(m)[k + 1]
           j == IF 2 * i > w THEN 2 * i - 1 ELSE 2 * i
<1>1. /\ w \in Nat \ {0} /\ Counts(n)[k + 1] = (w + 1) \div 2
      /\ Levels(n)[k + 1][i] = audit_hash_merkle_internal(Levels(n)[k][2 * i - 1], Levels(n)[k][j])
  BY NodeAbove
<1>2. t \in 1..t
  BY CountsShrink
<1>3. /\ v \in Nat \ {0} /\ t = (v + 1) \div 2
      /\ Levels(m)[k + 1][t] = audit_hash_merkle_internal(Levels(m)[k][2 * t - 1],
             Levels(m)[k][IF 2 * t > v THEN 2 * t - 1 ELSE 2 * t])
  BY <1>2, NodeAbove
<1>4. (IF 2 * t > v THEN 2 * t - 1 ELSE 2 * t) = v
  <2> HIDE DEF t, v
  <2> QED
    BY <1>3
<1>5. i \in 1..((w + 1) \div 2)
  BY <1>1
<1>6. j \in 1..w
  <2> HIDE DEF w
  <2> QED
    BY <1>1, <1>5
<1>7. Levels(n)[k][j] = Levels(m)[k][v]
  <2> HIDE DEF j, w, v
  <2>1. audit_hash_merkle_internal(Levels(n)[k][2 * i - 1], Levels(n)[k][j]) =
          audit_hash_merkle_internal(Levels(m)[k][2 * t - 1], Levels(m)[k][v])
    BY <1>1, <1>3, <1>4
  <2> QED
    BY <2>1, HashesBind
<1> QED
  BY <1>6, <1>7

(* No two logs of different length have the same root.                      *)
THEOREM RootsDiffer ==
    ASSUME NEW n \in Nat, NEW m \in Nat, n < m
    PROVE  RootOf(n) # RootOf(m)
<1>1. CASE n = 0
  <2>1. RootOf(n) = <<>>
    BY <1>1 DEF RootOf
  <2>2. Rounds(m) \in Nat /\ RootOf(m) = Levels(m)[Rounds(m)][1]
    BY TopIs
  <2>3. CASE Rounds(m) = 0
    <3>1. RootOf(m) = audit_hash_merkle_leaf(1)
      BY <2>2, <2>3, LeafAt
    <3> QED
      BY <2>1, <3>1, HashesBind
  <2>4. CASE Rounds(m) # 0
    <3> DEFINE k == Rounds(m) - 1
    <3>1. k \in Nat /\ k + 1 = Rounds(m) /\ Counts(m)[k + 1] = 1
      BY <2>2, <2>4, TopIs
    <3> HIDE DEF k
    <3>2. m \in Nat \ {0}
      BY <1>1
    <3>3. \E r : Levels(m)[k + 1][1] = audit_hash_merkle_internal(Levels(m)[k][1], r)
      BY <3>1, <3>2, LeftEdge
    <3> QED
      BY <2>1, <2>2, <3>1, <3>3, HashesBind
  <2> QED
    BY <2>3, <2>4
<1>2. CASE n # 0
  <2> SUFFICES ASSUME RootOf(n) = RootOf(m) PROVE FALSE
    OBVIOUS
  <2> DEFINE h == Rounds(n)
             P(k) == \E i \in 1..Counts(n)[k] : Levels(n)[k][i] = Levels(m)[k][Counts(m)[k]]
             S == {d \in Nat : d <= h => P(h - d)}
  <2>1. n \in Nat \ {0} /\ m \in Nat \ {0}
    BY <1>2
  <2>2. Rounds(m) = h /\ h \in Nat
    <3>1. Rounds(m) <= Rounds(n) /\ Rounds(n) <= Rounds(m)
      BY <2>1, SameRootHeight
    <3>2. Rounds(m) \in Nat /\ Rounds(n) \in Nat
      BY <2>1, TopIs
    <3> QED
      BY <3>1, <3>2
  <2>3. P(h)
    <3>1. /\ Counts(n)[h] = 1 /\ RootOf(n) = Levels(n)[h][1]
          /\ Counts(m)[h] = 1 /\ RootOf(m) = Levels(m)[h][1]
      BY <2>1, <2>2, TopIs
    <3>2. Levels(n)[h][1] = Levels(m)[h][Counts(m)[h]]
      BY <3>1
    <3>3. 1 \in 1..Counts(n)[h]
      BY <3>1
    <3> QED
      BY <3>2, <3>3
  <2> HIDE DEF h
  <2>4. ASSUME NEW k \in Nat, P(k + 1) PROVE P(k)
    BY <2>1, <2>4, LastNodeBelow
  <2> HIDE DEF P
  <2>5. 0 \in S
    BY <2>2, <2>3
  <2>6. ASSUME NEW d \in Nat, d \in S PROVE d + 1 \in S
    <3> SUFFICES ASSUME d + 1 <= h PROVE P(h - (d + 1))
      OBVIOUS
    <3> DEFINE k == h - (d + 1)
    <3>1. k \in Nat /\ k + 1 = h - d /\ d <= h
      BY <2>2
    <3>2. P(h - d)
      BY <2>6, <3>1
    <3>3. P(k)
      BY <2>4, <3>1, <3>2
    <3> QED
      BY <3>3
  <2>7. \A d \in Nat : d \in S
    <3> HIDE DEF S
    <3> QED
      BY <2>5, <2>6, NatsIn
  <2>8. P(0)
    <3>1. h \in S /\ h - h = 0 /\ h <= h
      BY <2>2, <2>7
    <3> QED
      BY <3>1
  <2>9. PICK i \in 1..Counts(n)[0] : Levels(n)[0][i] = Levels(m)[0][Counts(m)[0]]
    BY <2>8 DEF P
  <2>10. /\ Counts(n)[0] = n /\ Counts(m)[0] = m /\ i \in 1..n /\ m \in 1..m
         /\ Levels(n)[0][i] = audit_hash_merkle_leaf(i)
         /\ Levels(m)[0][m] = audit_hash_merkle_leaf(m)
    BY <2>1, <2>9, LeafAt
  <2>11. i = m
    BY <2>9, <2>10, HashesBind
  <2> QED
    BY <2>10, <2>11
<1> QED
  BY <1>1, <1>2

-----------------------------------------------------------------------------
(* The commands, next to appends and rotations *)

(* A proof as audit-proof hands it out: made of a tree the log has had. *)
Made(x) ==
    \E n \in 1..size : \E e \in 1..n :
        /\ x.id = e /\ x.index = e - 1 /\ x.count = n
        /\ x.root = RootOf(n) /\ x.proof = audit_build_merkle_proof(n, e - 1)

(* A signature as audit-sign-root hands it out. *)
SignedOnce(s) == \E n \in 0..size : s = RootMessage(RootOf(n), n)

(* What the queries so far have put into the locals. *)
Queried ==
    /\ loc = [id |-> loc.id, rootCount |-> loc.rootCount, root |-> loc.root,
              count |-> loc.count]
    /\ loc.id \in 0..size /\ loc.rootCount \in 0..size
    /\ pc = "rootCount" => loc.root = <<>>
    /\ pc \in {"sign", "proofCount", "proofLeaves"} => loc.root = RootOf(loc.rootCount)
    /\ pc \in {"proofCount", "proofLeaves"} => loc.id # 0

MerkleInv ==
    /\ size \in 0..MaxEntries
    /\ Queried
    /\ \A x \in proofs : Made(x)
    /\ \A s \in signatures : SignedOnce(s)

(* What has been handed out stays so as the log grows. *)
LEMMA GrowthKept ==
    ASSUME MerkleInv, size' \in 0..MaxEntries, size' >= size,
           proofs' = proofs, signatures' = signatures
    PROVE  (\A x \in proofs' : Made(x)') /\ (\A s \in signatures' : SignedOnce(s)')
<1>1. size \in Nat /\ size' \in Nat
  BY MerkleAssumption DEF MerkleInv
<1>2. ASSUME NEW x \in proofs PROVE Made(x)'
  <2>1. PICK n \in 1..size : \E e \in 1..n :
           /\ x.id = e /\ x.index = e - 1 /\ x.count = n
           /\ x.root = RootOf(n) /\ x.proof = audit_build_merkle_proof(n, e - 1)
    BY DEF MerkleInv, Made
  <2>2. n \in 1..size'
    BY <1>1
  <2> QED
    BY <2>1, <2>2 DEF Made
<1>3. ASSUME NEW s \in signatures PROVE SignedOnce(s)'
  <2>1. PICK n \in 0..size : s = RootMessage(RootOf(n), n)
    BY DEF MerkleInv, SignedOnce
  <2>2. n \in 0..size'
    BY <1>1
  <2> QED
    BY <2>1, <2>2 DEF SignedOnce
<1> QED
  BY <1>2, <1>3

(* The invariant of every behaviour. *)
LEMMA MerkleInvariant == Spec => []MerkleInv
<1>1. Init => MerkleInv
  <2> SUFFICES ASSUME Init PROVE MerkleInv
    OBVIOUS
  <2>1. Queried
    BY DEF Init, Queried, NoLocals
  <2>2. size \in 0..MaxEntries
    BY MerkleAssumption DEF Init
  <2> QED
    BY <2>1, <2>2 DEF Init, MerkleInv
<1>2. ASSUME MerkleInv, Next PROVE MerkleInv'
  <2>0. size \in Nat /\ size \in 0..MaxEntries /\ Queried
    BY <1>2, MerkleAssumption DEF MerkleInv
  <2>1. ASSUME Rotate \/ \E key \in 1..stored, linked \in BOOLEAN : AppendEntry(key, linked)
        PROVE  MerkleInv'
    <3>1. /\ size < MaxEntries /\ size' = size + 1
          /\ UNCHANGED <<pc, loc, proofs, signatures>>
      BY <2>1 DEF AppendEntry, Rotate
    <3>2. size' \in 0..MaxEntries /\ size' >= size
      BY <2>0, <3>1, MerkleAssumption
    <3>3. Queried'
      BY <2>0, <3>1, <3>2 DEF Queried
    <3> QED
      BY <1>2, <3>1, <3>2, <3>3, GrowthKept DEF MerkleInv
  <2>2. ASSUME UNCHANGED <<size, proofs, signatures>>, Queried' PROVE MerkleInv'
    <3>1. size' \in 0..MaxEntries /\ size' >= size
      BY <2>0, <2>2
    <3> QED
      BY <1>2, <2>2, <3>1, GrowthKept DEF MerkleInv
  <2>3. NoLocals = [id |-> NoLocals.id, rootCount |-> NoLocals.rootCount,
                    root |-> NoLocals.root, count |-> NoLocals.count]
        /\ NoLocals.id = 0 /\ NoLocals.rootCount = 0 /\ NoLocals.root = <<>>
    BY DEF NoLocals
  <2>4. ASSUME loc' = NoLocals, pc' \in {"idle", "rootCount"}, size' = size PROVE Queried'
    BY <2>0, <2>3, <2>4 DEF Queried
  <2>5. ASSUME NEW id \in 1..size, ProveStart(id) PROVE MerkleInv'
    <3>1. Queried'
      BY <2>0, <2>5 DEF ProveStart, Queried, NoLocals, logVars
    <3> QED
      BY <2>2, <2>5, <3>1 DEF ProveStart, logVars
  <2>6. CASE SignStart \/ ProveFail
    BY <2>2, <2>4, <2>6 DEF SignStart, ProveFail, logVars
  <2>7. CASE CountForRoot
    <3>1. Queried'
      <4>1. /\ pc = "rootCount" /\ loc.root = <<>> /\ UNCHANGED size
            /\ loc' = [loc EXCEPT !.rootCount = size]
            /\ pc' = IF size = 0 THEN AfterRoot ELSE "rootLeaves"
        BY <2>0, <2>7 DEF CountForRoot, Queried, logVars
      <4>2. /\ loc'.id = loc.id /\ loc'.rootCount = size /\ loc'.root = loc.root
            /\ loc' = [id |-> loc'.id, rootCount |-> loc'.rootCount, root |-> loc'.root,
                       count |-> loc'.count]
        BY <2>0, <4>1 DEF Queried
      <4>3. size = 0 => RootOf(size) = <<>>
        BY DEF RootOf
      <4>4. AfterRoot \in {"sign", "proofCount"} /\ (AfterRoot = "proofCount" => loc.id # 0)
        BY DEF AfterRoot
      <4>5. pc' \in {"sign", "proofCount", "rootLeaves"} /\ (pc' # "rootLeaves" => size = 0)
            /\ (pc' = "proofCount" => loc.id # 0)
        BY <4>1, <4>4
      <4> QED
        BY <2>0, <4>1, <4>2, <4>3, <4>5 DEF Queried
    <3> QED
      BY <2>2, <2>7, <3>1 DEF CountForRoot, logVars
  <2>8. CASE LoadForRoot
    <3>1. Queried'
      <4>1. /\ size = loc.rootCount /\ UNCHANGED size
            /\ loc' = [loc EXCEPT !.root = RootOf(size)] /\ pc' = AfterRoot
        BY <2>8 DEF LoadForRoot, AllSelected, logVars
      <4>2. /\ loc'.id = loc.id /\ loc'.rootCount = size /\ loc'.root = RootOf(size)
            /\ loc' = [id |-> loc'.id, rootCount |-> loc'.rootCount, root |-> loc'.root,
                       count |-> loc'.count]
        BY <2>0, <4>1 DEF Queried
      <4>3. pc' \in {"sign", "proofCount"} /\ (pc' = "proofCount" => loc.id # 0)
        BY <4>1 DEF AfterRoot
      <4> QED
        BY <2>0, <4>1, <4>2, <4>3 DEF Queried
    <3> QED
      BY <2>2, <2>8, <3>1 DEF LoadForRoot, logVars
  <2>9. CASE CountForProof
    <3>1. Queried'
      <4>1. /\ pc = "proofCount" /\ pc' = "proofLeaves" /\ UNCHANGED size
            /\ loc' = [loc EXCEPT !.count = size]
        BY <2>9 DEF CountForProof, logVars
      <4>2. /\ loc'.id = loc.id /\ loc'.rootCount = loc.rootCount /\ loc'.root = loc.root
            /\ loc' = [id |-> loc'.id, rootCount |-> loc'.rootCount, root |-> loc'.root,
                       count |-> loc'.count]
        BY <2>0, <4>1 DEF Queried
      <4> QED
        BY <2>0, <4>1, <4>2 DEF Queried
    <3> QED
      BY <2>2, <2>9, <3>1 DEF CountForProof, logVars
  <2>10. CASE Sign
    <3>1. /\ pc = "sign" /\ pc' = "idle" /\ loc' = NoLocals /\ UNCHANGED <<size, proofs>>
          /\ signatures' = signatures \cup {RootMessage(loc.root, loc.rootCount)}
      BY <2>10 DEF Sign, logVars
    <3>2. loc.root = RootOf(loc.rootCount) /\ loc.rootCount \in 0..size
      BY <2>0, <3>1 DEF Queried
    <3>3. \A s \in signatures' : SignedOnce(s)'
      BY <1>2, <3>1, <3>2 DEF MerkleInv, SignedOnce
    <3>4. \A x \in proofs' : Made(x)'
      BY <1>2, <3>1 DEF MerkleInv, Made
    <3> QED
      BY <2>0, <2>4, <3>1, <3>3, <3>4 DEF MerkleInv
  <2>11. CASE LoadForProof
    <3> DEFINE y == [id |-> loc.id, index |-> loc.id - 1, count |-> loc.count,
                     root |-> loc.root,
                     proof |-> audit_build_merkle_proof(size, loc.id - 1)]
    <3>1. /\ pc = "proofLeaves" /\ pc' = "idle" /\ loc' = NoLocals
          /\ UNCHANGED <<size, signatures>>
          /\ loc.count = size /\ loc.rootCount = size /\ proofs' = proofs \cup {y}
      BY <2>11 DEF LoadForProof, AllSelected, SameTree, logVars
    <3>2. loc.root = RootOf(size) /\ loc.id \in 1..size
      BY <2>0, <3>1 DEF Queried
    <3>3. /\ y.id = loc.id /\ y.index = loc.id - 1 /\ y.count = size
          /\ y.root = RootOf(size) /\ y.proof = audit_build_merkle_proof(size, loc.id - 1)
      BY <3>1, <3>2
    <3> HIDE DEF y
    <3>4. size \in 1..size
      BY <2>0, <3>2
    <3>5. Made(y)
      BY <3>2, <3>3, <3>4 DEF Made
    <3>6. \A x \in proofs' : Made(x)'
      BY <1>2, <3>1, <3>5 DEF MerkleInv, Made
    <3>7. \A s \in signatures' : SignedOnce(s)'
      BY <1>2, <3>1 DEF MerkleInv, SignedOnce
    <3> QED
      BY <2>0, <2>4, <3>1, <3>6, <3>7 DEF MerkleInv
  <2>12. CASE Unlock
    <3>1. Queried'
      BY <2>0, <2>12 DEF Unlock, logVars, Queried
    <3> QED
      BY <2>2, <2>12, <3>1 DEF Unlock, logVars
  <2> QED
    BY <1>2, <2>1, <2>5, <2>6, <2>7, <2>8, <2>9, <2>10, <2>11, <2>12 DEF Next
<1>3. MerkleInv /\ UNCHANGED merkleVars => MerkleInv'
  BY DEF merkleVars, logVars, MerkleInv, Queried, Made, SignedOnce
<1> QED
  BY <1>1, <1>2, <1>3, PTL DEF Spec

(* audit-proof, then verify-proof: root and proof come from separate        *)
(* queries next to appends, forks and rotations, yet a proof handed out is  *)
(* accepted whenever audit_verify_chain accepts the log (vault.c:2920), and *)
(* refused for no other reason, for logs of every length.                   *)
THEOREM ProofsVerifyHolds == Spec => []ProofsVerify
<1>1. MerkleInv => ProofsVerify
  <2> SUFFICES ASSUME MerkleInv, NEW x \in proofs
               PROVE  vault_audit_verify_merkle_proof(x.id, x.index, x.count, x.proof, x.root)
                          <=> audit_verify_chain(sess)
    BY DEF ProofsVerify
  <2>1. PICK n \in 1..size : \E e \in 1..n :
           /\ x.id = e /\ x.index = e - 1 /\ x.count = n
           /\ x.root = RootOf(n) /\ x.proof = audit_build_merkle_proof(n, e - 1)
    BY DEF MerkleInv, Made
  <2>2. PICK e \in 1..n : /\ x.id = e /\ x.index = e - 1 /\ x.count = n /\ x.root = RootOf(n)
                          /\ x.proof = audit_build_merkle_proof(n, e - 1)
    BY <2>1
  <2>3. size \in Nat
    BY MerkleAssumption DEF MerkleInv
  <2>4. n \in Nat \ {0} /\ e \in 1..size
    BY <2>3
  <2>5. audit_verify_merkle_proof(e, e - 1, n, audit_build_merkle_proof(n, e - 1), RootOf(n))
    BY <2>4, BuiltProofVerifies
  <2> QED
    BY <2>2, <2>4, <2>5 DEF vault_audit_verify_merkle_proof
<1> QED
  BY <1>1, MerkleInvariant, PTL

(* A proof handed out is refused for any other entry and any other index.   *)
THEOREM ProofsBindHolds == Spec => []ProofsBind
<1>1. MerkleInv => ProofsBind
  <2> SUFFICES ASSUME MerkleInv, NEW x \in proofs,
                      NEW f \in 1..MaxEntries, NEW index \in 0..(2 * x.count),
                      audit_verify_merkle_proof(f, index, x.count, x.proof, x.root)
               PROVE  f = x.id /\ index = x.index
    BY DEF ProofsBind
  <2>1. PICK n \in 1..size : \E e \in 1..n :
           /\ x.id = e /\ x.index = e - 1 /\ x.count = n
           /\ x.root = RootOf(n) /\ x.proof = audit_build_merkle_proof(n, e - 1)
    BY DEF MerkleInv, Made
  <2>2. PICK e \in 1..n : /\ x.id = e /\ x.index = e - 1 /\ x.count = n /\ x.root = RootOf(n)
                          /\ x.proof = audit_build_merkle_proof(n, e - 1)
    BY <2>1
  <2>3. size \in Nat
    BY MerkleAssumption DEF MerkleInv
  <2>4. n \in Nat \ {0}
    BY <2>3
  <2>5. index \in Nat
    BY <2>2, <2>4
  <2>6. f = e /\ index = e - 1
    <3>1. audit_verify_merkle_proof(f, index, n, audit_build_merkle_proof(n, e - 1), RootOf(n))
      BY <2>2
    <3> QED
      BY <2>4, <2>5, <3>1, BuiltProofBinds
  <2> QED
    BY <2>2, <2>6
<1> QED
  BY <1>1, MerkleInvariant, PTL

(* A saved root shows a truncated log, whatever its length: the root of     *)
(* audit_compute_merkle_root is never that of a shorter log.                *)
THEOREM RootShowsLengthHolds == Spec => []RootShowsLength
<1>1. MerkleInv => RootShowsLength
  <2> SUFFICES ASSUME MerkleInv, NEW n \in 0..(size - 1) PROVE RootOf(n) # RootOf(size)
    BY DEF RootShowsLength
  <2>1. size \in Nat /\ n \in Nat /\ n < size
    BY MerkleAssumption DEF MerkleInv
  <2> QED
    BY <2>1, RootsDiffer
<1> QED
  BY <1>1, MerkleInvariant, PTL

(* A signature of audit-sign-root verifies with one root and one length     *)
(* only, those of the log at some moment, although count and leaves come    *)
(* from separate queries.                                                   *)
THEOREM SignedRootsBindHolds == Spec => []SignedRootsBind
<1>1. MerkleInv => SignedRootsBind
  <2> SUFFICES ASSUME MerkleInv, NEW s \in signatures
               PROVE  \E n \in 0..size : \A m \in 0..MaxEntries : \A count \in 0..MaxEntries :
                        cli_run_audit_verify_root_sig(RootOf(m), count, s)
                          <=> m = n /\ count = n
    BY DEF SignedRootsBind
  <2>1. PICK n \in 0..size : s = RootMessage(RootOf(n), n)
    BY DEF MerkleInv, SignedOnce
  <2>2. size \in Nat /\ n \in Nat
    BY MerkleAssumption DEF MerkleInv
  <2>3. ASSUME NEW m \in 0..MaxEntries, NEW count \in 0..MaxEntries
        PROVE  cli_run_audit_verify_root_sig(RootOf(m), count, s) <=> m = n /\ count = n
    <3>1. m \in Nat
      BY MerkleAssumption
    <3>2. RootOf(m) = RootOf(n) => m = n
      <4>1. m < n => RootOf(m) # RootOf(n)
        BY <2>2, <3>1, RootsDiffer
      <4>2. n < m => RootOf(n) # RootOf(m)
        BY <2>2, <3>1, RootsDiffer
      <4> QED
        BY <2>2, <3>1, <4>1, <4>2
    <3>3. RootMessage(RootOf(n), n) = RootMessage(RootOf(m), count) <=>
            RootOf(n) = RootOf(m) /\ n = count
      <4>1. \A r, c : RootMessage(r, c).root = r /\ RootMessage(r, c).count = c
        BY DEF RootMessage
      <4> QED
        BY <4>1
    <3> QED
      BY <2>1, <3>2, <3>3 DEF cli_run_audit_verify_root_sig
  <2> QED
    BY <2>3
<1> QED
  BY <1>1, MerkleInvariant, PTL
=============================================================================
