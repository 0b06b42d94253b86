---------------------------- MODULE SecretStore ----------------------------
(***************************************************************************)
(* What the vault promises about secrets, without processes, transactions, *)
(* keys or audit entries: a store of versioned values in which a version,  *)
(* once written, is never lost and never rewritten, and every write takes  *)
(* the next version number.                                                *)
(***************************************************************************)
EXTENDS Naturals

CONSTANTS Names, Values, MaxVersion

VARIABLES
    hist,   \* hist[n]: the value of every version of n, numbered from 1
    live    \* live[n]: whether the latest version of n is active

storeVars == <<hist, live>>

Init ==
    /\ hist = [n \in Names |-> [v \in {} |-> v]]
    /\ live = [n \in Names |-> FALSE]

(* x becomes version k of n, and the active one. *)
Write(n, k, x) ==
    /\ DOMAIN hist[n] = 1..(k - 1)
    /\ hist' = [hist EXCEPT ![n] = [v \in 1..k |-> IF v = k THEN x ELSE @[v]]]
    /\ live' = [live EXCEPT ![n] = TRUE]

(* The active version is retired; its value stays in the history. *)
Delete(n) ==
    /\ live[n]
    /\ live' = [live EXCEPT ![n] = FALSE]
    /\ UNCHANGED hist

Next == \E n \in Names :
    \/ \E k \in 1..MaxVersion, x \in Values : Write(n, k, x)
    \/ Delete(n)

Spec == Init /\ [][Next]_storeVars
=============================================================================
