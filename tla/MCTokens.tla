------------------------------ MODULE MCTokens ------------------------------
(* Model-checking instances of Tokens: scopes that write a subtree, or read  *)
(* and delete its sibling; and scope matching over every entry and request  *)
(* of at most MaxLen characters a resource.                                 *)
EXTENDS Tokens

CONSTANTS
    c1, c2,    \* two letters
    MaxLen     \* bound: length of a resource

SomeScopes == {<<[act |-> "write", res |-> <<c1, Star>>]>>,
               <<[act |-> "read", res |-> <<c1, c2>>],
                 [act |-> "delete", res |-> <<c1, c2>>]>>}

SomeNames == {<<c1, Slash, c2>>, <<c1, c2>>}

SomeResources == BoundedSeq(Chars, MaxLen)

(* A starred scope, a child of what it names and a child of that child. *)
SegmentScopes == {<<[act |-> "read", res |-> <<c1, Slash, Star>>]>>}

SegmentNames == {<<c1, Slash, c2>>, <<c1, Slash, c2, Slash, c2>>}

SegmentResources == SegmentNames \cup {<<c1, Slash, Star>>}
=============================================================================
