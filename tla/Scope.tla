------------------------------- MODULE Scope -------------------------------
(***************************************************************************)
(* Which requests a token's scope covers (src/src/access.c).  A scope is a *)
(* list of entries `action:resource`; resources are strings, kept as       *)
(* sequences of characters because the matching rules are about prefixes   *)
(* and path separators.                                                    *)
(***************************************************************************)
EXTENDS Naturals, SequencesExt

CONSTANTS
    Star, Slash,  \* the two characters that mean something
    NoColon       \* action of a scope without a colon: its text is in res

(* Mutant of StarMatches: a plain prefix test. *)
PrefixMatches(prefix, required) == IsPrefix(prefix, required)

(* A pattern prefix* : the prefix, and after it, unless the prefix ends in  *)
(* a slash, a slash or the end of the string.                               *)
StarMatches(prefix, required) ==
    /\ IsPrefix(prefix, required)
    /\ \/ Last(prefix) = Slash
       \/ Len(required) = Len(prefix)
       \/ required[Len(prefix) + 1] = Slash

access_resource_matches(allowed, required) ==
    \/ allowed = <<Star>>
    \/ /\ Len(allowed) > 1 /\ Last(allowed) = Star
       /\ StarMatches(Front(allowed), required)
    \/ /\ allowed = required
       /\ allowed = <<>> \/ Last(allowed) # Star

access_one_scope_allows(entry, request) ==
    IF entry.act = NoColon
      THEN entry.res = <<Star>>
      ELSE /\ request.act # NoColon
           /\ entry.act \in {Star, request.act}
           /\ access_resource_matches(entry.res, request.res)

(* The entries separated by commas, in turn; an empty request is refused. *)
access_scope_allows(scope, request) ==
    /\ request.act # NoColon \/ request.res # <<>>
    /\ \E i \in DOMAIN scope : access_one_scope_allows(scope[i], request)
=============================================================================
