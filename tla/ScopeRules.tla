----------------------------- MODULE ScopeRules -----------------------------
(***************************************************************************)
(* What becomes of a list of scopes on its way from a request to a token   *)
(* (intersectScopes of internal/oauth/register.go and its callers).  A     *)
(* list is a set here: order and repetitions reach nobody who counts them, *)
(* and the empty string is the empty set.                                  *)
(***************************************************************************)

\* intersectScopes: nothing requested means everything allowed.
IntersectScopes(requested, allowed) ==
    IF requested = {} THEN allowed ELSE requested \cap allowed

\* authorizePOST: an empty intersection falls back to all the user's scopes.
GrantedScope(requested, user) ==
    LET both == IntersectScopes(requested, user)
    IN  IF both = {} THEN user ELSE both

\* Mutant: the requested scope is taken as it is.
AsRequested(requested, old) == IF requested = {} THEN old ELSE requested

\* tokenRefreshToken: without a scope parameter the old scope is kept.
NarrowedScope(requested, old) ==
    IF requested = {} THEN old ELSE IntersectScopes(requested, old)

\* Only a non-empty request can come out empty-handed (invalid_scope).
ScopeRefused(requested, old) ==
    requested # {} /\ NarrowedScope(requested, old) = {}
=============================================================================
