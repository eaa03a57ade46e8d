--------------------------- MODULE MCOAuthTokens ---------------------------
(***************************************************************************)
(* Small instances of OAuthTokens for TLC.                                 *)
(***************************************************************************)
EXTENDS OAuthTokens, TLC

\* Values that only ever get compared with each other are interchangeable.
Symmetry == Permutations(Tokens) \cup Permutations(Scopes)
============================================================================
