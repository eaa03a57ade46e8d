---------------------------- MODULE MCAuthServer ----------------------------
(***************************************************************************)
(* Small instances of AuthServer for TLC.                                  *)
(***************************************************************************)
EXTENDS AuthServer, TLC

\* Values that only ever get compared with each other are interchangeable.
MCSymmetry ==
    Permutations(Slugs) \cup Permutations(Apps) \cup Permutations(Scopes)

\* Every database offers every scope to its dev user.
MCSupported == [s \in Slugs |-> Scopes]
=============================================================================
