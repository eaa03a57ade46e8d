-------------------------- MODULE MCAdminRegistry --------------------------
(***************************************************************************)
(* A small instance of AdminRegistry for TLC: the forms differ in nothing  *)
(* but the switch and the password.                                        *)
(***************************************************************************)
EXTENDS AdminRegistry, TLC

Symmetry == Permutations(Admins)

MCForms ==
    [slug: Slugs, enabled: BOOLEAN, password: Passwords \cup {Blank},
     api: {NoToken}, mcp: {NoToken}]
=============================================================================
