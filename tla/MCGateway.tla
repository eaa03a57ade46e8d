----------------------------- MODULE MCGateway -----------------------------
(***************************************************************************)
(* A small instance of Gateway for TLC.                                    *)
(***************************************************************************)
EXTENDS Gateway, TLC

CONSTANTS d1, p1, p2, b1

Symmetry == Permutations(Admins)

Form(enabled, password, api, mcp) ==
    [slug |-> d1, enabled |-> enabled, password |-> password,
     api |-> api, mcp |-> mcp]

\* A form that publishes REST, one that publishes /mcp and moves the database,
\* and one that switches it off and leaves the password alone.
MCForms == {Form(TRUE, p1, b1, NoToken), Form(TRUE, p2, NoToken, b1),
            Form(FALSE, Blank, b1, b1)}
=============================================================================
