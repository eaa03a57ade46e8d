---------------------------- MODULE WholeUpgrade ----------------------------
(***************************************************************************)
(* The upgrade of a database as its users see it: sessions are in clear,   *)
(* then all of them at once are hashed, and nothing else happens to them:  *)
(* what belonged to a database before still does, and what belonged to     *)
(* none gains none.  The gate is open only when they are hashed.  How      *)
(* columns, statements, a transaction and interruptions bring this about   *)
(* is the business of SecretMigration.                                     *)
(***************************************************************************)
CONSTANTS Session       \* what there can be: a secret in a table, of a database or of none

VARIABLES
    sessions,           \* those there are
    form,               \* how they are stored, all of them
    open                \* the gate answers

vars == <<sessions, form, open>>

Init ==
    /\ sessions \subseteq Session
    /\ form \in {"clear", "hashed"}
    /\ open = FALSE

\* All or nothing, and each session is still there.
Upgrade ==
    /\ form = "clear" /\ form' = "hashed"
    /\ ~open /\ open' = TRUE
    /\ UNCHANGED sessions

\* A database that has been upgraded is not touched again.
Open ==
    /\ form = "hashed"
    /\ open' = TRUE
    /\ UNCHANGED <<sessions, form>>

Close ==
    /\ open' = FALSE
    /\ UNCHANGED <<sessions, form>>

Issue(s) ==
    /\ open
    /\ s \notin sessions
    /\ sessions' = sessions \cup {s}
    /\ UNCHANGED <<form, open>>

Next == Upgrade \/ Open \/ Close \/ \E s \in Session : Issue(s)

Spec == Init /\ [][Next]_vars
=============================================================================
