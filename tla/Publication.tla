---------------------------- MODULE Publication -----------------------------
(***************************************************************************)
(* What the registry promises to whoever asks for a database: it answers   *)
(* from one whole state that the table of databases was in, never from a   *)
(* mixture of two, and changes from one such state to another at once.     *)
(*                                                                         *)
(* The state may be an old one.  AdminRegistry, with its handlers that     *)
(* edit, build, swap and close at the same time and fail in between,       *)
(* implements this.                                                        *)
(***************************************************************************)
CONSTANTS
    Slugs,
    Row             \* what a row of the table can be; it has a slug and
                    \* a switch "enabled"

VARIABLES
    table,          \* the rows, one for each slug at most
    taken,          \* the copies that may still be put on show
    shown           \* the copy that requests are answered from

vars == <<table, taken, shown>>

Copy == {r \in table : r.enabled}

Others(s) == {r \in table : r.slug # s}

Init ==
    /\ table \subseteq Row
    /\ \A r, q \in table : r.slug = q.slug => r = q
    /\ taken = {}
    /\ shown = Copy

\* A row is put in the place of the one there was, if any, or taken out.
Edit ==
    /\ \/ \E row \in Row : table' = Others(row.slug) \cup {row}
       \/ \E s \in Slugs : table' = Others(s)
    /\ UNCHANGED <<taken, shown>>

Take ==
    /\ taken' = taken \cup {Copy}
    /\ UNCHANGED <<table, shown>>

Show ==
    /\ shown' \in taken
    /\ taken' \in SUBSET taken
    /\ UNCHANGED table

\* The process starts again.
Restart ==
    /\ shown' = Copy
    /\ taken' = {}
    /\ UNCHANGED table

Next == Edit \/ Take \/ Show \/ Restart

Spec == Init /\ [][Next]_vars
=============================================================================
