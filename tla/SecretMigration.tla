-------------------------- MODULE SecretMigration ---------------------------
(***************************************************************************)
(* NewStorage on a database of any age (internal/oauth/storage.go: migrate, *)
(* addColumnIfMissing, migrateHashSecrets), in a process that may stop      *)
(* between any two statements and be started again.                        *)
(*                                                                         *)
(* A look-up hashes what the client presents once, and asks for the slug of *)
(* the database in whose name the request comes.  So what matters of a row *)
(* is how often its secret has been hashed, and the tenant it names: that  *)
(* is empty in a row older than its table's tenant column, and no slug is. *)
(* A refresh token also stores its predecessor.  The transaction works on  *)
(* a copy, "work", which Commit makes the database.                        *)
(***************************************************************************)
EXTENDS Integers

CONSTANTS
    Secrets,        \* codes and tokens, as clients know them
    Empty,          \* no predecessor
    MaxStops        \* bound: how often the process stops

ASSUME MigrationAssumption ==
    MaxStops \in Nat /\ Empty \notin Secrets

VARIABLES
    rows, columns, marker,      \* the database; marker: secrets_hashed_v1
    stage, next, work,          \* the process; work: its transaction
    stops

database == <<rows, columns, marker>>
vars == <<rows, columns, marker, stage, next, work, stops>>

Tables == {"auth_codes", "access_tokens", "refresh_tokens"}

\* What migrate adds, one after the other: tenant to oauth_clients and to the
\* three tables of secrets, family to two tables, revoked to one.
Columns == 7

TenantColumn == [auth_codes |-> 2, access_tokens |-> 3, refresh_tokens |-> 4]

\* Before the column is there, after it is back-filled, and as a gate writes it.
Tenants == {"absent", "empty", "slug"}

\* No secret is ever hashed twice.
Depths == {0, 1}

Row == [table: Tables, secret: Secrets, depth: Depths,
        from: Secrets \cup {Empty}, fromDepth: Depths, tenant: Tenants]

Stages == {"down", "columns", "hashing", "serving"}

\* targets of migrateHashSecrets: three secrets, then rotated_from
Targets == 1..4

TableOf(t) ==
    IF t = 1 THEN "auth_codes" ELSE IF t = 2 THEN "access_tokens" ELSE "refresh_tokens"

\* A row as CreateAuthCode, CreateAccessToken and CreateRefreshToken write it,
\* in a version that hashes d times, with the tenant that is there for it now.
Rows(d, tenants) ==
    {r \in [table: Tables, secret: Secrets, depth: {d},
             from: Secrets \cup {Empty}, fromDepth: {0, d}, tenant: tenants] :
       /\ r.from # Empty => r.table = "refresh_tokens" /\ r.from # r.secret
       /\ r.fromDepth = IF r.from = Empty THEN 0 ELSE d}

\* The secret is the primary key of its table.
Keyed(S) == \A r, q \in S : r.table = q.table /\ r.secret = q.secret => r = q

Hashings == IF marker THEN 1 ELSE 0

\* A gate that writes a slug has all four tenant columns before it serves.
Settled == columns >= TenantColumn["refresh_tokens"]

\* Any older version may have left the database, or none: with some of the
\* columns, its secrets in clear or, with the marker, hashed.
Init ==
    /\ marker \in BOOLEAN
    /\ columns \in 0..Columns
    /\ rows \in SUBSET {r \in Rows(Hashings, IF Settled THEN Tenants
                                              ELSE Tenants \ {"slug"}) :
                           r.tenant = "absent" <=> columns < TenantColumn[r.table]}
    /\ Keyed(rows)
    /\ stage = "down"
    /\ next = 1
    /\ work = {}
    /\ stops = 0

\* NewStorage; CREATE TABLE and CREATE INDEX IF NOT EXISTS find or make the
\* tables.
Start ==
    /\ stage = "down"
    /\ stage' = "columns"
    /\ UNCHANGED <<database, next, work, stops>>

\* ALTER TABLE ... ADD COLUMN tenant ... DEFAULT '' fills in the rows there are.
BackFilled(S, column) ==
    {IF TenantColumn[r.table] = column THEN [r EXCEPT !.tenant = "empty"] ELSE r
       : r \in S}

\* Mutant: ALTER TABLE without looking fails on a column that is there.
AlterTable ==
    /\ stage = "columns" /\ next <= Columns
    /\ columns < next
    /\ columns' = next
    /\ rows' = BackFilled(rows, next)
    /\ next' = next + 1
    /\ UNCHANGED <<marker, stage, work, stops>>

\* One statement per column, each committed on its own.
AddColumnIfMissing ==
    /\ stage = "columns" /\ next <= Columns
    /\ IF columns < next
         THEN columns' = next /\ rows' = BackFilled(rows, next)
         ELSE UNCHANGED <<columns, rows>>
    /\ next' = next + 1
    /\ UNCHANGED <<marker, stage, work, stops>>

\* The marker is read; without it the transaction begins.
ReadMarker ==
    /\ stage = "columns" /\ next > Columns
    /\ IF marker THEN stage' = "serving" /\ work' = work
                 ELSE stage' = "hashing" /\ work' = rows
    /\ next' = 1
    /\ UNCHANGED <<database, stops>>

\* Mutant: rotated_from is left as it is.
HashedTokens(S, t) ==
    {IF t \in 1..3 /\ r.table = TableOf(t) THEN [r EXCEPT !.depth = @ + 1] ELSE r
       : r \in S}

\* SELECT and UPDATE of one target.
Hashed(S, t) ==
    {IF t \in 1..3 /\ r.table = TableOf(t) THEN [r EXCEPT !.depth = @ + 1]
     ELSE IF t = 4 /\ r.from # Empty THEN [r EXCEPT !.fromDepth = @ + 1]
     ELSE r : r \in S}

\* Mutant: the UPDATEs run outside the transaction.
HashInPlace ==
    /\ stage = "hashing" /\ next \in Targets
    /\ rows' = Hashed(rows, next)
    /\ work' = rows'
    /\ next' = next + 1
    /\ UNCHANGED <<columns, marker, stage, stops>>

HashTarget ==
    /\ stage = "hashing" /\ next \in Targets
    /\ work' = Hashed(work, next)
    /\ next' = next + 1
    /\ UNCHANGED <<database, stage, stops>>

\* The marker is inserted and the transaction commits.
Commit ==
    /\ stage = "hashing" /\ next \notin Targets
    /\ rows' = work
    /\ marker' = TRUE
    /\ stage' = "serving"
    /\ work' = {} /\ next' = 1
    /\ UNCHANGED <<columns, stops>>

\* CreateAuthCode, CreateAccessToken, CreateRefreshToken on a running gate.
Issue(r) ==
    /\ stage = "serving"
    /\ \A q \in rows : q.table # r.table \/ q.secret # r.secret
    /\ rows' = rows \cup {r}
    /\ UNCHANGED <<columns, marker, stage, next, work, stops>>

\* A statement fails, or the process is stopped.  NewStorage returns the error
\* and main gives up; an open transaction is rolled back.
Stop ==
    /\ stage # "down" /\ stops < MaxStops
    /\ stage' = "down"
    /\ stops' = stops + 1
    /\ work' = {} /\ next' = 1
    /\ UNCHANGED database

Starting == Start \/ AddColumnIfMissing \/ ReadMarker \/ HashTarget \/ Commit

Serving == \E r \in Rows(1, {"slug"}) : Issue(r)

Next == Starting \/ Serving \/ Stop

Spec == Init /\ [][Next]_vars

\* The process is started again when it has stopped, and runs.
FairSpec == Spec /\ WF_vars(Starting)

-----------------------------------------------------------------------------
\* Database and process have the shape the code gives them; no secret is hashed
\* twice.
TypeOK ==
    /\ rows \subseteq Row /\ work \subseteq Row
    /\ columns \in 0..Columns
    /\ marker \in BOOLEAN
    /\ stage \in Stages
    /\ next \in 1..(Columns + 1)
    /\ stops \in Nat

\* What a look-up for the database the row belongs to finds: it compares one
\* hash, and the slug.
Found(r) == r.depth = 1 /\ r.tenant = "slug"

\* A running gate finds every session that names its database, however often the
\* upgrade was interrupted: each secret is hashed exactly once (comment of
\* migrateHashSecrets: a second run would log everybody out).  What is older
\* than its table's tenant column names none and is found by nobody (comment in
\* migrate: those clients have to connect anew).
SessionsSurvive ==
    stage = "serving" =>
      /\ columns = Columns
      /\ \A r \in rows : Found(r) <=> r.tenant # "empty"

\* At every moment that a stop can reveal, a refresh token stores its
\* predecessor the way the predecessor's own row is stored.
ChainConverges ==
    \A r, q \in rows :
      r.from # Empty /\ q.table = "refresh_tokens" /\ q.secret = r.from
        => r.fromDepth = q.depth

\* An interrupted upgrade can always be taken up: the gate comes up.
ComesUp == stage = "down" ~> stage = "serving"

\* What these rest on: the marker tells how the database is stored, a row has a
\* tenant when its table has the column, and a gate serves only what the marker
\* vouches for.
MarkerTells ==
    /\ rows \subseteq Rows(Hashings, Tenants)
    /\ \A r \in rows : r.tenant = "absent" <=> columns < TenantColumn[r.table]
    /\ stage = "serving" => marker /\ columns = Columns

\* The migration has added the columns it has passed, and its transaction has
\* hashed exactly the targets it has passed.
Passed(S, n) ==
    \A r \in S :
      /\ r.from # Empty => r.table = "refresh_tokens" /\ r.from # r.secret
      /\ r.tenant # "absent"
      /\ r.depth = IF \E t \in 1..3 : t < n /\ TableOf(t) = r.table THEN 1 ELSE 0
      /\ r.fromDepth = IF n > 4 /\ r.from # Empty THEN 1 ELSE 0

Progress ==
    /\ stage = "down" => next = 1
    /\ stage = "columns" => columns >= next - 1 /\ next <= Columns + 1
    /\ stage = "hashing" =>
         ~marker /\ columns = Columns /\ next <= 5 /\ Passed(work, next)

-----------------------------------------------------------------------------
\* The database as its users see it: see WholeUpgrade.  A session is a row with
\* the predecessor it names, and whether it names its database; it is stored in
\* a form if all of it is.
SessionOf(r) == [table |-> r.table, secret |-> r.secret, from |-> r.from,
                 named |-> r.tenant = "slug"]

SessionsIn(S) == {SessionOf(r) : r \in S}

StoredAs(r, d) == r.depth = d /\ (r.from # Empty => r.fromDepth = d)

Form ==
    IF marker /\ \A r \in rows : StoredAs(r, 1) THEN "hashed"
    ELSE IF ~marker /\ \A r \in rows : StoredAs(r, 0) THEN "clear"
    ELSE "torn"

Whole == INSTANCE WholeUpgrade
           WITH Session <- [table: Tables, secret: Secrets,
                            from: Secrets \cup {Empty}, named: BOOLEAN],
                sessions <- SessionsIn(rows), form <- Form,
                open <- stage = "serving"

\* Wherever it is interrupted, the upgrade hashes every secret and every
\* reference to one together or not at all, loses no session nor the name of its
\* database, and the gate opens only on the result (migrate, migrateHashSecrets).
ImplementsWholeUpgrade == Whole!Spec
=============================================================================
