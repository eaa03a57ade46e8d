----------------------- MODULE SecretMigration_proofs -----------------------
(***************************************************************************)
(* SecretMigration's invariants, for every set of secrets, every age of the *)
(* database and any number of interruptions.                               *)
(*                                                                         *)
(* The invariant says what each stage may rely on: the marker is written in *)
(* the same commit as the hashes (MarkerTells), and until then the          *)
(* transaction's copy is hashed up to the target it stands at (Progress).   *)
(***************************************************************************)
EXTENDS SecretMigration, TLAPS

Inv == TypeOK /\ MarkerTells /\ Progress

\* Every row any version writes is a row.
LEMMA RowsAreRows ==
  ASSUME NEW d \in {0, 1}, NEW T \in SUBSET Tenants
  PROVE  Rows(d, T) \subseteq Row /\ Rows(d, T) \subseteq Rows(d, Tenants)
  BY DEF Rows, Row, Depths

\* Filling in a tenant column changes nothing else of a row.
LEMMA BackFilling ==
  ASSUME NEW d \in {0, 1}, NEW S, S \subseteq Rows(d, Tenants), NEW column
  PROVE  /\ BackFilled(S, column) \subseteq Rows(d, Tenants)
         /\ \A q \in BackFilled(S, column) : \E r \in S :
              /\ q.table = r.table
              /\ q.tenant = IF TenantColumn[r.table] = column THEN "empty"
                                                             ELSE r.tenant
<1> SUFFICES ASSUME NEW q \in BackFilled(S, column)
             PROVE  /\ q \in Rows(d, Tenants)
                    /\ \E r \in S :
                         /\ q.table = r.table
                         /\ q.tenant = IF TenantColumn[r.table] = column THEN "empty"
                                                                        ELSE r.tenant
  OBVIOUS
<1>1. PICK r \in S :
        q = IF TenantColumn[r.table] = column THEN [r EXCEPT !.tenant = "empty"] ELSE r
  BY DEF BackFilled
<1>2. CASE TenantColumn[r.table] = column
  BY <1>1, <1>2 DEF Rows, Tenants
<1>3. CASE TenantColumn[r.table] # column
  BY <1>1, <1>3
<1> QED
  BY <1>2, <1>3

\* A database whose secrets are in clear is one of which no target is hashed.
LEMMA ClearIsPassed ==
  ASSUME NEW S, S \subseteq Rows(0, Tenants), \A r \in S : r.tenant # "absent"
  PROVE  Passed(S, 1)
  BY DEF Rows, Passed

\* Hashing one target takes the transaction past it; secrets are only touched
\* while in clear.
LEMMA HashingPasses ==
  ASSUME NEW S, S \subseteq Row, NEW t \in Targets, Passed(S, t)
  PROVE  Hashed(S, t) \subseteq Row /\ Passed(Hashed(S, t), t + 1)
<1> SUFFICES ASSUME NEW q \in Hashed(S, t)
             PROVE  q \in Row /\ Passed({q}, t + 1)
  BY DEF Passed
<1>1. PICK r \in S :
        q = IF t \in 1..3 /\ r.table = TableOf(t) THEN [r EXCEPT !.depth = @ + 1]
            ELSE IF t = 4 /\ r.from # Empty THEN [r EXCEPT !.fromDepth = @ + 1]
            ELSE r
  BY DEF Hashed
<1>2. /\ r \in Row /\ r.tenant # "absent"
      /\ r.from # Empty => r.table = "refresh_tokens" /\ r.from # r.secret
      /\ r.depth = IF \E u \in 1..3 : u < t /\ TableOf(u) = r.table THEN 1 ELSE 0
      /\ r.fromDepth = IF t > 4 /\ r.from # Empty THEN 1 ELSE 0
  BY DEF Passed
<1>3. TableOf(1) = "auth_codes" /\ TableOf(2) = "access_tokens"
      /\ TableOf(3) = "refresh_tokens"
  BY DEF TableOf
<1>4. CASE t \in 1..3 /\ r.table = TableOf(t)
  <2>1. r.depth = 0
    BY <1>2, <1>3, <1>4
  <2>2. /\ q = [r EXCEPT !.depth = 1] /\ q \in Row
        /\ q.depth = 1 /\ q.table = r.table /\ q.from = r.from
        /\ q.fromDepth = r.fromDepth /\ q.secret = r.secret /\ q.tenant = r.tenant
    BY <1>1, <1>2, <1>4, <2>1 DEF Row, Depths
  <2>3. t < t + 1 /\ TableOf(t) = q.table /\ ~(t + 1 > 4 /\ t > 3)
    BY <1>4, <2>2
  <2>. QED BY <1>2, <1>4, <2>2, <2>3 DEF Passed, Targets
<1>5. CASE t = 4
  <2>1. q = IF r.from # Empty THEN [r EXCEPT !.fromDepth = 1] ELSE r
    BY <1>1, <1>2, <1>5 DEF Row, Depths
  <2>2. /\ q \in Row /\ q.depth = r.depth /\ q.table = r.table /\ q.from = r.from
        /\ q.secret = r.secret /\ q.tenant = r.tenant
        /\ q.fromDepth = IF r.from # Empty THEN 1 ELSE 0
    BY <1>2, <1>5, <2>1 DEF Row, Depths
  <2>3. \A u \in 1..3 : (u < t <=> u < t + 1)
    BY <1>5
  <2>. QED BY <1>2, <1>5, <2>2, <2>3 DEF Passed
<1>6. CASE t \in 1..3 /\ r.table # TableOf(t)
  <2>1. q = r
    BY <1>1, <1>6
  <2>2. \A u \in 1..3 : u < t + 1 /\ TableOf(u) = r.table => u < t
    BY <1>6
  <2>3. \A u \in 1..3 : u < t => u < t + 1
    BY <1>6
  <2>4. ~(t > 4) /\ ~(t + 1 > 4)
    BY <1>6
  <2>. QED BY <1>2, <2>1, <2>2, <2>3, <2>4 DEF Passed
<1>. QED BY <1>4, <1>5, <1>6 DEF Targets

\* When every target is passed, every row is stored as this version stores it.
LEMMA PassedIsHashed ==
  ASSUME NEW S, S \subseteq Row, Passed(S, 5) PROVE S \subseteq Rows(1, Tenants)
<1> SUFFICES ASSUME NEW r \in S PROVE r \in Rows(1, Tenants)
  OBVIOUS
<1>1. r.table \in {TableOf(1), TableOf(2), TableOf(3)}
  BY DEF Row, Tables, TableOf
<1>2. r.depth = 1 /\ r.fromDepth = IF r.from = Empty THEN 0 ELSE 1
  BY <1>1 DEF Passed
<1>3. r.from # Empty => r.table = "refresh_tokens" /\ r.from # r.secret
  BY DEF Passed
<1>. QED BY <1>2, <1>3 DEF Rows, Row

\* Every table of secrets has its tenant column among the added ones.
LEMMA TenantColumns ==
  \A t \in Tables : TenantColumn[t] \in 2..4 /\ TenantColumn[t] <= Columns
  BY DEF Tables, TenantColumn, Columns

\* A database an older version left behind satisfies the invariant.
LEMMA InvInit == Init => Inv
<1> SUFFICES ASSUME Init PROVE Inv
  OBVIOUS
<1>1. Hashings \in {0, 1}
  BY DEF Hashings
<1>2. /\ rows \subseteq Rows(Hashings, Tenants) /\ rows \subseteq Row
      /\ \A r \in rows : r.tenant = "absent" <=> columns < TenantColumn[r.table]
  <2>1. PICK T \in SUBSET Tenants :
          /\ rows \subseteq Rows(Hashings, T)
          /\ \A r \in rows : r.tenant = "absent" <=> columns < TenantColumn[r.table]
    <3>1. CASE Settled
      BY <3>1 DEF Init
    <3>2. CASE ~Settled
      BY <3>2 DEF Init
    <3> QED
      BY <3>1, <3>2
  <2> QED
    BY <1>1, <2>1, RowsAreRows
<1>3. TypeOK
  BY <1>2 DEF Init, TypeOK, Stages, Columns
<1>. QED BY <1>2, <1>3 DEF Inv, Init, MarkerTells, Progress

\* Adding a column keeps it: the rows that had no tenant before the column of
\* their table have one after it (storage.go: addColumnIfMissing).
LEMMA InvAddColumn == Inv /\ AddColumnIfMissing => Inv'
<1> SUFFICES ASSUME Inv, AddColumnIfMissing PROVE Inv'
  OBVIOUS
<1>1. /\ stage = "columns" /\ stage' = "columns" /\ next' = next + 1
      /\ next \in 1..Columns /\ columns \in 0..Columns /\ columns >= next - 1
      /\ marker' = marker /\ work' = work /\ stops' = stops
  BY DEF AddColumnIfMissing, Inv, TypeOK, Progress
<1>2. Hashings' = Hashings /\ Hashings \in {0, 1}
  BY <1>1 DEF Hashings
<1>3. CASE columns < next
  <2>1. columns' = next /\ rows' = BackFilled(rows, next) /\ columns = next - 1
    BY <1>1, <1>3 DEF AddColumnIfMissing
  <2>2. rows \subseteq Rows(Hashings, Tenants)
    BY DEF Inv, MarkerTells
  <2>3. rows' \subseteq Rows(Hashings, Tenants) /\ rows' \subseteq Row
    BY <1>2, <2>1, <2>2, BackFilling, RowsAreRows
  <2>4. ASSUME NEW q \in rows'
        PROVE  q.tenant = "absent" <=> columns' < TenantColumn[q.table]
    <3>1. PICK r \in rows :
            /\ q.table = r.table
            /\ q.tenant = IF TenantColumn[r.table] = next THEN "empty" ELSE r.tenant
      BY <1>2, <2>1, <2>2, BackFilling
    <3>2. r.tenant = "absent" <=> columns < TenantColumn[r.table]
      BY DEF Inv, MarkerTells
    <3>3. TenantColumn[r.table] \in Int
      BY TenantColumns DEF Inv, TypeOK, Row
    <3> QED
      BY <1>1, <2>1, <3>1, <3>2, <3>3
  <2> QED
    BY <1>1, <1>2, <2>1, <2>3, <2>4 DEF Inv, TypeOK, MarkerTells, Progress, Columns
<1>4. CASE ~(columns < next)
  <2>1. columns' = columns /\ rows' = rows
    BY <1>4 DEF AddColumnIfMissing
  <2> QED
    BY <1>1, <1>2, <1>4, <2>1 DEF Inv, TypeOK, MarkerTells, Progress, Columns
<1> QED
  BY <1>3, <1>4

\* Every step of the upgrade, a stop included, preserves it
\* (storage.go: migrate, migrateHashSecrets).
LEMMA InvNext == Inv /\ [Next]_vars => Inv'
<1> SUFFICES ASSUME Inv, [Next]_vars PROVE Inv'
  OBVIOUS
<1>. USE DEF Inv
<1>1. CASE Start
  <2>1. next = 1
    BY <1>1 DEF Start, Progress
  <2>. QED BY <1>1, <2>1
       DEF Start, TypeOK, MarkerTells, Progress, database, Stages, Hashings, Columns
<1>2. CASE AddColumnIfMissing
  BY <1>2, InvAddColumn
<1>3. CASE ReadMarker
  <2>1. columns = Columns /\ stage = "columns"
    BY <1>3 DEF ReadMarker, Progress, TypeOK, Columns
  <2>2. \A r \in rows : r.tenant # "absent"
    BY <2>1, TenantColumns DEF MarkerTells, TypeOK, Row, Columns
  <2>3. ~marker => Passed(rows, 1)
    BY <2>2, ClearIsPassed DEF MarkerTells, Hashings
  <2>4. TypeOK' /\ MarkerTells'
    BY <1>3, <2>1
       DEF ReadMarker, TypeOK, MarkerTells, database, Stages, Hashings, Columns
  <2>5. Progress'
    BY <1>3, <2>1, <2>3 DEF ReadMarker, Progress, database
  <2>. QED BY <2>4, <2>5
<1>4. CASE HashTarget
  <2>1. /\ stage = "hashing" /\ next \in Targets /\ Passed(work, next)
        /\ ~marker /\ columns = Columns /\ work \subseteq Row
    BY <1>4 DEF HashTarget, Progress, TypeOK
  <2>2. Hashed(work, next) \subseteq Row /\ Passed(Hashed(work, next), next + 1)
    BY <2>1, HashingPasses
  <2>3. TypeOK' /\ MarkerTells'
    BY <1>4, <2>1, <2>2
       DEF HashTarget, TypeOK, MarkerTells, database, Stages, Hashings, Targets, Columns
  <2>4. Progress'
    <3>1. work' = Hashed(work, next) /\ next' = next + 1 /\ stage' = "hashing"
          /\ marker' = marker /\ columns' = columns
      BY <1>4, <2>1 DEF HashTarget, database
    <3>2. Passed(work', next')
      BY <2>2, <3>1
    <3>. QED BY <2>1, <3>1, <3>2 DEF Progress, Targets
  <2>. QED BY <2>3, <2>4
<1>5. CASE Commit
  <2>1. next = 5 /\ Passed(work, 5) /\ columns = Columns /\ work \subseteq Row
    BY <1>5 DEF Commit, Progress, Targets, TypeOK
  <2>2. work \subseteq Rows(1, Tenants)
    BY <2>1, PassedIsHashed
  <2>3. \A r \in work : r.tenant # "absent" /\ ~(columns < TenantColumn[r.table])
    BY <2>1, TenantColumns DEF Passed, Row, Columns
  <2>4. TypeOK' /\ Progress'
    BY <1>5, <2>1 DEF Commit, TypeOK, Progress, Stages, Columns
  <2>5. MarkerTells'
    BY <1>5, <2>1, <2>2, <2>3 DEF Commit, MarkerTells, Hashings
  <2>. QED BY <2>4, <2>5
<1>6. CASE Serving
  <2>1. PICK r \in Rows(1, {"slug"}) : Issue(r)
    BY <1>6 DEF Serving
  <2>2. r \in Row /\ r \in Rows(1, Tenants) /\ r.tenant = "slug"
    <3>1. {"slug"} \in SUBSET Tenants
      BY DEF Tenants
    <3> QED
      BY <3>1, RowsAreRows DEF Rows
  <2>3. columns = Columns /\ marker /\ ~(columns < TenantColumn[r.table])
    BY <2>1, <2>2, TenantColumns DEF Issue, MarkerTells, Row, Columns
  <2>. QED BY <2>1, <2>2, <2>3
       DEF Issue, TypeOK, MarkerTells, Progress, Stages, Hashings
<1>7. CASE Stop
  BY <1>7 DEF Stop, TypeOK, MarkerTells, Progress, database, Stages, Hashings, Columns
<1>8. CASE UNCHANGED vars
  BY <1>8 DEF vars, TypeOK, MarkerTells, Progress, Hashings, Passed
<1>. QED BY <1>1, <1>2, <1>3, <1>4, <1>5, <1>6, <1>7, <1>8 DEF Next, Starting

\* The inductive invariant holds of every state the upgrade reaches.
THEOREM Invariance == Spec => []Inv
  BY InvInit, InvNext, PTL DEF Spec

\* Database and process keep their shape; in particular no secret is hashed a
\* second time, which would log everybody out (storage.go: migrateHashSecrets).
THEOREM TypeCorrect == Spec => []TypeOK
<1>1. Inv => TypeOK
  BY DEF Inv
<1>. QED BY <1>1, Invariance, PTL

\* However often the upgrade was interrupted, a running gate finds every session
\* that names its database, and of the others, which are older than the tenant
\* column of their table, none (storage.go: migrate, migrateHashSecrets).
THEOREM UpgradeKeepsSessions == Spec => []SessionsSurvive
<1>1. Inv => SessionsSurvive
  <2> SUFFICES ASSUME Inv, stage = "serving", NEW r \in rows
               PROVE  columns = Columns /\ (Found(r) <=> r.tenant # "empty")
    BY DEF SessionsSurvive, Inv, MarkerTells
  <2>1. columns = Columns /\ r.depth = 1
    BY DEF Inv, MarkerTells, Hashings, Rows
  <2>2. r.tenant \in Tenants /\ r.tenant # "absent"
    BY <2>1, TenantColumns DEF Inv, MarkerTells, TypeOK, Row, Columns
  <2> QED
    BY <2>1, <2>2 DEF Found, Tenants
<1>. QED BY <1>1, Invariance, PTL

\* At any moment a stop can reveal, a rotated token names its predecessor the
\* way the predecessor is stored (storage.go: migrateHashSecrets, the targets).
THEOREM RotationConverges == Spec => []ChainConverges
<1>1. Inv => ChainConverges
  BY DEF Inv, MarkerTells, ChainConverges, Rows, Hashings
<1>. QED BY <1>1, Invariance, PTL

-----------------------------------------------------------------------------
\* The transaction's copy holds the sessions of the database.
Unlost == stage = "hashing" => SessionsIn(work) = SessionsIn(rows)

\* Hashing a target loses no session and makes none.
LEMMA HashingKeepsSessions ==
  ASSUME NEW S \in SUBSET Row, NEW t \in Targets
  PROVE  SessionsIn(Hashed(S, t)) = SessionsIn(S)
<1> DEFINE H(r) == IF t \in 1..3 /\ r.table = TableOf(t)
                     THEN [r EXCEPT !.depth = @ + 1]
                     ELSE IF t = 4 /\ r.from # Empty
                            THEN [r EXCEPT !.fromDepth = @ + 1]
                            ELSE r
<1>1. ASSUME NEW r \in S PROVE SessionOf(H(r)) = SessionOf(r)
  BY DEF SessionOf, Row
<1>2. Hashed(S, t) = {H(r) : r \in S}
  BY DEF Hashed
<1> HIDE DEF H
<1> QED
  BY <1>1, <1>2 DEF SessionsIn

\* Adding a column takes the name of its database from no session: the rows of
\* its table had none.
LEMMA BackFillingKeepsSessions ==
  ASSUME Inv, AddColumnIfMissing PROVE SessionsIn(rows') = SessionsIn(rows)
<1>1. CASE columns < next
  <2>1. rows' = BackFilled(rows, next)
    BY <1>1 DEF AddColumnIfMissing
  <2> DEFINE B(r) == IF TenantColumn[r.table] = next
                       THEN [r EXCEPT !.tenant = "empty"] ELSE r
  <2>2. ASSUME NEW r \in rows PROVE SessionOf(B(r)) = SessionOf(r)
    <3>1. TenantColumn[r.table] = next => r.tenant = "absent"
      BY <1>1 DEF Inv, MarkerTells
    <3>2. r \in Row
      BY DEF Inv, TypeOK
    <3> QED
      BY <3>1, <3>2 DEF SessionOf, Row
  <2>3. rows' = {B(r) : r \in rows}
    BY <2>1 DEF BackFilled
  <2> HIDE DEF B
  <2> QED
    BY <2>2, <2>3 DEF SessionsIn
<1>2. CASE ~(columns < next)
  BY <1>2 DEF AddColumnIfMissing, SessionsIn
<1> QED
  BY <1>1, <1>2

\* Every step keeps the copy complete.
LEMMA NextUnlost == Inv /\ Unlost /\ [Next]_vars => Unlost'
<1> SUFFICES ASSUME Inv, Unlost, [Next]_vars PROVE Unlost'
  OBVIOUS
<1>1. CASE Start
  BY <1>1 DEF Start, Unlost
<1>2. CASE AddColumnIfMissing
  BY <1>2 DEF AddColumnIfMissing, Unlost
<1>3. CASE ReadMarker
  BY <1>3 DEF ReadMarker, Unlost, database
<1>4. CASE HashTarget
  <2>1. SessionsIn(Hashed(work, next)) = SessionsIn(work)
    BY <1>4, HashingKeepsSessions DEF HashTarget, Inv, TypeOK
  <2> QED
    BY <1>4, <2>1 DEF HashTarget, Unlost, database
<1>5. CASE Commit
  BY <1>5 DEF Commit, Unlost
<1>6. CASE Serving
  BY <1>6 DEF Serving, Issue, Unlost
<1>7. CASE Stop
  BY <1>7 DEF Stop, Unlost
<1>8. CASE UNCHANGED vars
  BY <1>8 DEF vars, Unlost
<1> QED
  BY <1>1, <1>2, <1>3, <1>4, <1>5, <1>6, <1>7, <1>8 DEF Next, Starting

\* How a version stores its rows, it stores all of them.
LEMMA RowsStored ==
  ASSUME NEW d \in {0, 1}, NEW r \in Rows(d, Tenants)
  PROVE  StoredAs(r, d) /\ SessionOf(r) \in [table: Tables, secret: Secrets,
                                             from: Secrets \cup {Empty},
                                             named: BOOLEAN]
  BY DEF Rows, StoredAs, SessionOf

\* The marker tells the form; the database is never torn.
LEMMA FormIsMarked ==
  ASSUME Inv PROVE Form = IF marker THEN "hashed" ELSE "clear"
<1>1. \A r \in rows : StoredAs(r, Hashings)
  BY RowsStored DEF Inv, MarkerTells, Hashings
<1> QED
  BY <1>1 DEF Form, Hashings

\* Each step of the process is one of the upgrade as a whole, or none of it.
LEMMA WholeStep ==
  ASSUME Inv, Inv', Unlost, [Next]_vars
  PROVE  [Whole!Next]_(Whole!vars)
<1>0. /\ Form = IF marker THEN "hashed" ELSE "clear"
      /\ Form' = IF marker' THEN "hashed" ELSE "clear"
  <2>1. Form' = IF marker' THEN "hashed" ELSE "clear"
    <3>1. \A r \in rows' : StoredAs(r, Hashings')
      BY RowsStored DEF Inv, MarkerTells, Hashings
    <3> QED
      BY <3>1 DEF Form, Hashings
  <2> QED
    BY <2>1, FormIsMarked
<1>1. ASSUME UNCHANGED <<rows, marker>>, stage' = stage
      PROVE  UNCHANGED Whole!vars
  BY <1>0, <1>1 DEF Whole!vars, SessionsIn
<1>2. ASSUME UNCHANGED <<rows, marker>>, stage' # "serving"
      PROVE  Whole!Next
  BY <1>0, <1>2 DEF Whole!Next, Whole!Close, SessionsIn
<1>3. CASE Start
  BY <1>2, <1>3 DEF Start, database
<1>4. CASE AddColumnIfMissing
  <2>1. SessionsIn(rows)' = SessionsIn(rows)
    BY <1>4, BackFillingKeepsSessions DEF SessionsIn
  <2> QED
    BY <1>0, <1>4, <2>1 DEF AddColumnIfMissing, Whole!vars
<1>5. CASE ReadMarker
  <2>1. CASE marker
    <3>1. Whole!Open
      BY <1>0, <1>5, <2>1 DEF ReadMarker, Whole!Open, database, SessionsIn
    <3> QED
      BY <3>1 DEF Whole!Next
  <2>2. CASE ~marker
    BY <1>2, <1>5, <2>2 DEF ReadMarker, database
  <2> QED
    BY <2>1, <2>2
<1>6. CASE HashTarget
  BY <1>1, <1>6 DEF HashTarget, database
<1>7. CASE Commit
  <2>1. ~marker /\ marker' /\ stage = "hashing" /\ stage' = "serving"
    BY <1>7 DEF Commit, Inv, Progress
  <2>2. SessionsIn(rows)' = SessionsIn(rows)
    BY <1>7, <2>1 DEF Commit, Unlost, SessionsIn
  <2>3. Whole!Upgrade
    BY <1>0, <2>1, <2>2 DEF Whole!Upgrade
  <2> QED
    BY <2>3 DEF Whole!Next
<1>8. CASE Serving
  <2>1. PICK r \in Rows(1, {"slug"}) : Issue(r)
    BY <1>8 DEF Serving
  <2>2. SessionOf(r) \in [table: Tables, secret: Secrets,
                          from: Secrets \cup {Empty}, named: BOOLEAN]
    <3>1. {"slug"} \in SUBSET Tenants
      BY DEF Tenants
    <3>2. r \in Rows(1, Tenants)
      BY <3>1, RowsAreRows
    <3> QED
      BY <3>2, RowsStored
  <2>3. SessionOf(r) \notin SessionsIn(rows)
    BY <2>1 DEF Issue, SessionsIn, SessionOf
  <2>4. SessionsIn(rows)' = SessionsIn(rows) \cup {SessionOf(r)}
    BY <2>1 DEF Issue, SessionsIn
  <2>5. Whole!Issue(SessionOf(r))
    BY <1>0, <2>1, <2>3, <2>4 DEF Issue, Whole!Issue
  <2> QED
    BY <2>2, <2>5 DEF Whole!Next
<1>9. CASE Stop
  BY <1>2, <1>9 DEF Stop, database
<1>10. CASE UNCHANGED vars
  BY <1>1, <1>10 DEF vars
<1> QED
  BY <1>3, <1>4, <1>5, <1>6, <1>7, <1>8, <1>9, <1>10 DEF Next, Starting

\* However often it is interrupted, the upgrade happens to all sessions at once
\* and to each of them once, loses none, and leaves each to the database it names
\* (storage.go: migrate, migrateHashSecrets).
THEOREM UpgradeIsWhole == Spec => ImplementsWholeUpgrade
<1>1. Init => Unlost /\ Whole!Init
  <2> SUFFICES ASSUME Init PROVE Unlost /\ Whole!Init
    OBVIOUS
  <2>1. Form \in {"clear", "hashed"}
    BY InvInit, FormIsMarked
  <2>2. SessionsIn(rows) \subseteq [table: Tables, secret: Secrets,
                                    from: Secrets \cup {Empty}, named: BOOLEAN]
    <3>1. rows \subseteq Rows(Hashings, Tenants) /\ Hashings \in {0, 1}
      BY InvInit DEF Inv, MarkerTells, Hashings
    <3> QED
      BY <3>1, RowsStored DEF SessionsIn
  <2> QED
    BY <2>1, <2>2 DEF Init, Unlost, Whole!Init
<1>2. Inv /\ Inv' /\ Unlost /\ [Next]_vars => [Whole!Next]_(Whole!vars)
  BY WholeStep
<1> QED
  BY <1>1, <1>2, NextUnlost, Invariance, PTL
     DEF Spec, ImplementsWholeUpgrade, Whole!Spec
=============================================================================
