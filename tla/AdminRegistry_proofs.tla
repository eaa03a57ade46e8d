------------------------ MODULE AdminRegistry_proofs ------------------------
(***************************************************************************)
(* Proofs about AdminRegistry and Gateway, for any number of concurrent    *)
(* admin requests and requests, any table, any forms and any bounds.       *)
(***************************************************************************)
EXTENDS Gateway, TLAPS

USE BlankAssumption, BoundsAssumption

-----------------------------------------------------------------------------
\* Types.

\* What a form carries can stand in the table.
LEMMA FormsAreRows == Forms \subseteq Row
  BY FormsAssumption DEF Row

\* Whatever the table holds, a build of it is a Build.
LEMMA NewBuildTyped ==
  ASSUME TypeOK
  PROVE  NewBuild \in Build
  BY DEF TypeOK, NewBuild, Build, Enabled

\* The table may hold anything a table can hold when the process starts.
LEMMA InitTyped == Init => TypeOK
<1> SUFFICES ASSUME Init PROVE TypeOK
  OBVIOUS
<1>1. store \subseteq Row /\ \A r, q \in store : r.slug = q.slug => r = q
  BY FormsAreRows DEF Init
<1>2. admins \in [Admins -> Stage]
  BY DEF Init, Stage, Idle
<1>3. registry \in Build
  BY <1>1 DEF Init, Build, Enabled
<1>4. QED
  BY <1>1, <1>2, <1>3 DEF Init, TypeOK

\* A handler that moves on keeps the others where they are.
LEMMA GotoTyped ==
  ASSUME TypeOK, NEW a \in Admins, NEW where \in Stage, Goto(a, where)
  PROVE  /\ admins' \in [Admins -> Stage]
         /\ admins'[a] = where
         /\ \A b \in Admins \ {a} : admins'[b] = admins[b]
  BY DEF TypeOK, Goto

\* What the handlers move to are stages.
LEMMA StagesTyped ==
  ASSUME TypeOK
  PROVE  /\ Idle \in Stage /\ NeedsReload \in Stage
         /\ \A form \in Row, p \in Passwords \cup {Blank}, n \in Nat :
              [stage |-> "update", form |-> form, existing |-> p, seen |-> n]
                \in Stage
         /\ \A b \in Build : /\ [stage |-> "swap", built |-> b] \in Stage
                             /\ [stage |-> "close", old |-> b] \in Stage
  BY DEF Stage, Idle, NeedsReload

\* A handler carries what its stage needs.
LEMMA StageFields ==
  ASSUME TypeOK, NEW a \in Admins
  PROVE  /\ admins[a].stage = "update" =>
              /\ admins[a].form \in Row
              /\ admins[a].existing \in Passwords \cup {Blank}
              /\ admins[a].seen \in Nat
         /\ admins[a].stage = "swap" => admins[a].built \in Build
         /\ admins[a].stage = "close" => admins[a].old \in Build
<1>1. admins[a] \in Stage
  BY DEF TypeOK
<1>2. QED
  BY <1>1 DEF Stage

\* Filling in the password gives a row of the same database.
LEMMA FilledInTyped ==
  ASSUME NEW form \in Row, NEW p \in Passwords \cup {Blank}
  PROVE  FilledIn(form, p) \in Row /\ FilledIn(form, p).slug = form.slug
  BY DEF FilledIn, Row

\* No handler, and no restart, writes anything that is not typed.
LEMMA NextTyped == TypeOK /\ [Next]_vars => TypeOK'
<1> SUFFICES ASSUME TypeOK, [Next]_vars PROVE TypeOK'
  OBVIOUS
<1>1. ASSUME NEW a \in Admins, NEW row \in Row, Create(a, row)
      PROVE  TypeOK'
  BY <1>1, GotoTyped, StagesTyped DEF Create, Edited, TypeOK
<1>2. ASSUME NEW a \in Admins, NEW row \in Row, ReadForUpdate(a, row)
      PROVE  TypeOK'
  <2>1. PICK r \in store :
          Goto(a, [stage |-> "update", form |-> row, existing |-> r.password,
                       seen |-> writes])
    BY <1>2 DEF ReadForUpdate
  <2>2. r.password \in Passwords \cup {Blank} /\ writes \in Nat
    BY DEF TypeOK, Row
  <2>3. admins' \in [Admins -> Stage]
    BY <2>1, <2>2, GotoTyped, StagesTyped
  <2>4. QED
    BY <1>2, <2>3 DEF ReadForUpdate, TypeOK
<1>3. ASSUME NEW a \in Admins, WriteUpdate(a)
      PROVE  TypeOK'
  <2> DEFINE row == FilledIn(admins[a].form, admins[a].existing)
  <2>1. row \in Row
    BY <1>3, StageFields, FilledInTyped DEF WriteUpdate
  <2>2. \/ /\ Edited({r \in store : r.slug # row.slug} \cup {row})
           /\ Goto(a, NeedsReload)
        \/ Goto(a, Idle) /\ UNCHANGED <<store, writes>>
    BY <1>3 DEF WriteUpdate
  <2> HIDE DEF row
  <2>3. admins' \in [Admins -> Stage]
    BY <2>2, GotoTyped, StagesTyped
  <2>4. /\ store' \subseteq Row /\ writes' \in Nat
        /\ \A r, q \in store' : r.slug = q.slug => r = q
    BY <2>1, <2>2 DEF Edited, TypeOK
  <2>5. QED
    BY <1>3, <2>3, <2>4 DEF WriteUpdate, TypeOK
<1>4. ASSUME NEW a \in Admins, AbandonUpdate(a)
      PROVE  TypeOK'
  <2>1. admins' \in [Admins -> Stage]
    BY <1>4, GotoTyped, StagesTyped DEF AbandonUpdate
  <2>2. QED
    BY <1>4, <2>1 DEF AbandonUpdate, TypeOK
<1>5. ASSUME NEW a \in Admins, NEW slug \in Slugs, Delete(a, slug)
      PROVE  TypeOK'
  <2>1. admins' \in [Admins -> Stage]
    BY <1>5, GotoTyped, StagesTyped DEF Delete
  <2>2. /\ store' \subseteq Row /\ writes' \in Nat
        /\ \A r, q \in store' : r.slug = q.slug => r = q
    BY <1>5 DEF Delete, Edited, TypeOK
  <2>3. QED
    BY <1>5, <2>1, <2>2 DEF Delete, TypeOK
<1>6. ASSUME NEW a \in Admins, BuildRuntimes(a)
      PROVE  TypeOK'
  <2>1. admins' \in [Admins -> Stage]
    BY <1>6, GotoTyped, StagesTyped, NewBuildTyped DEF BuildRuntimes
  <2>2. QED
    BY <1>6, <2>1 DEF BuildRuntimes, TypeOK
<1>7. ASSUME NEW a \in Admins, FailBuild(a)
      PROVE  TypeOK'
  BY <1>7, GotoTyped, StagesTyped DEF FailBuild, TypeOK
<1>8. ASSUME NEW a \in Admins, Swap(a)
      PROVE  TypeOK'
  <2>1. admins[a].built \in Build
    BY <1>8, StageFields DEF Swap
  <2>2. admins' \in [Admins -> Stage]
    BY <1>8, GotoTyped, StagesTyped DEF Swap, TypeOK
  <2>3. newest' \in Nat
    BY <1>8, <2>1 DEF Swap, TypeOK, Build
  <2>4. QED
    BY <1>8, <2>1, <2>2, <2>3 DEF Swap, TypeOK
<1>9. ASSUME NEW a \in Admins, CloseOld(a)
      PROVE  TypeOK'
  <2>1. admins[a].old.id \in Nat
    BY <1>9, StageFields DEF CloseOld, Build
  <2>2. QED
    BY <1>9, <2>1, GotoTyped, StagesTyped DEF CloseOld, TypeOK
<1>10. CASE Restart
  BY <1>10, NewBuildTyped, StagesTyped DEF Restart, TypeOK
<1>11. CASE UNCHANGED vars
  BY <1>11 DEF vars, TypeOK
<1>12. QED
  BY <1>1, <1>2, <1>3, <1>4, <1>5, <1>6, <1>7, <1>8, <1>9, <1>10, <1>11,
     FormsAreRows DEF Next, Editing, Reloading

\* Every reachable state is well typed; in particular the table never has two
\* rows for a slug.
THEOREM TypeCorrect == Spec => []TypeOK
  BY InitTyped, NextTyped, PTL DEF Spec
-----------------------------------------------------------------------------
\* Nothing that serves is closed.

\* What a handler holds depends on its stage alone.
LEMMA HeldBy ==
  ASSUME TypeOK, NEW a \in Admins
  PROVE  /\ admins[a] \in {Idle, NeedsReload} => Held(a) = {}
         /\ admins[a].stage = "update" => Held(a) = {}
         /\ admins[a].stage = "swap" => Held(a) = {admins[a].built.id}
         /\ admins[a].stage = "close" => Held(a) = {admins[a].old.id}
  BY DEF Held, Idle, NeedsReload

\* The stages after the step.
LEMMA HeldByNext ==
  ASSUME TypeOK', NEW a \in Admins
  PROVE  /\ admins'[a] \in {Idle, NeedsReload} => Held(a)' = {}
         /\ admins'[a].stage = "update" => Held(a)' = {}
         /\ admins'[a].stage = "swap" => Held(a)' = {admins'[a].built.id}
         /\ admins'[a].stage = "close" => Held(a)' = {admins'[a].old.id}
  BY DEF Held, Idle, NeedsReload

\* A handler that stays where it is keeps what it holds.
LEMMA HeldUnchanged ==
  ASSUME NEW a \in Admins, admins'[a] = admins[a]
  PROVE  Held(a)' = Held(a)
  BY DEF Held

Exclusive == NeverServesClosed /\ Numbered

\* A step that only lets handlers go keeps everything exclusive.
LEMMA LettingGo ==
  ASSUME Exclusive, UNCHANGED <<registry, closed, builds>>,
         \A a \in Admins : Held(a)' \subseteq Held(a)
  PROVE  Exclusive'
  BY DEF Exclusive, NeverServesClosed, Numbered

\* So does a step of a handler to a stage that holds nothing.
LEMMA MovingOn ==
  ASSUME TypeOK, TypeOK', Exclusive, UNCHANGED <<registry, closed, builds>>,
         NEW a \in Admins, NEW where, Goto(a, where),
         where \in {Idle, NeedsReload} \/ where.stage = "update"
  PROVE  Exclusive'
<1>1. admins'[a] = where /\ \A b \in Admins \ {a} : admins'[b] = admins[b]
  BY DEF TypeOK, Goto
<1>2. Held(a)' = {}
  BY <1>1, HeldByNext
<1>3. \A b \in Admins \ {a} : Held(b)' = Held(b)
  BY <1>1, HeldUnchanged
<1>4. QED
  BY <1>2, <1>3, LettingGo

\* Every step of a reload hands a build over; none is duplicated.
LEMMA NextExclusive == TypeOK /\ TypeOK' /\ Exclusive /\ [Next]_vars => Exclusive'
<1> SUFFICES ASSUME TypeOK, TypeOK', Exclusive, [Next]_vars PROVE Exclusive'
  OBVIOUS
<1>1. ASSUME NEW a \in Admins, Editing(a)
      PROVE  Exclusive'
  <2>1. UNCHANGED <<registry, closed, builds>>
    BY <1>1 DEF Editing, Create, ReadForUpdate, WriteUpdate, AbandonUpdate, Delete
  <2>2. PICK where : /\ Goto(a, where)
                     /\ where \in {Idle, NeedsReload} \/ where.stage = "update"
    <3>1. CASE \E row \in Forms : ReadForUpdate(a, row)
      BY <3>1 DEF ReadForUpdate
    <3>2. CASE ~ \E row \in Forms : ReadForUpdate(a, row)
      BY <1>1, <3>2 DEF Editing, Create, WriteUpdate, AbandonUpdate, Delete
    <3>3. QED
      BY <3>1, <3>2
  <2>3. QED
    BY <2>1, <2>2, MovingOn
<1>2. ASSUME NEW a \in Admins, BuildRuntimes(a)
      PROVE  Exclusive'
  <2>1. /\ admins'[a] = [stage |-> "swap", built |-> NewBuild]
        /\ \A b \in Admins \ {a} : admins'[b] = admins[b]
    BY <1>2 DEF BuildRuntimes, Goto, TypeOK
  <2>2. Held(a)' = {builds + 1}
    BY <2>1, HeldByNext DEF NewBuild
  <2>3. \A b \in Admins \ {a} : Held(b)' = Held(b)
    BY <2>1, HeldUnchanged
  <2>4. /\ builds' = builds + 1 /\ builds \in Nat
        /\ UNCHANGED <<registry, closed>>
    BY <1>2 DEF BuildRuntimes, TypeOK
  <2>5. Numbered'
    BY <2>2, <2>3, <2>4 DEF Exclusive, Numbered
  <2>6. NeverServesClosed'
    BY <2>2, <2>3, <2>4 DEF Exclusive, Numbered, NeverServesClosed
  <2>7. QED
    BY <2>5, <2>6 DEF Exclusive
<1>3. ASSUME NEW a \in Admins, FailBuild(a)
      PROVE  Exclusive'
  BY <1>3, MovingOn DEF FailBuild
<1>4. ASSUME NEW a \in Admins, Swap(a)
      PROVE  Exclusive'
  <2>1. /\ admins'[a] = [stage |-> "close", old |-> registry]
        /\ \A b \in Admins \ {a} : admins'[b] = admins[b]
    BY <1>4 DEF Swap, Goto, TypeOK
  <2>2. Held(a)' = {registry.id} /\ Held(a) = {registry'.id}
    BY <1>4, <2>1, HeldBy, HeldByNext DEF Swap
  <2>3. \A b \in Admins \ {a} : Held(b)' = Held(b)
    BY <2>1, HeldUnchanged
  <2>4. UNCHANGED <<closed, builds>>
    BY <1>4 DEF Swap
  <2>5. Numbered'
    BY <2>2, <2>3, <2>4 DEF Exclusive, Numbered
  <2>6. NeverServesClosed'
    BY <2>2, <2>3, <2>4 DEF Exclusive, NeverServesClosed
  <2>7. QED
    BY <2>5, <2>6 DEF Exclusive
<1>5. ASSUME NEW a \in Admins, CloseOld(a)
      PROVE  Exclusive'
  <2>1. /\ admins'[a] = Idle
        /\ \A b \in Admins \ {a} : admins'[b] = admins[b]
    BY <1>5 DEF CloseOld, Goto, TypeOK
  <2>2. Held(a)' = {} /\ closed' = closed \cup Held(a)
    BY <1>5, <2>1, HeldBy, HeldByNext DEF CloseOld
  <2>3. \A b \in Admins \ {a} : Held(b)' = Held(b)
    BY <2>1, HeldUnchanged
  <2>4. UNCHANGED <<registry, builds>>
    BY <1>5 DEF CloseOld
  <2>5. QED
    BY <2>2, <2>3, <2>4 DEF Exclusive, Numbered, NeverServesClosed
<1>6. CASE Restart
  <2>1. \A b \in Admins : Held(b)' = {}
    BY <1>6, HeldByNext DEF Restart
  <2>2. /\ registry'.id = builds + 1 /\ closed' = 1..builds
        /\ builds' = builds + 1 /\ builds \in Nat
    BY <1>6 DEF Restart, NewBuild, TypeOK
  <2>3. QED
    BY <2>1, <2>2 DEF Exclusive, Numbered, NeverServesClosed
<1>7. CASE UNCHANGED vars
  BY <1>7, HeldUnchanged, LettingGo DEF vars
<1>8. QED
  BY <1>1, <1>2, <1>3, <1>4, <1>5, <1>6, <1>7 DEF Next, Reloading

\* For any number of overlapping reloads: the installed build has not been
\* closed, and no two parties are going to close or install the same one.
THEOREM ServingIsOpen == Spec => []NeverServesClosed
<1>1. Init => TypeOK /\ Exclusive
  <2> SUFFICES ASSUME Init PROVE TypeOK /\ Exclusive
    OBVIOUS
  <2>1. TypeOK
    BY InitTyped
  <2>2. \A a \in Admins : Held(a) = {}
    BY <2>1, HeldBy DEF Init
  <2>3. QED
    BY <2>1, <2>2 DEF Init, Exclusive, Numbered, NeverServesClosed
<1>2. TypeOK /\ Exclusive /\ [Next]_vars => (TypeOK /\ Exclusive)'
  BY NextTyped, NextExclusive
<1>3. Exclusive => NeverServesClosed
  BY DEF Exclusive
<1>4. QED
  BY <1>1, <1>2, <1>3, PTL DEF Spec

-----------------------------------------------------------------------------
\* Stale settings.

\* A step that leaves the table alone leaves what builds show alone.
LEMMA StillShows ==
  ASSUME NEW b, ShowsTable(b), UNCHANGED <<store, writes>>
  PROVE  ShowsTable(b)'
  BY DEF ShowsTable, Enabled

\* An edit makes every build there is an old one.
LEMMA EditAges ==
  ASSUME TypeOK, NEW b \in Build, ShowsTable(b), NEW rows, Edited(rows)
  PROVE  ShowsTable(b)' /\ b.asof < writes'
  BY DEF ShowsTable, Edited, TypeOK, Build

\* A handler that has written the table is on its way to install what it
\* wrote.
LEMMA EditIsOnItsWay ==
  ASSUME TypeOK, EditOnItsWay, NEW rows, Edited(rows), NEW a \in Admins,
         Goto(a, NeedsReload), UNCHANGED <<registry, newest, lost>>
  PROVE  EditOnItsWay'
<1>1. /\ admins'[a] = NeedsReload
      /\ \A b \in Admins \ {a} : admins'[b] = admins[b]
  BY DEF TypeOK, Goto
<1>2. ShowsTable(registry)'
  BY EditAges DEF EditOnItsWay, TypeOK, ShowsTable, Enabled
<1>3. ASSUME NEW b \in Admins, admins'[b].stage = "swap"
      PROVE  ShowsTable(admins[b].built)' /\ admins'[b] = admins[b]
  <2>1. admins'[b] = admins[b]
    BY <1>1, <1>3 DEF NeedsReload
  <2>2. admins[b].built \in Build /\ ShowsTable(admins[b].built)
    BY <1>3, <2>1, StageFields DEF EditOnItsWay
  <2>3. QED
    BY <2>1, <2>2, EditAges DEF ShowsTable, Enabled, Edited, TypeOK, Build
<1>4. newest' <= writes'
  BY DEF EditOnItsWay, Edited, TypeOK
<1>5. QED
  BY <1>1, <1>2, <1>3, <1>4 DEF EditOnItsWay, ShowsTable, Enabled
-----------------------------------------------------------------------------

\* A step that leaves the table and the installed build alone, and moves a
\* handler that was not about to install anything.
LEMMA OthersOnTheirWay ==
  ASSUME TypeOK, EditOnItsWay, UNCHANGED <<store, registry, writes, newest, lost>>,
         NEW a \in Admins, NEW where, Goto(a, where),
         admins[a].stage # "swap", admins[a] # NeedsReload,
         where.stage # "swap"
  PROVE  EditOnItsWay'
<1>1. /\ admins'[a] = where
      /\ \A b \in Admins \ {a} : admins'[b] = admins[b]
  BY DEF TypeOK, Goto
<1>2. ShowsTable(registry)'
  BY DEF EditOnItsWay, ShowsTable, Enabled
<1>3. \A b \in Admins : admins'[b].stage = "swap" =>
         admins'[b] = admins[b] /\ ShowsTable(admins[b].built)'
  BY <1>1 DEF EditOnItsWay, ShowsTable, Enabled
<1>4. \/ newest' = writes'
      \/ lost' = writes'
      \/ \E b \in Admins : \/ admins'[b] = NeedsReload
                           \/ /\ admins'[b].stage = "swap"
                              /\ admins'[b].built.asof = writes'
  BY <1>1 DEF EditOnItsWay
<1>5. QED
  BY <1>2, <1>3, <1>4 DEF EditOnItsWay, ShowsTable, Enabled

\* At the start the table is what is served.
LEMMA InitOnItsWay == Init => EditOnItsWay
  BY DEF Init, EditOnItsWay, ShowsTable, Enabled, Idle

\* The latest edit is never forgotten: a step installs it, keeps its handler
\* on the way, or is the failure of its reload.
LEMMA NextOnItsWay == TypeOK /\ EditOnItsWay /\ [Next]_vars => EditOnItsWay'
<1> SUFFICES ASSUME TypeOK, EditOnItsWay, [Next]_vars PROVE EditOnItsWay'
  OBVIOUS
<1>1. ASSUME NEW a \in Admins, Editing(a)
      PROVE  EditOnItsWay'
  <2>1. CASE \E row \in Forms : Create(a, row)
    BY <2>1, EditIsOnItsWay DEF Create
  <2>2. CASE \E row \in Forms : ReadForUpdate(a, row)
    BY <2>2, OthersOnTheirWay DEF ReadForUpdate, Idle, NeedsReload
  <2>3. CASE WriteUpdate(a)
    <3> DEFINE row == FilledIn(admins[a].form, admins[a].existing)
               rest == {r \in store : r.slug # row.slug}
    <3>1. CASE Edited(rest \cup {row}) /\ Goto(a, NeedsReload)
      BY <2>3, <3>1, EditIsOnItsWay DEF WriteUpdate
    <3>2. CASE Goto(a, Idle) /\ UNCHANGED <<store, writes>>
      BY <2>3, <3>2, OthersOnTheirWay DEF WriteUpdate, Idle, NeedsReload
    <3>3. QED
      BY <2>3, <3>1, <3>2 DEF WriteUpdate
  <2>4. CASE AbandonUpdate(a)
    BY <2>4, OthersOnTheirWay DEF AbandonUpdate, Idle, NeedsReload
  <2>5. CASE \E slug \in Slugs : Delete(a, slug)
    BY <2>5, EditIsOnItsWay DEF Delete
  <2>6. QED
    BY <1>1, <2>1, <2>2, <2>3, <2>4, <2>5 DEF Editing
<1>2. ASSUME NEW a \in Admins, BuildRuntimes(a)
      PROVE  EditOnItsWay'
  <2>1. /\ admins'[a] = [stage |-> "swap", built |-> NewBuild]
        /\ \A b \in Admins \ {a} : admins'[b] = admins[b]
    BY <1>2 DEF BuildRuntimes, Goto, TypeOK
  <2>2. ShowsTable(NewBuild) /\ NewBuild.asof = writes
    BY DEF ShowsTable, NewBuild, TypeOK
  <2>3. UNCHANGED <<store, registry, writes, newest>>
    BY <1>2 DEF BuildRuntimes
  <2>4. \A b \in Admins : admins'[b].stage = "swap" => ShowsTable(admins'[b].built)
    BY <2>1, <2>2 DEF EditOnItsWay
  <2>5. QED
    BY <2>1, <2>2, <2>3, <2>4 DEF EditOnItsWay, ShowsTable, Enabled
<1>3. ASSUME NEW a \in Admins, FailBuild(a)
      PROVE  EditOnItsWay'
  <2>1. /\ admins'[a] = Idle
        /\ \A b \in Admins \ {a} : admins'[b] = admins[b]
    BY <1>3 DEF FailBuild, Goto, TypeOK
  <2>2. lost' = writes /\ UNCHANGED <<store, registry, writes, newest>>
    BY <1>3 DEF FailBuild
  <2>3. QED
    BY <2>1, <2>2 DEF EditOnItsWay, ShowsTable, Enabled, Idle
<1>4. ASSUME NEW a \in Admins, Swap(a)
      PROVE  EditOnItsWay'
  <2> DEFINE built == admins[a].built
  <2>1. /\ admins'[a].stage = "close"
        /\ \A b \in Admins \ {a} : admins'[b] = admins[b]
    BY <1>4 DEF Swap, Goto, TypeOK
  <2>2. built \in Build /\ ShowsTable(built)
    BY <1>4, StageFields DEF Swap, EditOnItsWay
  <2>3. built.asof \in Nat /\ built.asof <= writes
    BY <2>2 DEF Build, ShowsTable
  <2>4. /\ registry' = built
        /\ newest' = IF built.asof > newest THEN built.asof ELSE newest
        /\ UNCHANGED <<store, writes, lost>>
    BY <1>4 DEF Swap
  <2>5. newest' <= writes
    BY <2>3, <2>4 DEF EditOnItsWay
  <2>6. newest \in Nat /\ writes \in Nat /\ newest <= writes
    BY DEF TypeOK, EditOnItsWay
  <2>7. \/ newest' = writes
        \/ lost' = writes
        \/ \E b \in Admins : \/ admins'[b] = NeedsReload
                             \/ /\ admins'[b].stage = "swap"
                                /\ admins'[b].built.asof = writes
    <3>1. CASE newest = writes \/ built.asof = writes
      <4> HIDE DEF built
      <4> QED
        BY <2>3, <2>4, <2>6, <3>1
    <3>2. CASE ~(newest = writes \/ built.asof = writes)
      <4>1. CASE lost = writes
        BY <2>4, <4>1
      <4>2. CASE lost # writes
        <5>1. PICK b \in Admins : \/ admins[b] = NeedsReload
                                 \/ /\ admins[b].stage = "swap"
                                    /\ admins[b].built.asof = writes
          BY <3>2, <4>2 DEF EditOnItsWay
        <5>2. b # a
          BY <1>4, <3>2, <5>1 DEF NeedsReload, Swap
        <5>3. QED
          BY <2>1, <5>1, <5>2
      <4>3. QED
        BY <4>1, <4>2
    <3>3. QED
      BY <3>1, <3>2
  <2>8. ShowsTable(registry)'
    BY <2>2, <2>4 DEF ShowsTable, Enabled
  <2>9. \A b \in Admins : admins'[b].stage = "swap" =>
           admins'[b] = admins[b] /\ ShowsTable(admins[b].built)'
    BY <2>1, <2>4 DEF EditOnItsWay, ShowsTable, Enabled
  <2>10. QED
    BY <2>4, <2>5, <2>7, <2>8, <2>9 DEF EditOnItsWay, ShowsTable, Enabled
<1>5. ASSUME NEW a \in Admins, CloseOld(a)
      PROVE  EditOnItsWay'
  BY <1>5, OthersOnTheirWay DEF CloseOld, Idle, NeedsReload
<1>6. CASE Restart
  BY <1>6 DEF Restart, EditOnItsWay, ShowsTable, NewBuild, Enabled, Idle, TypeOK
<1>7. CASE UNCHANGED vars
  BY <1>7 DEF vars, EditOnItsWay, ShowsTable, Enabled
<1>8. QED
  BY <1>1, <1>2, <1>3, <1>4, <1>5, <1>6, <1>7 DEF Next, Reloading

\* When no handler is on its way, the latest edit was installed by some
\* build, so the installed one can only show old settings if it is older.
LEMMA OnItsWayArrives == TypeOK /\ EditOnItsWay => StaleOnlyIfOvertaken
<1> SUFFICES ASSUME TypeOK, EditOnItsWay, Quiet, newest >= lost,
                    registry.asof = newest
             PROVE  registry.rows = Enabled
  BY DEF StaleOnlyIfOvertaken
<1>1. \A a \in Admins : admins[a] # NeedsReload /\ admins[a].stage # "swap"
  BY DEF Quiet, Idle, NeedsReload
<1>2. newest = writes
  BY <1>1 DEF EditOnItsWay, TypeOK
<1>3. QED
  BY <1>2 DEF EditOnItsWay, ShowsTable

\* For any number of concurrent edits: once the handlers are done, and no
\* reload failed after the last edit, the table is what is served, unless a
\* reload was overtaken by another.
THEOREM StaleOnlyByOvertaking == Spec => []StaleOnlyIfOvertaken
<1>1. Init => TypeOK /\ EditOnItsWay
  BY InitTyped, InitOnItsWay
<1>2. TypeOK /\ EditOnItsWay /\ [Next]_vars => (TypeOK /\ EditOnItsWay)'
  BY NextTyped, NextOnItsWay
<1>3. QED
  BY <1>1, <1>2, OnItsWayArrives, PTL DEF Spec

-----------------------------------------------------------------------------
\* One editor at a time.

\* With one handler nothing is overtaken: the installed build is the newest,
\* and one waiting to be installed is not older.
InOrder ==
    /\ registry.asof = newest
    /\ \A a \in Admins : admins[a].stage = "swap" => admins[a].built.asof >= newest

\* A lone handler installs what it built before it can edit again.
LEMMA NextInOrder ==
  ASSUME TypeOK, EditOnItsWay, InOrder, [Next]_vars,
         \A a, b \in Admins : a = b
  PROVE  InOrder'
<1>1. ASSUME NEW a \in Admins, Editing(a) \/ FailBuild(a) \/ CloseOld(a)
      PROVE  InOrder'
  <2>1. UNCHANGED <<registry, newest>>
    BY <1>1 DEF Editing, Create, ReadForUpdate, WriteUpdate, AbandonUpdate,
                Delete, FailBuild, CloseOld
  <2>2. PICK where : Goto(a, where) /\ where.stage # "swap"
    <3>1. CASE \E row \in Forms : ReadForUpdate(a, row)
      <4>1. PICK row \in Forms, r \in store :
              Goto(a, [stage |-> "update", form |-> row, existing |-> r.password,
                       seen |-> writes])
        BY <3>1 DEF ReadForUpdate
      <4>2. QED
        BY <4>1
    <3>2. CASE ~ \E row \in Forms : ReadForUpdate(a, row)
      <4>1. Idle.stage # "swap" /\ NeedsReload.stage # "swap"
        BY DEF Idle, NeedsReload
      <4>2. QED
        BY <1>1, <3>2, <4>1 DEF Editing, Create, WriteUpdate, AbandonUpdate,
                                Delete, FailBuild, CloseOld
    <3>3. QED
      BY <3>1, <3>2
  <2>3. admins'[a].stage # "swap"
    BY <2>2 DEF Goto, TypeOK
  <2>4. QED
    BY <2>1, <2>3 DEF InOrder
<1>2. ASSUME NEW a \in Admins, BuildRuntimes(a)
      PROVE  InOrder'
  <2>1. admins'[a] = [stage |-> "swap", built |-> NewBuild]
    BY <1>2 DEF BuildRuntimes, Goto, TypeOK
  <2>2. NewBuild.asof >= newest
    BY DEF NewBuild, EditOnItsWay, TypeOK
  <2>3. QED
    BY <1>2, <2>1, <2>2 DEF BuildRuntimes, InOrder
<1>3. ASSUME NEW a \in Admins, Swap(a)
      PROVE  InOrder'
  <2>1. admins'[a].stage = "close"
    BY <1>3 DEF Swap, Goto, TypeOK
  <2>2. admins[a].built \in Build /\ admins[a].built.asof >= newest
    BY <1>3, StageFields DEF Swap, InOrder
  <2>3. registry'.asof = newest'
    BY <1>3, <2>2 DEF Swap, Build, TypeOK
  <2>4. QED
    BY <2>1, <2>3 DEF InOrder
<1>4. CASE Restart
  BY <1>4 DEF Restart, InOrder, NewBuild, Idle
<1>5. CASE UNCHANGED vars
  BY <1>5 DEF vars, InOrder
<1>6. QED
  BY <1>1, <1>2, <1>3, <1>4, <1>5 DEF Next, Reloading

\* Edits made one after another take effect: what main.go's single reload
\* callback promises as long as no two admin requests overlap.
THEOREM LoneEditorSeesSaves ==
  ASSUME \A a, b \in Admins : a = b
  PROVE  Spec => []SavesTakeEffect
<1>1. Init => TypeOK /\ EditOnItsWay /\ InOrder
  BY InitTyped, InitOnItsWay DEF Init, InOrder, Idle
<1>2. TypeOK /\ EditOnItsWay /\ InOrder /\ [Next]_vars
        => (TypeOK /\ EditOnItsWay /\ InOrder)'
  BY NextTyped, NextOnItsWay, NextInOrder
<1>3. TypeOK /\ EditOnItsWay /\ InOrder => SavesTakeEffect
  BY OnItsWayArrives DEF SavesTakeEffect, StaleOnlyIfOvertaken, InOrder
<1>4. QED
  BY <1>1, <1>2, <1>3, PTL DEF Spec

-----------------------------------------------------------------------------
\* Many editors, none overtaken.

\* What is installed is the newest that ever was.
Latest == registry.asof = newest

\* A build that replaces no newer one is the newest.
LEMMA NextLatest ==
  TypeOK /\ Latest /\ [Next]_vars /\ [NotOlder]_vars => Latest'
<1> SUFFICES ASSUME TypeOK, Latest, [Next]_vars, [NotOlder]_vars
             PROVE  Latest'
  OBVIOUS
<1>1. ASSUME NEW a \in Admins, Swap(a)
      PROVE  Latest'
  <2>1. admins[a].built \in Build /\ registry' = admins[a].built
    BY <1>1, StageFields DEF Swap
  <2>2. registry'.asof \in Nat /\ newest \in Nat
    BY <2>1 DEF Build, TypeOK
  <2>3. registry'.asof >= newest
    BY <2>2 DEF NotOlder, Latest, vars
  <2>4. newest' = IF registry'.asof > newest THEN registry'.asof ELSE newest
    BY <1>1, <2>1 DEF Swap
  <2> QED
    BY <2>2, <2>3, <2>4 DEF Latest
<1>2. CASE Restart
  BY <1>2 DEF Restart, NewBuild, Latest
<1>3. CASE UNCHANGED <<registry, newest>>
  BY <1>3 DEF Latest
<1> QED
  BY <1>1, <1>2, <1>3 DEF Next, Editing, Create, ReadForUpdate, WriteUpdate,
     AbandonUpdate, Delete, Reloading, BuildRuntimes, FailBuild, CloseOld, vars

\* The run "overtaken" finds the only way for saved settings not to take
\* effect: for any number of admin requests at once, as long as no build
\* replaces one that has seen more edits, what is saved is served once the
\* handlers are done, unless a reload failed (registry.go: Reload).
THEOREM OnlyOvertakenIsStale == Spec /\ NeverOvertaken => []SavesTakeEffect
<1>1. Init => Latest
  BY DEF Init, Latest
<1>2. Latest /\ StaleOnlyIfOvertaken => SavesTakeEffect
  BY DEF Latest, StaleOnlyIfOvertaken, SavesTakeEffect
<1> QED
  BY <1>1, <1>2, TypeCorrect, NextLatest, StaleOnlyByOvertaking, PTL
     DEF Spec, NeverOvertaken

-----------------------------------------------------------------------------
\* No runtime is forgotten.

\* A step that neither makes a build nor installs one, and that loses from
\* the hands of one handler at most what it closes.
LEMMA NothingDropped ==
  ASSUME NothingLeaks, UNCHANGED <<registry, builds>>, NEW a \in Admins,
         \A b \in Admins \ {a} : Held(b)' = Held(b),
         closed \cup Held(a) \subseteq closed' \cup Held(a)'
  PROVE  NothingLeaks'
<1>1. closed \cup {registry.id} \cup UNION {Held(b) : b \in Admins}
        \subseteq (closed \cup {registry.id} \cup UNION {Held(b) : b \in Admins})'
  OBVIOUS
<1>2. QED
  BY <1>1 DEF NothingLeaks

\* A build leaves one pair of hands only for another, or closed.
LEMMA NextLeaksNothing ==
  ASSUME TypeOK, TypeOK', NothingLeaks, [Next]_vars
  PROVE  NothingLeaks'
<1>1. ASSUME NEW a \in Admins, Editing(a) \/ FailBuild(a)
      PROVE  NothingLeaks'
  <2>1. UNCHANGED <<registry, closed, builds>>
    BY <1>1 DEF Editing, Create, ReadForUpdate, WriteUpdate, AbandonUpdate,
                Delete, FailBuild
  <2>2. PICK where : Goto(a, where)
    BY <1>1 DEF Editing, Create, ReadForUpdate, WriteUpdate, AbandonUpdate,
                Delete, FailBuild
  <2>3. \A b \in Admins \ {a} : admins'[b] = admins[b]
    BY <2>2 DEF Goto, TypeOK
  <2>4. Held(a) = {}
    BY <1>1, HeldBy DEF Editing, Create, ReadForUpdate, WriteUpdate,
                        AbandonUpdate, Delete, FailBuild
  <2>5. QED
    BY <2>1, <2>3, <2>4, HeldUnchanged, NothingDropped
<1>2. ASSUME NEW a \in Admins, BuildRuntimes(a)
      PROVE  NothingLeaks'
  <2>1. /\ admins'[a] = [stage |-> "swap", built |-> NewBuild]
        /\ \A b \in Admins \ {a} : admins'[b] = admins[b]
    BY <1>2 DEF BuildRuntimes, Goto, TypeOK
  <2>2. Held(a)' = {builds + 1} /\ Held(a) = {}
    BY <1>2, <2>1, HeldBy, HeldByNext DEF NewBuild, BuildRuntimes
  <2>3. \A b \in Admins : Held(b) \subseteq Held(b)'
    BY <2>1, <2>2, HeldUnchanged
  <2>4. /\ builds' = builds + 1 /\ builds \in Nat
        /\ UNCHANGED <<registry, closed>>
    BY <1>2 DEF BuildRuntimes, TypeOK
  <2>5. 1..builds' \subseteq 1..builds \cup Held(a)'
    BY <2>2, <2>4
  <2>6. QED
    BY <2>3, <2>4, <2>5 DEF NothingLeaks
<1>3. ASSUME NEW a \in Admins, Swap(a)
      PROVE  NothingLeaks'
  <2>1. /\ admins'[a] = [stage |-> "close", old |-> registry]
        /\ \A b \in Admins \ {a} : admins'[b] = admins[b]
    BY <1>3 DEF Swap, Goto, TypeOK
  <2>2. Held(a)' = {registry.id} /\ Held(a) = {registry'.id}
    BY <1>3, <2>1, HeldBy, HeldByNext DEF Swap
  <2>3. \A b \in Admins \ {a} : Held(b)' = Held(b)
    BY <2>1, HeldUnchanged
  <2>4. UNCHANGED <<closed, builds>>
    BY <1>3 DEF Swap
  <2>5. QED
    BY <2>2, <2>3, <2>4 DEF NothingLeaks
<1>4. ASSUME NEW a \in Admins, CloseOld(a)
      PROVE  NothingLeaks'
  <2>1. \A b \in Admins \ {a} : admins'[b] = admins[b]
    BY <1>4 DEF CloseOld, Goto, TypeOK
  <2>2. closed' = closed \cup Held(a) /\ UNCHANGED <<registry, builds>>
    BY <1>4, HeldBy DEF CloseOld
  <2>3. QED
    BY <2>1, <2>2, HeldUnchanged, NothingDropped
<1>5. CASE Restart
  BY <1>5 DEF Restart, NothingLeaks, NewBuild, TypeOK
<1>6. CASE UNCHANGED vars
  <2>1. \A b \in Admins : Held(b)' = Held(b)
    BY <1>6, HeldUnchanged DEF vars
  <2>2. QED
    BY <1>6, <2>1 DEF vars, NothingLeaks
<1>7. QED
  BY <1>1, <1>2, <1>3, <1>4, <1>5, <1>6 DEF Next, Reloading

\* However reloads interleave, fail or are cut short by a restart, every
\* runtime ever built is serving, closed, or in the hands of a reload.
THEOREM NoRuntimeForgotten == Spec => []NothingLeaks
<1>1. Init => TypeOK /\ NothingLeaks
  BY InitTyped DEF Init, NothingLeaks
<1>2. TypeOK /\ NothingLeaks /\ [Next]_vars => (TypeOK /\ NothingLeaks)'
  BY NextTyped, NextLeaksNothing
<1>3. QED
  BY <1>1, <1>2, PTL DEF Spec

-----------------------------------------------------------------------------
\* A password field left empty.

\* What the first half of an update has read is in the table until the table
\* is edited.
Remembered ==
    \A a \in Admins : admins[a].stage = "update" =>
      /\ admins[a].seen <= writes
      /\ admins[a].seen = writes =>
           \A r \in store : r.slug = admins[a].form.slug
                             => r.password = admins[a].existing

\* A handler that moves on without an edit takes nothing from the others.
LEMMA MovingKeepsRemembered ==
  ASSUME TypeOK, Remembered, NEW a \in Admins, NEW where, Goto(a, where),
         where.stage # "update", UNCHANGED <<store, writes>>
  PROVE  Remembered'
<1>1. \A b \in Admins : admins'[b] = IF b = a THEN where ELSE admins[b]
  BY DEF Goto, TypeOK
<1>2. QED
  BY <1>1 DEF Remembered

\* An edit makes everything remembered so far old.
LEMMA EditKeepsRemembered ==
  ASSUME TypeOK, Remembered, NEW a \in Admins, NEW rows, Edited(rows),
         Goto(a, NeedsReload)
  PROVE  Remembered'
<1>1. \A b \in Admins : admins'[b] = IF b = a THEN NeedsReload ELSE admins[b]
  BY DEF Goto, TypeOK
<1>2. writes' = writes + 1 /\ writes \in Nat
  BY DEF Edited, TypeOK
<1>3. NeedsReload.stage # "update"
  BY DEF NeedsReload
<1>4. ASSUME NEW b \in Admins, admins'[b].stage = "update"
      PROVE  admins'[b].seen <= writes' /\ admins'[b].seen # writes'
  <2>1. admins'[b] = admins[b] /\ admins[b].seen \in Nat
    BY <1>1, <1>3, <1>4, StageFields
  <2>2. admins[b].seen <= writes
    BY <1>4, <2>1 DEF Remembered
  <2>3. QED
    BY <1>2, <2>1, <2>2
<1>5. QED
  BY <1>4 DEF Remembered

\* Every step keeps it.
LEMMA NextRemembered == TypeOK /\ Remembered /\ [Next]_vars => Remembered'
<1> SUFFICES ASSUME TypeOK, Remembered, [Next]_vars PROVE Remembered'
  OBVIOUS
<1>0. Idle.stage # "update" /\ NeedsReload.stage # "update"
  BY DEF Idle, NeedsReload
<1>1. ASSUME NEW a \in Admins, NEW row \in Row, Create(a, row)
      PROVE  Remembered'
  BY <1>1, EditKeepsRemembered DEF Create
<1>2. ASSUME NEW a \in Admins, NEW form \in Row, ReadForUpdate(a, form)
      PROVE  Remembered'
  <2>1. PICK r \in store :
          /\ r.slug = form.slug
          /\ Goto(a, [stage |-> "update", form |-> form,
                      existing |-> r.password, seen |-> writes])
    BY <1>2 DEF ReadForUpdate
  <2>2. \A b \in Admins : admins'[b] =
          IF b = a THEN [stage |-> "update", form |-> form,
                         existing |-> r.password, seen |-> writes]
                   ELSE admins[b]
    BY <2>1 DEF Goto, TypeOK
  <2>3. UNCHANGED <<store, writes>> /\ writes \in Nat
    BY <1>2 DEF ReadForUpdate, TypeOK
  <2>4. \A q \in store : q.slug = form.slug => q.password = r.password
    BY <2>1 DEF TypeOK
  <2>5. QED
    BY <2>2, <2>3, <2>4 DEF Remembered
<1>3. ASSUME NEW a \in Admins, WriteUpdate(a) PROVE Remembered'
  BY <1>0, <1>3, EditKeepsRemembered, MovingKeepsRemembered DEF WriteUpdate
<1>4. ASSUME NEW a \in Admins, NEW slug \in Slugs, Delete(a, slug)
      PROVE  Remembered'
  BY <1>4, EditKeepsRemembered DEF Delete
<1>5. ASSUME NEW a \in Admins, AbandonUpdate(a) \/ Reloading(a)
      PROVE  Remembered'
  <2>1. CASE AbandonUpdate(a)
    BY <1>0, <2>1, MovingKeepsRemembered DEF AbandonUpdate
  <2>2. CASE BuildRuntimes(a)
    <3>1. [stage |-> "swap", built |-> NewBuild].stage # "update"
      OBVIOUS
    <3>2. QED
      BY <2>2, <3>1, MovingKeepsRemembered DEF BuildRuntimes
  <2>3. CASE FailBuild(a)
    BY <1>0, <2>3, MovingKeepsRemembered DEF FailBuild
  <2>4. CASE Swap(a)
    <3>1. [stage |-> "close", old |-> registry].stage # "update"
      OBVIOUS
    <3>2. QED
      BY <2>4, <3>1, MovingKeepsRemembered DEF Swap
  <2>5. CASE CloseOld(a)
    BY <1>0, <2>5, MovingKeepsRemembered DEF CloseOld
  <2>6. QED
    BY <1>5, <2>1, <2>2, <2>3, <2>4, <2>5 DEF Reloading
<1>6. CASE Restart
  BY <1>0, <1>6 DEF Restart, Remembered
<1>7. CASE UNCHANGED vars
  BY <1>7 DEF vars, Remembered
<1>8. QED
  BY <1>1, <1>2, <1>3, <1>4, <1>5, <1>6, <1>7, FormsAreRows DEF Next, Editing

\* An update with an empty password field that no edit has overtaken leaves
\* the password of its row as it is (update).
THEOREM BlankIsNoPassword == Spec => BlankKeepsPassword
<1> DEFINE Kept == \A a \in Admins :
      LET h == admins[a]
      IN  h.stage = "update" /\ h.form.password = Blank /\ h.seen = writes =>
            \A r \in store, q \in store' :
              r.slug = q.slug /\ admins'[a] = NeedsReload
                => q.password = r.password
<1>1. Init => Remembered
  BY DEF Init, Idle, Remembered
<1>2. ASSUME TypeOK, Remembered, [Next]_vars PROVE [Kept]_vars
  <2> SUFFICES ASSUME NEW a \in Admins, admins[a].stage = "update",
                      admins[a].form.password = Blank, admins[a].seen = writes,
                      NEW r \in store, NEW q \in store', r.slug = q.slug,
                      admins'[a] = NeedsReload
               PROVE  q.password = r.password
    OBVIOUS
  <2>1. admins[a] # NeedsReload /\ Idle # NeedsReload
    BY DEF NeedsReload, Idle
  <2>2. \A b \in Admins : \A where : Goto(b, where) => b = a
    BY <1>2, <2>1 DEF Goto, TypeOK
  <2>3. WriteUpdate(a)
    <3>1. admins[a].stage = "update" /\ admins[a] # Idle
      BY DEF Idle
    <3>2. ~Restart /\ ~UNCHANGED vars /\ ~AbandonUpdate(a)
      BY <1>2, <2>1 DEF Restart, vars, AbandonUpdate, Goto, TypeOK
    <3>3. ~Reloading(a)
      BY <2>1 DEF Reloading, BuildRuntimes, FailBuild, Swap, CloseOld
    <3>4. PICK b \in Admins : Editing(b) \/ Reloading(b)
      BY <1>2, <3>2 DEF Next
    <3>5. b = a
      BY <2>2, <3>4
      DEF Editing, Create, ReadForUpdate, WriteUpdate, AbandonUpdate, Delete,
          Reloading, BuildRuntimes, FailBuild, Swap, CloseOld
    <3>6. QED
      BY <3>1, <3>2, <3>3, <3>4, <3>5
      DEF Editing, Create, ReadForUpdate, Delete
  <2> DEFINE row == FilledIn(admins[a].form, admins[a].existing)
  <2>4. store' = {p \in store : p.slug # row.slug} \cup {row}
    BY <1>2, <2>1, <2>3 DEF WriteUpdate, Edited, Goto, TypeOK
  <2>5. /\ admins[a].form \in Row
        /\ admins[a].existing \in Passwords \cup {Blank}
    BY <1>2, StageFields
  <2>6. row.slug = admins[a].form.slug /\ row.password = admins[a].existing
    BY <2>5, FilledInTyped DEF FilledIn, Row
  <2>7. CASE q = row
    BY <1>2, <2>6, <2>7 DEF Remembered
  <2>8. CASE q # row
    BY <1>2, <2>4, <2>8 DEF TypeOK
  <2>9. QED
    BY <2>7, <2>8
<1>3. QED
  BY <1>1, <1>2, NextRemembered, TypeCorrect, PTL DEF Spec, BlankKeepsPassword

-----------------------------------------------------------------------------
\* Seen by those who ask for a database.

\* What a handler does away from its swap takes no copy out of its hands and
\* puts none into them.
LEMMA HandsUnchanged ==
  ASSUME TypeOK, NEW a \in Admins, NEW where \in Stage, Goto(a, where),
         admins[a].stage # "swap", where.stage # "swap"
  PROVE  Taken' = Taken
<1>1. /\ admins'[a] = where
      /\ \A b \in Admins \ {a} : admins'[b] = admins[b]
  BY GotoTyped
<1>2. \A b \in Admins :
        /\ (admins'[b].stage = "swap") <=> (admins[b].stage = "swap")
        /\ admins[b].stage = "swap" => admins'[b] = admins[b]
  BY <1>1
<1> QED
  BY <1>2 DEF Taken

\* A handler that has edited the table has put a row in its place, or taken
\* one out.
LEMMA EditingEdits ==
  ASSUME TypeOK, NEW a \in Admins, Editing(a)
  PROVE  Shop!Edit \/ UNCHANGED Shop!vars
<1>0. Idle.stage # "swap" /\ NeedsReload.stage # "swap"
  BY DEF Idle, NeedsReload
<1>1. ASSUME NEW row \in Forms, Create(a, row)
      PROVE  Shop!Edit
  <2>1. row \in Row /\ store' = Shop!Others(row.slug) \cup {row}
    BY <1>1, FormsAreRows DEF Create, Edited, Shop!Others
  <2>2. Taken' = Taken
    BY <1>0, <1>1, HandsUnchanged, StagesTyped DEF Create
  <2> QED
    BY <1>1, <2>1, <2>2 DEF Create, Shop!Edit
<1>2. ASSUME NEW form \in Forms, ReadForUpdate(a, form)
      PROVE  UNCHANGED Shop!vars
  <2>1. PICK r \in store :
          Goto(a, [stage |-> "update", form |-> form,
                   existing |-> r.password, seen |-> writes])
    BY <1>2 DEF ReadForUpdate
  <2>2. form \in Row /\ r.password \in Passwords \cup {Blank} /\ writes \in Nat
    BY FormsAreRows DEF TypeOK, Row
  <2>3. [stage |-> "update", form |-> form, existing |-> r.password,
         seen |-> writes] \in Stage
    BY <2>2, StagesTyped
  <2>4. Taken' = Taken
    BY <1>0, <1>2, <2>1, <2>3, HandsUnchanged DEF ReadForUpdate
  <2> QED
    BY <1>2, <2>4 DEF ReadForUpdate, Shop!vars
<1>3. CASE WriteUpdate(a)
  <2>1. PICK row : row = FilledIn(admins[a].form, admins[a].existing)
    OBVIOUS
  <2>2. row \in Row
    BY <1>3, <2>1, StageFields, FilledInTyped DEF WriteUpdate
  <2>3. CASE \E r \in store : r.slug = row.slug
    <3>1. store' = Shop!Others(row.slug) \cup {row} /\ Goto(a, NeedsReload)
      BY <1>3, <2>1, <2>3 DEF WriteUpdate, Edited, Shop!Others
    <3>2. Taken' = Taken
      BY <1>0, <1>3, <3>1, HandsUnchanged, StagesTyped DEF WriteUpdate
    <3> QED
      BY <1>3, <2>2, <3>1, <3>2 DEF WriteUpdate, Shop!Edit
  <2>4. CASE ~\E r \in store : r.slug = row.slug
    <3>1. store' = store /\ Goto(a, Idle)
      BY <1>3, <2>1, <2>4 DEF WriteUpdate
    <3>2. Taken' = Taken
      BY <1>0, <1>3, <3>1, HandsUnchanged, StagesTyped DEF WriteUpdate
    <3> QED
      BY <1>3, <3>1, <3>2 DEF WriteUpdate, Shop!vars
  <2> QED
    BY <2>3, <2>4
<1>4. CASE AbandonUpdate(a)
  <2>1. Taken' = Taken
    BY <1>0, <1>4, HandsUnchanged, StagesTyped DEF AbandonUpdate
  <2> QED
    BY <1>4, <2>1 DEF AbandonUpdate, Shop!vars
<1>5. ASSUME NEW slug \in Slugs, Delete(a, slug)
      PROVE  Shop!Edit
  <2>1. store' = Shop!Others(slug)
    BY <1>5 DEF Delete, Edited, Shop!Others
  <2>2. Taken' = Taken
    BY <1>0, <1>5, HandsUnchanged, StagesTyped DEF Delete
  <2> QED
    BY <1>5, <2>1, <2>2 DEF Delete, Shop!Edit
<1> QED
  BY <1>1, <1>2, <1>3, <1>4, <1>5 DEF Editing

\* A handler that reloads takes a copy, puts its copy on show, or lets go.
LEMMA ReloadingShows ==
  ASSUME TypeOK, NEW a \in Admins, Reloading(a)
  PROVE  Shop!Take \/ Shop!Show \/ UNCHANGED Shop!vars
<1>0. Idle.stage # "swap" /\ NeedsReload.stage # "swap"
  BY DEF Idle, NeedsReload
<1>1. CASE BuildRuntimes(a)
  <2>1. [stage |-> "swap", built |-> NewBuild] \in Stage
    BY NewBuildTyped, StagesTyped
  <2>2. /\ admins'[a] = [stage |-> "swap", built |-> NewBuild]
        /\ \A b \in Admins \ {a} : admins'[b] = admins[b]
    BY <1>1, <2>1, GotoTyped DEF BuildRuntimes
  <2>3. admins[a].stage # "swap"
    BY <1>0, <1>1 DEF BuildRuntimes
  <2>4. \A b \in Admins :
          (admins'[b].stage = "swap") <=> (b = a \/ admins[b].stage = "swap")
    BY <2>2
  <2>5. NewBuild.rows = Shop!Copy
    BY DEF NewBuild, Enabled, Shop!Copy
  <2>6. Taken' = Taken \cup {Shop!Copy}
    BY <2>2, <2>3, <2>4, <2>5 DEF Taken
  <2>7. Shop!Take
    BY <1>1, <2>6 DEF BuildRuntimes, Shop!Take
  <2> QED
    BY <2>7
<1>2. CASE FailBuild(a)
  <2>1. Taken' = Taken
    BY <1>0, <1>2, HandsUnchanged, StagesTyped DEF FailBuild
  <2> QED
    BY <1>2, <2>1 DEF FailBuild, Shop!vars
<1>3. CASE Swap(a)
  <2>1. registry' = admins[a].built /\ admins[a].stage = "swap"
    BY <1>3 DEF Swap
  <2>2. registry'.rows \in Taken
    BY <2>1 DEF Taken
  <2>3. [stage |-> "close", old |-> registry] \in Stage
    BY StagesTyped DEF TypeOK
  <2>4. /\ admins'[a] = [stage |-> "close", old |-> registry]
        /\ \A b \in Admins \ {a} : admins'[b] = admins[b]
    BY <1>3, <2>3, GotoTyped DEF Swap
  <2>5. \A b \in Admins : admins'[b].stage = "swap" =>
          admins[b].stage = "swap" /\ admins'[b] = admins[b]
    BY <2>4
  <2>6. Taken' \subseteq Taken
    BY <2>5 DEF Taken
  <2>7. Shop!Show
    BY <1>3, <2>2, <2>6 DEF Swap, Shop!Show
  <2> QED
    BY <2>7
<1>4. CASE CloseOld(a)
  <2>1. Taken' = Taken
    BY <1>0, <1>4, HandsUnchanged, StagesTyped DEF CloseOld
  <2> QED
    BY <1>4, <2>1 DEF CloseOld, Shop!vars
<1> QED
  BY <1>1, <1>2, <1>3, <1>4 DEF Reloading

\* Every step of the registry is one of Publication, or none.
LEMMA ShopStep == TypeOK /\ [Next]_vars => [Shop!Next]_(Shop!vars)
<1> SUFFICES ASSUME TypeOK, [Next]_vars PROVE Shop!Next \/ UNCHANGED Shop!vars
  OBVIOUS
<1>1. ASSUME NEW a \in Admins, Editing(a) \/ Reloading(a)
      PROVE  Shop!Next \/ UNCHANGED Shop!vars
  BY <1>1, EditingEdits, ReloadingShows DEF Shop!Next
<1>2. CASE Restart
  <2>1. registry'.rows = Shop!Copy
    BY <1>2 DEF Restart, NewBuild, Enabled, Shop!Copy
  <2>2. \A b \in Admins : admins'[b].stage # "swap"
    BY <1>2 DEF Restart, Idle
  <2>3. Taken' = {}
    BY <2>2 DEF Taken
  <2> QED
    BY <1>2, <2>1, <2>3 DEF Restart, Shop!Restart, Shop!Next
<1>3. CASE UNCHANGED vars
  BY <1>3 DEF vars, Shop!vars, Taken
<1> QED
  BY <1>1, <1>2, <1>3 DEF Next

\* However admin requests interleave and fail, requests are answered from one
\* whole state that the table was in (registry.go: Reload).
THEOREM ShowsWholeTables == Spec => ImplementsPublication
<1>1. Init => Shop!Init
  <2> SUFFICES ASSUME Init PROVE Shop!Init
    OBVIOUS
  <2>1. store \subseteq Row /\ \A r, q \in store : r.slug = q.slug => r = q
    BY InitTyped DEF TypeOK
  <2>2. registry.rows = Shop!Copy
    BY DEF Init, Enabled, Shop!Copy
  <2>3. Taken = {}
    BY DEF Init, Taken, Idle
  <2> QED
    BY <2>1, <2>2, <2>3 DEF Shop!Init
<1> QED
  BY <1>1, TypeCorrect, ShopStep, PTL DEF Spec, ImplementsPublication, Shop!Spec

-----------------------------------------------------------------------------
\* Serving while the table is edited.

\* The requests need nothing of the table but what it has: seen without them,
\* every step of the gate is one of AdminRegistry, or none.
LEMMA ServingKeepsTable == [GNext]_gvars => [Next]_vars
  BY DEF GNext, gvars, Next

\* The gate with its requests is an AdminRegistry.
THEOREM GatewayIsRegistry == GSpec => Spec
  BY ServingKeepsTable, PTL DEF GSpec, GInit, Spec

\* So what is proved of the registry holds while it serves.
THEOREM RegistryWhileServing ==
  GSpec => /\ [](TypeOK /\ NeverServesClosed /\ NothingLeaks /\ StaleOnlyIfOvertaken)
           /\ BlankKeepsPassword /\ ImplementsPublication
  BY GatewayIsRegistry, TypeCorrect, ServingIsOpen, NoRuntimeForgotten,
     StaleOnlyByOvertaking, BlankIsNoPassword, ShowsWholeTables, PTL

\* What the requests are made of.
GTypeOK ==
    /\ oauth \in BOOLEAN
    /\ requests \in [Requests -> Request]
    /\ sessions \in [Slugs -> Nat \cup {NoSession}]

\* Only enabled rows are built and served.
OnlyEnabled ==
    /\ \A r \in registry.rows : r.enabled
    /\ \A a \in Admins : admins[a].stage = "swap" =>
         \A r \in admins[a].built.rows : r.enabled

\* An admitted request is entitled to the row it was admitted by.
Admitted ==
    \A q \in Requests : requests[q].stage = "admitted" =>
      Entitled(requests[q].route, requests[q].bearer, requests[q].row)

\* What the check of a request lets through is entitled to the row.
LEMMA ChecksEntitle ==
  ASSUME NEW row \in Row, row.enabled, NEW bearer, oauth \in BOOLEAN
  PROVE  /\ RestAdmits(row, bearer) => Entitled("rest", bearer, row)
         /\ MCPAdmits(row, bearer) => Entitled("mcp", bearer, row)
<1>1. row.slug # NoToken
  BY SessionsAssumption DEF Row
<1>2. RestAdmits(row, bearer) => bearer = row.api /\ bearer # NoToken
  BY DEF RestAdmits, PassesBearer
<1>3. MCPAdmits(row, bearer) =>
         /\ bearer # NoToken
         /\ \/ oauth /\ bearer = row.slug
            \/ ~oauth /\ bearer = row.mcp
  BY <1>1 DEF MCPAdmits, PassesBearer
<1>4. QED
  BY <1>2, <1>3 DEF Entitled

\* A request that moves on leaves the others where they are.
LEMMA GoesTyped ==
  ASSUME GTypeOK, NEW q \in Requests, NEW where \in Request, Goes(q, where)
  PROVE  /\ requests' \in [Requests -> Request]
         /\ requests'[q] = where
         /\ \A p \in Requests \ {q} : requests'[p] = requests[p]
  BY DEF GTypeOK, Goes

\* A request carries what its stage needs.
LEMMA RequestFields ==
  ASSUME GTypeOK, NEW q \in Requests
  PROVE  /\ requests[q].stage = "login" =>
              requests[q].row \in Row /\ requests[q].asof \in Nat
         /\ requests[q].stage = "admitted" =>
              /\ requests[q].route \in Routes /\ requests[q].bearer \in Bearers
              /\ requests[q].row \in Row /\ requests[q].asof \in Nat
<1>1. requests[q] \in Request
  BY DEF GTypeOK
<1>2. QED
  BY <1>1 DEF Request

\* Where a step of a request leads.
LEMMA ServingTyped ==
  ASSUME TypeOK, GTypeOK, NEW q \in Requests, Serving(q)
  PROVE  \E where \in Request :
           /\ Goes(q, where)
           /\ where.stage = "admitted" =>
                /\ where.row \in registry.rows /\ where.asof = registry.asof
                /\ \/ where.route = "rest" /\ RestAdmits(where.row, where.bearer)
                   \/ where.route = "mcp" /\ MCPAdmits(where.row, where.bearer)
           /\ where.stage = "asked" =>
                /\ requests[q].stage = "admitted"
                /\ where.route = requests[q].route
                /\ where.bearer = requests[q].bearer
                /\ where.target = requests[q].row
<1>0. registry.rows \subseteq Row /\ registry.asof \in Nat
  BY DEF TypeOK, Build
<1>1. CASE \E slug \in Slugs, route \in Routes, bearer \in Bearers :
             Arrive(q, slug, route, bearer)
  <2>1. PICK slug \in Slugs, route \in Routes, bearer \in Bearers :
          Arrive(q, slug, route, bearer)
    BY <1>1
  <2>2. PICK row \in registry.rows :
          /\ row.slug = slug
          /\ \/ route = "rest" /\ RestAdmits(row, bearer)
             \/ route = "mcp" /\ MCPAdmits(row, bearer)
          /\ Goes(q, [stage |-> "admitted", route |-> route, row |-> row,
                      asof |-> registry.asof, bearer |-> bearer,
                      session |-> sessions[slug]])
    BY <2>1 DEF Arrive
  <2>3. [stage |-> "admitted", route |-> route, row |-> row,
         asof |-> registry.asof, bearer |-> bearer,
         session |-> sessions[slug]] \in Request
    BY <1>0 DEF Request, GTypeOK
  <2>4. QED
    BY <2>2, <2>3
<1>2. CASE Ask(q)
  <2>1. Sent(requests[q], requests[q].row) \in Request
    BY <1>2, RequestFields DEF Ask, Sent, Request
  <2>2. QED
    BY <1>2, <2>1 DEF Ask, Sent
<1>3. CASE \E slug \in Slugs : StartLogin(q, slug)
  <2>1. PICK row \in registry.rows :
          Goes(q, [stage |-> "login", row |-> row, asof |-> registry.asof])
    BY <1>3 DEF StartLogin
  <2>2. [stage |-> "login", row |-> row, asof |-> registry.asof] \in Request
    BY <1>0 DEF Request
  <2>3. QED
    BY <2>1, <2>2
<1>4. CASE FinishLogin(q) \/ Finish(q)
  <2>1. Goes(q, NoRequest)
    BY <1>4 DEF FinishLogin, Finish
  <2>2. NoRequest \in Request /\ NoRequest.stage = "idle"
    BY DEF NoRequest, Request
  <2>3. QED
    BY <2>1, <2>2
<1>5. QED
  BY <1>1, <1>2, <1>3, <1>4 DEF Serving

\* No step leaves a request or a session untyped.
LEMMA GNextTyped == TypeOK /\ GTypeOK /\ [GNext]_gvars => GTypeOK'
<1> SUFFICES ASSUME TypeOK, GTypeOK, [GNext]_gvars PROVE GTypeOK'
  OBVIOUS
<1>1. ASSUME NEW q \in Requests, Serving(q) PROVE GTypeOK'
  <2>1. requests' \in [Requests -> Request]
    BY <1>1, ServingTyped, GoesTyped
  <2>2. oauth' = oauth
    BY <1>1 DEF Serving, Arrive, Ask, StartLogin, FinishLogin, Finish
  <2>3. sessions' \in [Slugs -> Nat \cup {NoSession}]
    BY <1>1, RequestFields
    DEF Serving, Arrive, Ask, StartLogin, FinishLogin, Finish, GTypeOK
  <2>4. QED
    BY <2>1, <2>2, <2>3 DEF GTypeOK
<1>2. ASSUME NEW s \in Slugs, EndSession(s) PROVE GTypeOK'
  BY <1>2 DEF EndSession, GTypeOK
<1>3. CASE Restart /\ oauth' \in BOOLEAN /\ UNCHANGED sessions
           /\ requests' = [q \in Requests |-> NoRequest]
  BY <1>3 DEF GTypeOK, NoRequest, Request
<1>4. CASE UNCHANGED served
  BY <1>4 DEF served, GTypeOK
<1>5. QED
  BY <1>1, <1>2, <1>3, <1>4 DEF GNext, gvars, served, recorded

\* A build is made of the rows that are enabled.
LEMMA NextOnlyEnabled == TypeOK /\ OnlyEnabled /\ [Next]_vars => OnlyEnabled'
<1> SUFFICES ASSUME TypeOK, OnlyEnabled, [Next]_vars PROVE OnlyEnabled'
  OBVIOUS
<1>0. /\ \A r \in NewBuild.rows : r.enabled
      /\ Idle.stage # "swap" /\ NeedsReload.stage # "swap"
  BY DEF NewBuild, Enabled, Idle, NeedsReload
<1>1. ASSUME NEW a \in Admins, NEW where, Goto(a, where), UNCHANGED registry,
             where.stage = "swap" => \A r \in where.built.rows : r.enabled
      PROVE  OnlyEnabled'
  <2>1. \A b \in Admins : admins'[b] = IF b = a THEN where ELSE admins[b]
    BY <1>1 DEF Goto, TypeOK
  <2>2. QED
    BY <1>1, <2>1 DEF OnlyEnabled
<1>2. ASSUME NEW a \in Admins, Editing(a) PROVE OnlyEnabled'
  <2>1. CASE \E form \in Forms : ReadForUpdate(a, form)
    <3>1. PICK form \in Forms, r \in store :
            /\ Goto(a, [stage |-> "update", form |-> form,
                        existing |-> r.password, seen |-> writes])
            /\ UNCHANGED registry
      BY <2>1 DEF ReadForUpdate
    <3>2. QED
      BY <3>1, <1>1
  <2>2. CASE ~ \E form \in Forms : ReadForUpdate(a, form)
    BY <1>0, <1>1, <1>2, <2>2
    DEF Editing, Create, WriteUpdate, AbandonUpdate, Delete
  <2>3. QED
    BY <2>1, <2>2
<1>3. ASSUME NEW a \in Admins, BuildRuntimes(a) PROVE OnlyEnabled'
  BY <1>0, <1>1, <1>3 DEF BuildRuntimes
<1>4. ASSUME NEW a \in Admins, FailBuild(a) \/ CloseOld(a) PROVE OnlyEnabled'
  BY <1>0, <1>1, <1>4 DEF FailBuild, CloseOld
<1>5. ASSUME NEW a \in Admins, Swap(a) PROVE OnlyEnabled'
  <2>1. \A b \in Admins : admins'[b] =
          IF b = a THEN [stage |-> "close", old |-> registry] ELSE admins[b]
    BY <1>5 DEF Swap, Goto, TypeOK
  <2>2. registry' = admins[a].built /\ admins[a].stage = "swap"
    BY <1>5 DEF Swap
  <2>3. QED
    BY <2>1, <2>2 DEF OnlyEnabled
<1>6. CASE Restart
  BY <1>0, <1>6 DEF Restart, OnlyEnabled
<1>7. CASE UNCHANGED vars
  BY <1>7 DEF vars, OnlyEnabled
<1>8. QED
  BY <1>2, <1>3, <1>4, <1>5, <1>6, <1>7 DEF Next, Reloading

\* A request is checked against the row that its call will be made with, and
\* what that row is does not change while it is under way.
LEMMA GNextAdmitted ==
  ASSUME TypeOK, GTypeOK, OnlyEnabled, Admitted, CredentialMeetsTarget,
         [GNext]_gvars
  PROVE  Admitted' /\ CredentialMeetsTarget'
<1>1. ASSUME NEW q \in Requests, Serving(q)
      PROVE  Admitted' /\ CredentialMeetsTarget'
  <2>1. PICK where \in Request :
           /\ Goes(q, where)
           /\ where.stage = "admitted" =>
                /\ where.row \in registry.rows /\ where.asof = registry.asof
                /\ \/ where.route = "rest" /\ RestAdmits(where.row, where.bearer)
                   \/ where.route = "mcp" /\ MCPAdmits(where.row, where.bearer)
           /\ where.stage = "asked" =>
                /\ requests[q].stage = "admitted"
                /\ where.route = requests[q].route
                /\ where.bearer = requests[q].bearer
                /\ where.target = requests[q].row
    BY <1>1, ServingTyped
  <2>2. /\ requests'[q] = where
        /\ \A p \in Requests \ {q} : requests'[p] = requests[p]
    BY <2>1, GoesTyped
  <2>3. oauth' = oauth
    BY <1>1 DEF Serving, Arrive, Ask, StartLogin, FinishLogin, Finish
  <2>4. where.stage = "admitted" =>
          Entitled(where.route, where.bearer, where.row)
    <3>1. ASSUME where.stage = "admitted"
          PROVE  where.row \in Row /\ where.row.enabled /\ oauth \in BOOLEAN
      BY <2>1, <3>1 DEF OnlyEnabled, TypeOK, GTypeOK, Build
    <3>2. QED
      BY <2>1, <3>1, ChecksEntitle
  <2>5. where.stage = "asked" =>
          Entitled(where.route, where.bearer, where.target)
    BY <2>1 DEF Admitted
  <2>6. \A route, bearer, row :
          Entitled(route, bearer, row) => Entitled(route, bearer, row)'
    BY <2>3 DEF Entitled
  <2>7. Admitted'
    BY <2>2, <2>4, <2>6 DEF Admitted
  <2>8. CredentialMeetsTarget'
    BY <2>2, <2>5, <2>6 DEF CredentialMeetsTarget
  <2>9. QED
    BY <2>7, <2>8
<1>2. CASE UNCHANGED <<oauth, requests>>
  BY <1>2 DEF Admitted, CredentialMeetsTarget, Entitled
<1>3. CASE requests' = [q \in Requests |-> NoRequest]
  BY <1>3 DEF NoRequest, Admitted, CredentialMeetsTarget
<1>4. QED
  BY <1>1, <1>2, <1>3 DEF GNext, EndSession, gvars, served

\* For any number of requests, edits and reloads: a request that was let in by
\* a row asks what that row says, and was entitled to it (Registry.Handle,
\* restEndpoint, serveMCP).
THEOREM CredentialsHold == GSpec => []CredentialMeetsTarget
<1>1. GInit => GTypeOK /\ OnlyEnabled /\ Admitted /\ CredentialMeetsTarget
  BY DEF GInit, GTypeOK, OnlyEnabled, Admitted, CredentialMeetsTarget,
         NoRequest, Request, Init, Idle, Enabled
<1>2. TypeOK /\ GTypeOK /\ OnlyEnabled /\ Admitted /\ CredentialMeetsTarget
        /\ [GNext]_gvars
        => (GTypeOK /\ OnlyEnabled /\ Admitted /\ CredentialMeetsTarget)'
  BY GNextTyped, NextOnlyEnabled, GNextAdmitted, ServingKeepsTable
<1>3. GSpec => []TypeOK
  BY GatewayIsRegistry, TypeCorrect, PTL
<1>4. QED
  BY <1>1, <1>2, <1>3, PTL DEF GSpec

-----------------------------------------------------------------------------
\* Databases that are deleted and created again.

\* Of the slug s: what has seen its latest deletion has seen it created since.
Reborn(s, asof) == deleted[s] <= asof => created[s] > deleted[s]

\* What is in the table, was built from it or was admitted by such a build has
\* been created since any deletion it has seen.
History ==
    /\ created \in [Slugs -> Nat] /\ deleted \in [Slugs -> Int]
    /\ \A s \in Slugs : created[s] <= writes /\ deleted[s] <= writes
    /\ \A r \in store : created[r.slug] > deleted[r.slug]

Built(build) ==
    build.asof <= writes /\ \A r \in build.rows : Reborn(r.slug, build.asof)

\* The same once a step has recorded its edit.
BuiltThen(build) ==
    /\ build.asof <= writes'
    /\ \A r \in build.rows :
         deleted'[r.slug] <= build.asof => created'[r.slug] > deleted'[r.slug]

BuiltHistory ==
    /\ Built(registry)
    /\ \A a \in Admins : admins[a].stage = "swap" => Built(admins[a].built)

AdmittedHistory ==
    \A q \in Requests : requests[q].stage = "admitted" =>
      /\ requests[q].asof <= writes
      /\ Reborn(requests[q].row.slug, requests[q].asof)

\* A step of an admin handler edits the table once or not at all, and only
\* what was built just now is built from the table.
LEMMA HandlerSteps ==
  ASSUME TypeOK, NEW a \in Admins, Editing(a) \/ Reloading(a)
  PROVE  /\ UNCHANGED <<store, writes>> \/ writes' = writes + 1
         /\ \A b \in Admins : admins'[b].stage = "swap" =>
              admins'[b] = admins[b] \/ admins'[b].built = NewBuild
         /\ \/ registry' = registry
            \/ \E b \in Admins : /\ admins[b].stage = "swap"
                                 /\ registry' = admins[b].built
         /\ (\E b \in Admins : admins'[b] # admins[b] /\ admins'[b].stage = "swap")
              => UNCHANGED <<store, writes>>
<1>1. PICK where :
        /\ Goto(a, where)
        /\ where.stage = "swap" =>
             where.built = NewBuild /\ UNCHANGED <<store, writes>>
  <2>0. Idle.stage # "swap" /\ NeedsReload.stage # "swap"
    BY DEF Idle, NeedsReload
  <2>1. CASE \E form \in Forms : ReadForUpdate(a, form)
    <3>1. PICK form \in Forms, r \in store :
            Goto(a, [stage |-> "update", form |-> form,
                     existing |-> r.password, seen |-> writes])
      BY <2>1 DEF ReadForUpdate
    <3>2. QED
      BY <3>1
  <2>2. CASE BuildRuntimes(a)
    BY <2>2 DEF BuildRuntimes
  <2>3. CASE Swap(a)
    BY <2>3 DEF Swap
  <2>4. CASE FailBuild(a) \/ CloseOld(a)
    BY <2>0, <2>4 DEF FailBuild, CloseOld
  <2>5. CASE Editing(a) /\ ~ \E form \in Forms : ReadForUpdate(a, form)
    BY <2>0, <2>5 DEF Editing, Create, WriteUpdate, AbandonUpdate, Delete
  <2>6. QED
    BY <2>1, <2>2, <2>3, <2>4, <2>5 DEF Reloading
<1>2. \A b \in Admins : admins'[b] = IF b = a THEN where ELSE admins[b]
  BY <1>1 DEF Goto, TypeOK
<1>3. UNCHANGED <<store, writes>> \/ writes' = writes + 1
  BY DEF Editing, Create, ReadForUpdate, WriteUpdate, AbandonUpdate, Delete,
         Edited, Reloading, BuildRuntimes, FailBuild, Swap, CloseOld
<1>4. \/ registry' = registry
      \/ admins[a].stage = "swap" /\ registry' = admins[a].built
  BY DEF Editing, Create, ReadForUpdate, WriteUpdate, AbandonUpdate, Delete,
         Reloading, BuildRuntimes, FailBuild, Swap, CloseOld
<1>5. QED
  BY <1>1, <1>2, <1>3, <1>4

\* An edit is recorded after everything that was built before it.
LEMMA RecordingAges ==
  ASSUME TypeOK, TypeOK', History, Recorded,
         UNCHANGED <<store, writes>> \/ writes' = writes + 1
  PROVE  /\ History'
         /\ \A s \in Slugs, n \in Nat :
              n <= writes /\ Reborn(s, n) => n <= writes' /\ Reborn(s, n)'
<1>1. writes \in Nat /\ writes' \in Nat /\ writes <= writes'
  BY DEF TypeOK
<1>2. store \subseteq Row /\ store' \subseteq Row
  BY DEF TypeOK
<1>3. \A s \in Slugs :
        /\ created'[s] = IF s \in InTable(store') \ InTable(store)
                         THEN writes' ELSE created[s]
        /\ deleted'[s] = IF s \in InTable(store) \ InTable(store')
                         THEN writes' ELSE deleted[s]
  BY DEF Recorded
<1>4. created' \in [Slugs -> Nat] /\ deleted' \in [Slugs -> Int]
  BY <1>1 DEF Recorded, History
<1>5. \A s \in Slugs : s \in InTable(store) \ InTable(store')
                         \/ s \in InTable(store') \ InTable(store)
                       => writes' = writes + 1
  BY DEF InTable
<1>6. \A s \in Slugs :
        /\ created[s] \in Nat /\ deleted[s] \in Int
        /\ created[s] <= writes /\ deleted[s] <= writes
  BY DEF History
<1>7. \A s \in Slugs : created'[s] <= writes' /\ deleted'[s] <= writes'
  BY <1>1, <1>3, <1>6
<1>8. ASSUME NEW r \in store' PROVE created'[r.slug] > deleted'[r.slug]
  <2>1. r.slug \in Slugs /\ r.slug \in InTable(store')
    BY <1>2 DEF Row, InTable
  <2>2. CASE r.slug \in InTable(store)
    <3>1. created[r.slug] > deleted[r.slug]
      BY <2>2 DEF InTable, History
    <3>2. QED
      BY <1>3, <2>1, <2>2, <3>1
  <2>3. CASE r.slug \notin InTable(store)
    BY <1>1, <1>3, <1>5, <1>6, <2>1, <2>3
  <2>4. QED
    BY <2>2, <2>3
<1>9. ASSUME NEW s \in Slugs, NEW n \in Nat, n <= writes, Reborn(s, n)
      PROVE  n <= writes' /\ Reborn(s, n)'
  <2>1. CASE s \in InTable(store) \ InTable(store')
    <3>1. deleted'[s] = writes + 1
      BY <1>3, <1>5, <2>1
    <3>2. QED
      BY <1>1, <1>9, <3>1 DEF Reborn
  <2>2. CASE s \notin InTable(store) \ InTable(store')
    <3>1. deleted'[s] = deleted[s] /\ created'[s] >= created[s]
      BY <1>1, <1>3, <1>6, <2>2
    <3>2. created'[s] \in Nat
      BY <1>4
    <3>3. QED
      BY <1>1, <1>6, <1>9, <3>1, <3>2 DEF Reborn
  <2>3. QED
    BY <2>1, <2>2
<1>10. QED
  BY <1>4, <1>7, <1>8, <1>9 DEF History

\* A build of the table as it is has seen what the table has seen.
LEMMA NewBuildHistory ==
  ASSUME TypeOK, History
  PROVE  Built(NewBuild)
<1>1. NewBuild.rows \subseteq store /\ NewBuild.asof = writes /\ writes \in Nat
  BY DEF NewBuild, Enabled, TypeOK
<1>2. QED
  BY <1>1 DEF Built, Reborn, History

\* What a build has seen stays true of it.
LEMMA BuiltAges ==
  ASSUME TypeOK, TypeOK', History, Recorded,
         UNCHANGED <<store, writes>> \/ writes' = writes + 1,
         NEW b \in Build, Built(b)
  PROVE  BuiltThen(b)
<1>1. b.asof \in Nat /\ b.asof <= writes /\ writes \in Nat
  BY DEF Build, Built, TypeOK
<1>2. \A r \in b.rows : r.slug \in Slugs /\ Reborn(r.slug, b.asof)
  BY DEF Build, Row, Built
<1>3. b.asof <= writes'
  BY <1>1 DEF TypeOK
<1>4. ASSUME NEW r \in b.rows PROVE Reborn(r.slug, b.asof)'
  BY <1>1, <1>2, RecordingAges
<1>5. QED
  BY <1>3, <1>4 DEF BuiltThen, Reborn

\* The handlers build from the table and install what they built.
LEMMA HandlersKeepHistory ==
  ASSUME TypeOK, TypeOK', History, BuiltHistory, Recorded,
         NEW a \in Admins, Editing(a) \/ Reloading(a)
  PROVE  History' /\ BuiltHistory'
<1>1. UNCHANGED <<store, writes>> \/ writes' = writes + 1
  BY HandlerSteps
<1>2. History'
  BY <1>1, RecordingAges
<1>3. ASSUME NEW b \in Build, Built(b)
      PROVE  BuiltThen(b)
  BY <1>1, <1>3, BuiltAges
<1>4. Built(registry)'
  <2>1. PICK b \in Build : Built(b) /\ registry' = b
    BY HandlerSteps, StageFields DEF BuiltHistory, TypeOK
  <2>2. QED
    BY <1>3, <2>1 DEF Built, BuiltThen, Reborn
<1>5. ASSUME NEW b \in Admins, admins'[b].stage = "swap"
      PROVE  BuiltThen(admins'[b].built)
  <2>1. CASE admins'[b] = admins[b]
    <3>1. admins[b].built \in Build /\ Built(admins[b].built)
      BY <1>5, <2>1, StageFields DEF BuiltHistory
    <3>2. QED
      BY <1>3, <2>1, <3>1
  <2>2. CASE admins'[b] # admins[b]
    <3>1. admins'[b].built = NewBuild
      BY <1>5, <2>2, HandlerSteps
    <3>2. Built(NewBuild) /\ NewBuild \in Build
      BY NewBuildHistory, NewBuildTyped
    <3>3. QED
      BY <1>3, <3>1, <3>2
  <2>3. QED
    BY <2>1, <2>2
<1>6. QED
  BY <1>2, <1>4, <1>5 DEF BuiltHistory, Built, BuiltThen, Reborn

\* And so do all steps of the gate.
LEMMA GNextHistory ==
  ASSUME TypeOK, TypeOK', GTypeOK, History, BuiltHistory, AdmittedHistory,
         [GNext]_gvars
  PROVE  History' /\ BuiltHistory' /\ AdmittedHistory'
<1>1. ASSUME NEW a \in Admins, Editing(a) \/ Reloading(a), Recorded,
             UNCHANGED served
      PROVE  History' /\ BuiltHistory' /\ AdmittedHistory'
  <2>1. UNCHANGED <<store, writes>> \/ writes' = writes + 1
    BY <1>1, HandlerSteps
  <2>2. \A s \in Slugs, n \in Nat :
          n <= writes /\ Reborn(s, n) => n <= writes' /\ Reborn(s, n)'
    BY <1>1, <2>1, RecordingAges
  <2>3. ASSUME NEW q \in Requests, requests[q].stage = "admitted"
        PROVE  /\ requests[q].asof <= writes'
               /\ Reborn(requests[q].row.slug, requests[q].asof)'
    <3>1. requests[q].asof \in Nat /\ requests[q].row.slug \in Slugs
      BY <2>3, RequestFields DEF Row
    <3>2. UNCHANGED requests
      BY <1>1 DEF served
    <3>3. /\ requests[q].asof <= writes
          /\ Reborn(requests[q].row.slug, requests[q].asof)
      BY <2>3 DEF AdmittedHistory
    <3>4. QED
      BY <2>2, <3>1, <3>2, <3>3 DEF Reborn
  <2>4. AdmittedHistory'
    BY <1>1, <2>3 DEF served, AdmittedHistory, Reborn
  <2>5. QED
    BY <1>1, <2>4, HandlersKeepHistory
<1>2. CASE Restart /\ UNCHANGED recorded
           /\ requests' = [q \in Requests |-> NoRequest]
  <2>1. UNCHANGED <<store, writes, created, deleted>>
    BY <1>2 DEF Restart, recorded
  <2>2. History'
    BY <2>1 DEF History
  <2>3. Built(NewBuild) /\ registry' = NewBuild
    BY <1>2, NewBuildHistory DEF Restart
  <2>4. BuiltHistory'
    BY <1>2, <2>1, <2>3 DEF Restart, BuiltHistory, Built, Reborn, Idle
  <2>5. AdmittedHistory'
    BY <1>2 DEF AdmittedHistory, NoRequest
  <2>6. QED
    BY <2>2, <2>4, <2>5
<1>3. ASSUME UNCHANGED <<vars, recorded>>
      PROVE  /\ History' /\ BuiltHistory'
             /\ \A s, n : Reborn(s, n) => Reborn(s, n)'
  BY <1>3 DEF vars, recorded, History, BuiltHistory, Built, Reborn
<1>4. ASSUME NEW q \in Requests, Serving(q), UNCHANGED <<vars, recorded>>
      PROVE  History' /\ BuiltHistory' /\ AdmittedHistory'
  <2>1. PICK where \in Request :
          /\ Goes(q, where)
          /\ where.stage = "admitted" =>
               where.row \in registry.rows /\ where.asof = registry.asof
    BY <1>4, ServingTyped
  <2>2. /\ requests'[q] = where
        /\ \A p \in Requests \ {q} : requests'[p] = requests[p]
    BY <2>1, GoesTyped
  <2>3. where.stage = "admitted" =>
          where.asof <= writes /\ Reborn(where.row.slug, where.asof)
    BY <2>1 DEF BuiltHistory, Built
  <2>4. writes' = writes
    BY <1>4 DEF vars
  <2>5. AdmittedHistory'
    BY <1>3, <1>4, <2>2, <2>3, <2>4 DEF AdmittedHistory, Reborn
  <2>6. QED
    BY <1>3, <1>4, <2>5
<1>5. CASE UNCHANGED <<vars, recorded, requests>>
  <2>1. AdmittedHistory'
    BY <1>5 DEF vars, recorded, AdmittedHistory, Reborn
  <2>2. QED
    BY <1>3, <1>5, <2>1
<1>6. QED
  BY <1>1, <1>2, <1>4, <1>5 DEF GNext, EndSession, gvars, served

\* For any number of databases, edits and requests: a session that outlived
\* its database is let in by a runtime that knows of the deletion only where
\* the slug has been taken again (tenant/store.go, Delete).
THEOREM OrphansAreReborn == GSpec => []OrphansNeedRebirth
<1>1. GInit => GTypeOK /\ History /\ BuiltHistory /\ AdmittedHistory
  <2> SUFFICES ASSUME GInit
               PROVE  GTypeOK /\ History /\ BuiltHistory /\ AdmittedHistory
    OBVIOUS
  <2>1. Init /\ TypeOK
    BY InitTyped DEF GInit
  <2>2. \A s \in Slugs : created[s] = 0 /\ deleted[s] = -1
    BY DEF GInit, Never
  <2>3. /\ created \in [Slugs -> Nat] /\ deleted \in [Slugs -> Int]
        /\ \A q \in Requests : requests[q] = NoRequest
    BY DEF GInit, Never
  <2>4. store \subseteq Row /\ registry.rows \subseteq Row
        /\ registry.asof = 0 /\ writes = 0
    BY <2>1 DEF TypeOK, Init, Build
  <2>5. History
    BY <2>2, <2>3, <2>4 DEF History, Row
  <2>6. BuiltHistory
    BY <2>1, <2>2, <2>4 DEF BuiltHistory, Built, Reborn, Init, Idle, Row
  <2>7. AdmittedHistory
    BY <2>3 DEF AdmittedHistory, NoRequest
  <2>8. GTypeOK
    BY DEF GInit, GTypeOK, NoRequest, Request
  <2>9. QED
    BY <2>5, <2>6, <2>7, <2>8
<1>2. TypeOK /\ TypeOK' /\ GTypeOK /\ History /\ BuiltHistory /\ AdmittedHistory
        /\ [GNext]_gvars
        => (GTypeOK /\ History /\ BuiltHistory /\ AdmittedHistory)'
  BY GNextTyped, GNextHistory
<1>3. AdmittedHistory => OrphansNeedRebirth
  BY DEF AdmittedHistory, OrphansNeedRebirth, Reborn
<1>4. GSpec => []TypeOK
  BY GatewayIsRegistry, TypeCorrect, PTL
<1>5. QED
  BY <1>1, <1>2, <1>3, <1>4, PTL DEF GSpec
=============================================================================
