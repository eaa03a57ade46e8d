---------------------------- MODULE AdminRegistry ----------------------------
(***************************************************************************)
(* The table of 1C databases, the /admin handlers that edit it and the     *)
(* registry that serves requests from a copy of it (internal/admin,        *)
(* internal/tenant/store.go, internal/api/registry.go, buildTenants of     *)
(* cmd/server/main.go).                                                    *)
(*                                                                         *)
(* The registry is rebuilt as a whole after every edit.  A reload reads    *)
(* the table and constructs new runtimes outside any lock, then swaps the  *)
(* map under the mutex, then closes the runtimes it displaced.  Nothing    *)
(* serialises two reloads.  A handler is between two of these steps when   *)
(* its record in "admins" says so.                                         *)
(*                                                                         *)
(* A row of the table is reduced to its key, the switch that publishes it, *)
(* the 1C password, which stands for the target of its requests and is the *)
(* one field an edit may leave alone, and the bearer tokens of its routes: *)
(* api (api_token, REST) and mcp (mcp_token, /mcp when OAuth is off).  A   *)
(* runtime is known by the build that made it: one build makes the         *)
(* runtimes of all enabled rows.                                           *)
(***************************************************************************)
EXTENDS Integers, FiniteSets

CONSTANTS
    Admins,         \* admin requests that can be in progress at once
    Slugs,
    Passwords,
    Blank,          \* the empty password field
    Tokens,
    NoToken,        \* the empty token field
    Forms,          \* bound: the rows that forms carry
    MaxWrites,      \* bound: edits of the table
    MaxBuilds       \* bound: builds of the registry

ASSUME BlankAssumption == Blank \notin Passwords /\ NoToken \notin Tokens

ASSUME FormsAssumption ==
    Forms \subseteq [slug: Slugs, enabled: BOOLEAN,
                     password: Passwords \cup {Blank},
                     api: Tokens \cup {NoToken}, mcp: Tokens \cup {NoToken}]

ASSUME BoundsAssumption == MaxWrites \in Nat /\ MaxBuilds \in Nat \ {0}

VARIABLES
    store,          \* the table "tenants"
    admins,         \* where each admin handler is
    registry,       \* the build that answers requests now
    closed,         \* builds whose runtimes have been closed
    builds,         \* number of builds so far
    writes,         \* history: number of edits of the table
    newest,         \* history: the latest edit any installed build had seen
    lost            \* history: the latest edit when a reload failed

vars == <<store, admins, registry, closed, builds, writes, newest, lost>>

Row == [slug: Slugs, enabled: BOOLEAN, password: Passwords \cup {Blank},
        api: Tokens \cup {NoToken}, mcp: Tokens \cup {NoToken}]

\* What a build knows: its number, the edits it has seen, the enabled rows.
Build == [id: Nat, asof: Nat, rows: SUBSET Row]

Stage ==
    [stage: {"idle", "build"}]
    \cup [stage: {"update"}, form: Row, existing: Passwords \cup {Blank},
          seen: Nat]        \* history: the edits there had been
    \cup [stage: {"swap"}, built: Build]
    \cup [stage: {"close"}, old: Build]

Idle == [stage |-> "idle"]

NeedsReload == [stage |-> "build"]

Enabled == {r \in store : r.enabled}

\* Mutant: what is installed is patched, and nothing is taken out of it.
PatchedBuild == [id |-> builds + 1, asof |-> writes,
                 rows |-> Enabled \cup {r \in registry.rows :
                            \A q \in Enabled : q.slug # r.slug}]

\* buildTenants over the table as it is now.
NewBuild == [id |-> builds + 1, asof |-> writes, rows |-> Enabled]

Goto(a, where) == admins' = [admins EXCEPT ![a] = where]

-----------------------------------------------------------------------------
\* The process has loaded its databases and listens.
Init ==
    /\ store \in {s \in SUBSET Forms : \A r, q \in s : r.slug = q.slug => r = q}
    /\ admins = [a \in Admins |-> Idle]
    /\ registry = [id |-> 1, asof |-> 0, rows |-> Enabled]
    /\ closed = {}
    /\ builds = 1
    /\ writes = 0
    /\ newest = 0
    /\ lost = 0

Edited(rows) ==
    /\ writes < MaxWrites
    /\ writes' = writes + 1
    /\ store' = rows

\* create: the INSERT; a taken slug is ErrExists and changes nothing.
Create(a, row) ==
    /\ admins[a] = Idle
    /\ \A r \in store : r.slug # row.slug
    /\ Edited(store \cup {row})
    /\ Goto(a, NeedsReload)
    /\ UNCHANGED <<registry, closed, builds, newest, lost>>

\* update, first half: the existing row is read before the form is parsed.
ReadForUpdate(a, form) ==
    /\ admins[a] = Idle
    /\ \E r \in store :
         /\ r.slug = form.slug
         /\ Goto(a, [stage |-> "update", form |-> form,
                     existing |-> r.password, seen |-> writes])
    /\ UNCHANGED <<store, registry, closed, builds, writes, newest, lost>>

\* An empty password field is filled from what the first half read.
\* Mutant: it is taken for the new password.
AsEntered(form, existing) == form

FilledIn(form, existing) ==
    IF form.password = Blank THEN [form EXCEPT !.password = existing] ELSE form

\* update, second half: the whole row is written; if it has gone, a 404.
WriteUpdate(a) ==
    /\ admins[a].stage = "update"
    /\ LET row == FilledIn(admins[a].form, admins[a].existing)
       IN  IF \E r \in store : r.slug = row.slug
             THEN /\ Edited({r \in store : r.slug # row.slug} \cup {row})
                  /\ Goto(a, NeedsReload)
             ELSE /\ Goto(a, Idle)
                  /\ UNCHANGED <<store, writes>>
    /\ UNCHANGED <<registry, closed, builds, newest, lost>>

\* The form is invalid, the statement fails or the browser is gone.
AbandonUpdate(a) ==
    /\ admins[a].stage = "update"
    /\ Goto(a, Idle)
    /\ UNCHANGED <<store, registry, closed, builds, writes, newest, lost>>

\* Mutant: the registry is not rebuilt.
DeleteQuietly(a, slug) ==
    /\ admins[a] = Idle
    /\ \E r \in store : r.slug = slug
    /\ Edited({r \in store : r.slug # slug})
    /\ UNCHANGED <<admins, registry, closed, builds, newest, lost>>

\* delete: only the settings go; an unknown slug is a 404.
Delete(a, slug) ==
    /\ admins[a] = Idle
    /\ \E r \in store : r.slug = slug
    /\ Edited({r \in store : r.slug # slug})
    /\ Goto(a, NeedsReload)
    /\ UNCHANGED <<registry, closed, builds, newest, lost>>

\* Reload before its lock: build(ctx) lists the table and makes new objects.
BuildRuntimes(a) ==
    /\ admins[a] = NeedsReload
    /\ builds < MaxBuilds
    /\ builds' = builds + 1
    /\ Goto(a, [stage |-> "swap", built |-> NewBuild])
    /\ UNCHANGED <<store, registry, closed, writes, newest, lost>>

\* The table could not be read in time: logged, the edit stays saved.
FailBuild(a) ==
    /\ admins[a] = NeedsReload
    /\ Goto(a, Idle)
    /\ lost' = writes
    /\ UNCHANGED <<store, registry, closed, builds, writes, newest>>

\* Mutant: the displaced runtimes are left to the garbage collector.
SwapAndForget(a) ==
    /\ admins[a].stage = "swap"
    /\ LET built == admins[a].built
       IN  /\ registry' = built
           /\ newest' = IF built.asof > newest THEN built.asof ELSE newest
    /\ Goto(a, Idle)
    /\ UNCHANGED <<store, closed, builds, writes, lost>>

\* Reload inside its lock: whatever is installed now is displaced.
Swap(a) ==
    /\ admins[a].stage = "swap"
    /\ LET built == admins[a].built
       IN  /\ registry' = built
           /\ newest' = IF built.asof > newest THEN built.asof ELSE newest
    /\ Goto(a, [stage |-> "close", old |-> registry])
    /\ UNCHANGED <<store, closed, builds, writes, lost>>

\* Mutant: the map is read again after the unlock.
CloseCurrent(a) ==
    /\ admins[a].stage = "close"
    /\ closed' = closed \cup {registry.id}
    /\ Goto(a, Idle)
    /\ UNCHANGED <<store, registry, builds, writes, newest, lost>>

\* Reload after its lock: the displaced runtimes are closed, then the handler
\* redirects.
CloseOld(a) ==
    /\ admins[a].stage = "close"
    /\ closed' = closed \cup {admins[a].old.id}
    /\ Goto(a, Idle)
    /\ UNCHANGED <<store, registry, builds, writes, newest, lost>>

\* The process stops, taking every runtime with it, and starts on the table
\* it finds.
Restart ==
    /\ builds < MaxBuilds
    /\ admins' = [a \in Admins |-> Idle]
    /\ builds' = builds + 1
    /\ registry' = NewBuild
    /\ closed' = 1..builds
    /\ newest' = writes
    /\ UNCHANGED <<store, writes, lost>>

Editing(a) ==
    \/ \E row \in Forms : Create(a, row) \/ ReadForUpdate(a, row)
    \/ WriteUpdate(a)
    \/ AbandonUpdate(a)
    \/ \E slug \in Slugs : Delete(a, slug)

Reloading(a) ==
    BuildRuntimes(a) \/ FailBuild(a) \/ Swap(a) \/ CloseOld(a)

Next == (\E a \in Admins : Editing(a) \/ Reloading(a)) \/ Restart

Spec == Init /\ [][Next]_vars

-----------------------------------------------------------------------------
Quiet == \A a \in Admins : admins[a] = Idle

\* The builds a handler still has to install or to close.
Held(a) ==
    CASE admins[a].stage = "swap" -> {admins[a].built.id}
      [] admins[a].stage = "close" -> {admins[a].old.id}
      [] OTHER -> {}

\* Rows are rows with one per slug, handlers carry what their stage needs.
TypeOK ==
    /\ store \subseteq Row
    /\ \A r, q \in store : r.slug = q.slug => r = q
    /\ admins \in [Admins -> Stage]
    /\ registry \in Build
    /\ closed \subseteq Nat
    /\ builds \in Nat /\ writes \in Nat /\ newest \in Nat /\ lost \in Nat

\* However reloads interleave, the runtimes that answer requests have not
\* been closed, and no build is held by two parties: what one reload is going
\* to close is neither installed nor about to be installed or closed by
\* another (registry.go, Reload).
NeverServesClosed ==
    /\ registry.id \notin closed
    /\ \A a \in Admins : /\ registry.id \notin Held(a)
                         /\ Held(a) \cap closed = {}
    /\ \A a, b \in Admins : a # b => Held(a) \cap Held(b) = {}

\* No runtime is forgotten: each one ever built is installed, closed, or in
\* the hands of a reload that is going to do one or the other.  Its cache
\* goroutine would otherwise run for ever (api.Tenant.Close).
NothingLeaks ==
    1..builds \subseteq closed \cup {registry.id} \cup UNION {Held(a) : a \in Admins}

\* Builds are numbered as they are made.
Numbered ==
    /\ registry.id \in 1..builds
    /\ closed \subseteq 1..builds
    /\ \A a \in Admins : Held(a) \subseteq 1..builds

\* A build shows the table as it was at some edit, and if there was none
\* since, as it is.
ShowsTable(build) ==
    build.asof <= writes /\ (build.asof = writes => build.rows = Enabled)

\* The latest edit has been installed, or some handler is on its way to
\* install it, or the reload that should have done so failed.
EditOnItsWay ==
    /\ ShowsTable(registry)
    /\ \A a \in Admins : admins[a].stage = "swap" => ShowsTable(admins[a].built)
    /\ newest <= writes
    /\ \/ newest = writes
       \/ lost = writes
       \/ \E a \in Admins : \/ admins[a] = NeedsReload
                            \/ /\ admins[a].stage = "swap"
                               /\ admins[a].built.asof = writes

\* A saved edit is in effect once the handlers are done, unless a reload
\* failed after it and none has succeeded since (admin.go, reload).
SavesTakeEffect ==
    Quiet /\ newest >= lost => registry.rows = Enabled

\* No build is replaced by one that has seen fewer edits: what would make
\* SavesTakeEffect hold, and what nothing in registry.go sees to.
NotOlder == registry'.asof >= registry.asof

NeverOvertaken == [][NotOlder]_vars

\* With concurrent edits the same holds as long as the build installed last
\* is not older than one installed before it: that is the only way to serve
\* stale settings.
StaleOnlyIfOvertaken ==
    Quiet /\ newest >= lost /\ registry.asof = newest
      => registry.rows = Enabled

\* An update whose password field was left empty leaves the password alone,
\* unless the table was edited between the two halves of the handler: then it
\* may bring an older password back (admin.go, update).
BlankKeepsPassword ==
    [][ \A a \in Admins :
          LET h == admins[a]
          IN  h.stage = "update" /\ h.form.password = Blank /\ h.seen = writes =>
                \A r \in store, q \in store' :
                  r.slug = q.slug /\ admins'[a] = NeedsReload
                    => q.password = r.password ]_vars

-----------------------------------------------------------------------------
\* The registry as seen by requests: see Publication.  The copies that may
\* still be shown are in the hands of the handlers about to swap.
Taken == {admins[a].built.rows : a \in {b \in Admins : admins[b].stage = "swap"}}

Shop == INSTANCE Publication
          WITH table <- store, taken <- Taken, shown <- registry.rows

\* However edits, builds, swaps and failures interleave, requests are answered
\* from the enabled rows of one whole state of the table, and no edit shows
\* half: nothing is patched into what is on show (Reload, buildTenants).
ImplementsPublication == Shop!Spec
=============================================================================
