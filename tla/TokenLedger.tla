---------------------------- MODULE TokenLedger ----------------------------
(***************************************************************************)
(* The bookkeeping that the authorization server and the token endpoint    *)
(* agree on.                                                               *)
(*                                                                         *)
(* A ticket is a value with the database, the client and the scopes it     *)
(* stands for.  A code is on offer until it is redeemed; a refresh token   *)
(* is held until it is renewed; either way one new token takes its place,  *)
(* in one step, for the same database and client and for no more scopes,   *)
(* and opens the database from then on.  Anything may be lost at any time. *)
(* Nothing else ever opens a database, and no value comes twice.           *)
(*                                                                         *)
(* AuthServer issues tokens as this ledger does; OAuthTokens, with its     *)
(* separate statements, handlers in flight, revocations, expiry, cleanups  *)
(* and restarts, keeps such a ledger.                                      *)
(***************************************************************************)
CONSTANTS Codes, Tokens, Tenants, Clients, Scopes

VARIABLES
    drawn,          \* values that were ever on a ticket
    offered,        \* codes that may still be redeemed
    held,           \* refresh tokens that may still be renewed
    open            \* access tokens that open their database

vars == <<drawn, offered, held, open>>

Ticket(v, t, k, s) == [value |-> v, tenant |-> t, client |-> k, scope |-> s]

\* The tokens of an older database may be there from the start.
Init ==
    /\ drawn \subseteq Tokens
    /\ offered = {}
    /\ held \subseteq [value: drawn, tenant: Tenants, client: Clients,
                       scope: SUBSET Scopes]
    /\ open \subseteq [value: drawn, tenant: Tenants, client: Clients,
                       scope: SUBSET Scopes]

Offer(c, t, k, s) ==
    /\ c \in Codes \ drawn
    /\ drawn' = drawn \cup {c}
    /\ offered' = offered \cup {Ticket(c, t, k, s)}
    /\ UNCHANGED <<held, open>>

\* A code turns into a pair of tokens.
Redeem(c, new) ==
    /\ c \in offered
    /\ new \in Tokens \ drawn
    /\ drawn' = drawn \cup {new}
    /\ offered' = offered \ {c}
    /\ held' = held \cup {Ticket(new, c.tenant, c.client, c.scope)}
    /\ open' = open \cup {Ticket(new, c.tenant, c.client, c.scope)}

\* A refresh token turns into a pair with some of its scopes.
Renew(r, s, new) ==
    /\ r \in held /\ s \subseteq r.scope
    /\ new \in Tokens \ drawn
    /\ drawn' = drawn \cup {new}
    /\ held' = (held \ {r}) \cup {Ticket(new, r.tenant, r.client, s)}
    /\ open' = open \cup {Ticket(new, r.tenant, r.client, s)}
    /\ UNCHANGED offered

\* A request that fails after its credential was spent, a failed statement,
\* a restart, a revocation, a cleanup.
Lose ==
    /\ offered' \subseteq offered
    /\ held' \subseteq held
    /\ open' \subseteq open
    /\ UNCHANGED drawn

Next ==
    \/ \E c \in Codes, t \in Tenants, k \in Clients, s \in SUBSET Scopes :
         Offer(c, t, k, s)
    \/ \E c \in offered, new \in Tokens : Redeem(c, new)
    \/ \E r \in held, s \in SUBSET Scopes, new \in Tokens : Renew(r, s, new)
    \/ Lose

Spec == Init /\ [][Next]_vars
=============================================================================
