----------------------------- MODULE GrantChain -----------------------------
(***************************************************************************)
(* What the token endpoint promises about one authorization.               *)
(*                                                                         *)
(* An authorization is a single baton.  It is held by the client as one    *)
(* credential (a code, later a refresh token), it is moving while an       *)
(* exchange is under way, or the chain is closed.  There is never a second *)
(* one, a closed chain never reopens, and on its way from hand to hand the *)
(* scope can only shrink.  How rows, transactions, retries and cleanups    *)
(* bring this about is the business of OAuthTokens.                        *)
(***************************************************************************)
CONSTANTS Sources,      \* what a chain is known by
          Scopes

VARIABLES phase, scope

Init ==
    /\ phase \in [Sources -> {"unborn", "held"}]
    /\ scope \in [Sources -> SUBSET Scopes]

\* The user authorizes: the client is handed the credential.
Grant(s) == phase[s] = "unborn" /\ phase'[s] = "held"

\* The client presents it; what will replace it has no wider scope.
Take(s) ==
    /\ phase[s] = "held" /\ phase'[s] = "moving"
    /\ scope'[s] \subseteq scope[s]

\* The replacement is handed out as it was decided when the old one was taken.
Give(s) ==
    /\ phase[s] = "moving" /\ phase'[s] = "held"
    /\ scope'[s] = scope[s]

\* Expiry, revocation, a refused request, a failure.
Close(s) ==
    /\ phase[s] \in {"held", "moving"} /\ phase'[s] = "closed"

Stay(s) == phase'[s] = phase[s] /\ scope'[s] = scope[s]

\* Chains do not touch each other, but one cleanup or crash may end several.
Next == \A s \in Sources : Grant(s) \/ Take(s) \/ Give(s) \/ Close(s) \/ Stay(s)

Spec == Init /\ [][Next]_<<phase, scope>>
=============================================================================
