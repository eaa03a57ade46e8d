---------------------------- MODULE ReplyMemory ----------------------------
(***************************************************************************)
(* What may be known of 1C's opinion of an access key (VerifyKeyFunc of    *)
(* internal/oauth): what 1C says now, and whatever it has said that nobody *)
(* has forgotten yet.  A reply that is forgotten comes back only if 1C     *)
(* gives it again.                                                         *)
(*                                                                         *)
(* AuthServer logs in against such a memory; KeyCache, with its expiry     *)
(* times, its racing callers and their replies in flight, is one.          *)
(***************************************************************************)
CONSTANTS Keys, Replies

VARIABLES
    says,           \* what 1C would answer now
    remembered      \* what a login may be told

vars == <<says, remembered>>

Init ==
    /\ says \in [Keys -> Replies]
    /\ remembered = [k \in Keys |-> {says[k]}]

\* 1C changes its mind; part of what was known may be forgotten at once.
Change(k, reply) ==
    /\ says' = [says EXCEPT ![k] = reply]
    /\ \E kept \in SUBSET remembered[k] :
         remembered' = [remembered EXCEPT ![k] = kept \cup {reply}]

Forget ==
    /\ remembered' \in [Keys -> SUBSET Replies]
    /\ \A k \in Keys : /\ says[k] \in remembered'[k]
                       /\ remembered'[k] \subseteq remembered[k]
    /\ UNCHANGED says

Next == (\E k \in Keys, reply \in Replies : Change(k, reply)) \/ Forget

Spec == Init /\ [][Next]_vars
=============================================================================
