------------------------------ MODULE KeyCache ------------------------------
(***************************************************************************)
(* CachedVerifier (internal/oauth/verify_cache.go): the answers of 1C      *)
(* about access keys, kept for a while.                                    *)
(*                                                                         *)
(* Verify looks into the map under the mutex, asks 1C without it, and      *)
(* takes it again to store the answer.  A caller that missed is a record   *)
(* in "calls" until it has stored, so that several callers ask about the   *)
(* same key at once, 1C changes its mind in between, and the answers come  *)
(* back in any order.  1C itself is the variable "accepts".                *)
(*                                                                         *)
(* "said" is history: the last moment at which 1C gave, or would have      *)
(* given, a reply about a key.                                             *)
(***************************************************************************)
EXTENDS Integers

CONSTANTS
    Keys, Callers,
    TTL,            \* life of a positive answer
    NegCap,         \* what the life of a negative answer is capped at
    MaxTime         \* bound: the clock stops here

ASSUME TTLAssumption == TTL \in Nat /\ NegCap \in Nat /\ MaxTime \in Nat

VARIABLES entries, calls, accepts, said, now

vars == <<entries, calls, accepts, said, now>>

\* What inner returns: a user, or an error, which is 1C's refusal of the key or
\* a failure of the call.  Verify does not tell the two errors apart.
Replies == {"user", "refused", "failed"}

Errors == {"refused", "failed"}

Entry == [reply: Replies \cup {"none"}, expires: Nat]

Absent == [reply |-> "none", expires |-> 0]

Call == [caller: Callers, key: Keys, started: Nat, reply: Replies \cup {"none"}]

\* Mutant: the cap on the life of a negative answer is forgotten.
Uncapped(reply) == TTL

Life(reply) ==
    IF reply = "user" \/ TTL < NegCap THEN TTL ELSE NegCap

Fresh(k) == now < entries[k].expires

Never == -(TTL + 1)

OnecSays(k) == IF k \in accepts THEN "user" ELSE "refused"

Init ==
    /\ entries = [k \in Keys |-> Absent]
    /\ calls = {}
    /\ accepts \in SUBSET Keys
    /\ now = 0
    /\ said = [k \in Keys |-> [r \in Replies |->
                 IF r = OnecSays(k) THEN 0 ELSE Never]]

\* Verify finds nothing it can use and turns to 1C.  A hit changes nothing.
Miss(h, k) ==
    /\ \A c \in calls : c.caller # h
    /\ ~Fresh(k)
    /\ calls' = calls \cup
         {[caller |-> h, key |-> k, started |-> now, reply |-> "none"]}
    /\ UNCHANGED <<entries, accepts, said, now>>

Reply(c) ==
    /\ c \in calls /\ c.reply = "none"
    /\ calls' = (calls \ {c}) \cup {[c EXCEPT !.reply = OnecSays(c.key)]}
    /\ UNCHANGED <<entries, accepts, said, now>>

\* 1C cannot be reached, or the HTTP request the call belongs to was given up.
Fail(c) ==
    /\ c \in calls /\ c.reply = "none"
    /\ calls' = (calls \ {c}) \cup {[c EXCEPT !.reply = "failed"]}
    /\ said' = [said EXCEPT ![c.key] = [@ EXCEPT !["failed"] = now]]
    /\ UNCHANGED <<entries, accepts, now>>

\* Mutant: the life of the answer is counted from its arrival.
StoreFromArrival(c) ==
    /\ c \in calls /\ c.reply # "none"
    /\ calls' = calls \ {c}
    /\ entries' = [entries EXCEPT ![c.key] =
                     [reply |-> c.reply, expires |-> now + Life(c.reply)]]
    /\ UNCHANGED <<accepts, said, now>>

\* Mutant: while 1C cannot be reached, what was known stays good.
KeepOnFailure(c) ==
    /\ c \in calls /\ c.reply # "none"
    /\ calls' = calls \ {c}
    /\ entries' = [entries EXCEPT ![c.key] =
                     [reply |-> IF c.reply = "failed" /\ @ # Absent
                                  THEN @.reply ELSE c.reply,
                      expires |-> c.started + Life(c.reply)]]
    /\ UNCHANGED <<accepts, said, now>>

\* The last to come overwrites, whatever is there; the life of the answer is
\* counted from the moment the question was asked.
Store(c) ==
    /\ c \in calls /\ c.reply # "none"
    /\ calls' = calls \ {c}
    /\ entries' = [entries EXCEPT ![c.key] =
                     [reply |-> c.reply, expires |-> c.started + Life(c.reply)]]
    /\ UNCHANGED <<accepts, said, now>>

\* Mutant: the comparison is the wrong way round.
CleanupFresh ==
    /\ entries' = [k \in Keys |-> IF Fresh(k) THEN Absent ELSE entries[k]]
    /\ UNCHANGED <<calls, accepts, said, now>>

Cleanup ==
    /\ entries' = [k \in Keys |-> IF Fresh(k) THEN entries[k] ELSE Absent]
    /\ UNCHANGED <<calls, accepts, said, now>>

\* The administrator of 1C switches an account on or off.
Switch(k) ==
    /\ accepts' = IF k \in accepts THEN accepts \ {k} ELSE accepts \cup {k}
    /\ said' = [said EXCEPT ![k] =
                  [r \in Replies |-> IF r \in {"user", "refused"} THEN now ELSE @[r]]]
    /\ UNCHANGED <<entries, calls, now>>

Tick ==
    /\ now < MaxTime
    /\ now' = now + 1
    /\ said' = [k \in Keys |-> [said[k] EXCEPT ![OnecSays(k)] = now + 1]]
    /\ UNCHANGED <<entries, calls, accepts>>

Verifying ==
    \/ \E h \in Callers, k \in Keys : Miss(h, k)
    \/ \E c \in calls : Reply(c) \/ Fail(c) \/ Store(c)

Next == Verifying \/ Cleanup \/ (\E k \in Keys : Switch(k)) \/ Tick

Spec == Init /\ [][Next]_vars

\* The ticker of main.go calls Cleanup every hour as long as the process runs.
FairSpec == Spec /\ WF_vars(Cleanup)

-----------------------------------------------------------------------------
\* Entries, callers and history are of the shape the code gives them; an
\* entry that can be served holds an answer.
TypeOK ==
    /\ entries \in [Keys -> Entry]
    /\ \A k \in Keys : entries[k].reply = "none" => entries[k] = Absent
    /\ calls \subseteq Call
    /\ accepts \subseteq Keys
    /\ said \in [Keys -> [Replies -> Int]]
    /\ now \in Nat

\* A key that 1C has stopped accepting is let in by the cache for less than
\* TTL after that, however long 1C took to answer and whichever of several
\* racing callers stored last (oauth-setup.md, rotation of a key).
OldKeyFades ==
    \A k \in Keys : Fresh(k) /\ entries[k].reply = "user"
                      => now - said[k]["user"] < TTL

\* An error is served for less than the cap (and less than TTL) after 1C last
\* refused the key, or a call about it failed: that is how a new key is picked
\* up soon (NewCachedVerifier).
RefusalFades ==
    \A k \in Keys : Fresh(k) /\ entries[k].reply \in Errors =>
      /\ now - said[k][entries[k].reply] < NegCap
      /\ now - said[k][entries[k].reply] < TTL

\* The map does not keep what it can no longer serve (Cleanup).
ExpiredIsDropped ==
    \A k \in Keys : (entries[k] # Absent /\ ~Fresh(k))
                      ~> (entries[k] = Absent \/ Fresh(k))

\* What a caller may still be told of a key: what 1C says now, what the map
\* can serve, and the replies on their way.
Answers == Replies \ {"failed"}

Told(k) ==
    {OnecSays(k)}
    \cup {r \in Answers : Fresh(k) /\ entries[k].reply = r}
    \cup {r \in Answers : \E c \in calls : c.key = k /\ c.reply = r}

Memory ==
    INSTANCE ReplyMemory WITH
        Replies <- Answers,
        says <- [k \in Keys |-> OnecSays(k)],
        remembered <- [k \in Keys |-> Told(k)]

\* The cache implements the memory that AuthServer logs in against: however
\* callers race and entries run out, an answer that nobody can be told any
\* more comes back only after 1C has given it anew (Verify, Cleanup).
ImplementsReplyMemory == Memory!Spec

\* What makes the two bounds above inductive: a reply in flight was true after
\* its call started, and an entry outlives the truth of its reply by no more
\* than the life of the reply.
Truthful ==
    /\ \A c \in calls : c.reply # "none" =>
         /\ c.started <= said[c.key][c.reply]
    /\ \A c \in calls : c.started <= now
    /\ \A k \in Keys : entries[k] # Absent =>
         entries[k].expires <= said[k][entries[k].reply] + Life(entries[k].reply)
    /\ \A k \in Keys : said[k][OnecSays(k)] = now
    /\ \A k \in Keys, r \in Replies : said[k][r] <= now
=============================================================================
