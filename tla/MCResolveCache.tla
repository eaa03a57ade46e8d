--------------------------- MODULE MCResolveCache ---------------------------
(***************************************************************************)
(* Small instances of ResolveCache for TLC.                                *)
(***************************************************************************)
EXTENDS ResolveCache, TLC

CONSTANTS s1, s2, q1

Ask1(entity, groups, sub, cost) ==
    [entity |-> entity, query |-> q1, groups |-> groups,
     sub |-> sub, cost |-> cost]

\* A pair of requests for the same thing whose answers have to be kept apart,
\* and a third: three keys for the two places of the cache.
Three ==
    {Ask1("warehouse", FALSE, s1, TRUE), Ask1("warehouse", FALSE, s2, FALSE),
     Ask1("firm", FALSE, s1, TRUE)}
=============================================================================
