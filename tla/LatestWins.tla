----------------------------- MODULE LatestWins -----------------------------
(***************************************************************************)
(* What a single-flighted, coalescing worker promises: requests may come   *)
(* much faster than it works and need not be served one by one, but what   *)
(* it has done never goes back to an older request.                        *)
(***************************************************************************)
EXTENDS Naturals

VARIABLES
  newest,   \* number of requests so far
  served    \* the newest request that has been served

vars == <<newest, served>>

Init == newest = 1 /\ served = 0

Request == newest' = newest + 1 /\ UNCHANGED served

\* A later request than the last one served, not necessarily the next.
Serve == \E v \in served + 1 .. newest : served' = v /\ UNCHANGED newest

Next == Request \/ Serve

Spec == Init /\ [][Next]_vars
=============================================================================
