--------------------------- MODULE MCActionQueue ---------------------------
(* Three parts.  In the first, messages come one after the other, with     *)
(* time to expire and a background page that is stopped; in the second,    *)
(* the handlers of two messages overlap.  Two actions are rejected alone,  *)
(* together or one of them twice.  In the third, all pairs of lists up to  *)
(* a length are built, and merged as the storage underneath merges them.   *)
EXTENDS StoredLists

CONSTANTS h1, h2, r1, r2

VARIABLE part

MCBatches == {<<h1>>, <<h2, h1>>, <<h1, h1>>}

Overlap == INSTANCE ActionQueue WITH
    Batches <- {<<h2, h1>>},
    MaxTime <- 1, MaxAsks <- 1, MaxDecisions <- 1, MaxKills <- 0

MCInit ==
    /\ ListsInit
    /\ \/ part = "serial" /\ Init
       \/ part = "overlap" /\ Overlap!Init
       \/ part = "lists" /\ Overlap!Init

MCNext ==
    /\ UNCHANGED part
    /\ \/ part = "serial" /\ Next /\ handler'[r2] = Idle /\ UNCHANGED <<stored, given>>
       \/ part = "overlap" /\ Overlap!Next /\ UNCHANGED <<stored, given>>
       \/ part = "lists" /\ BuildLists /\ UNCHANGED vars

MCSpec == MCInit /\ [][MCNext]_<<vars, stored, given, part>>
=============================================================================
