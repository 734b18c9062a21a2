--------------------------- MODULE MCDappRequests ---------------------------
(* A small instance of DappRequests: two calls for the same network and    *)
(* one for another, two for one token and one for a signature,             *)
(* overlapping in any way, and a background page that is stopped once.     *)
(* Calls of different kinds take no message of each other, so that a       *)
(* behaviour makes those of one kind.                                      *)
EXTENDS DappRequests, TLC

CONSTANTS n1, n2, n3, t1, t2, s1, net1, net2, token, data1

MCAsks ==
    n1 :> net1 @@ n2 :> net1 @@ n3 :> net2 @@ t1 :> token @@ t2 :> token @@ s1 :> data1
MCKind ==
    net1 :> "NETWORK" @@ net2 :> "NETWORK" @@ token :> "TOKEN" @@ data1 :> "SIGN"

OneKind == Cardinality({KindOf(c) : c \in {d \in Calls : pc[d] # "idle"}}) <= 1

(* The calls for the same network can be exchanged.                        *)
MCSymmetry == Permutations({n1, n2})

MCSpec == Init /\ [][Next /\ OneKind']_vars
=============================================================================
