------------------------- MODULE MCMultisigAccount -------------------------
(* A small instance of MultisigAccount: three keys, weights up to 3.       *)
EXTENDS MultisigAccount

MCKeys == {1, 2, 3}

(* One owner with the whole vote (test_validate deploys so), two owners    *)
(* who must agree, and a constructor list that names a key twice.          *)
MCDeployments ==
    { [threshold |-> 1, keys_and_weights |-> << <<1, 1>> >>],
      [threshold |-> 3, keys_and_weights |-> << <<1, 1>>, <<2, 2>> >>],
      [threshold |-> 2, keys_and_weights |-> << <<2, 1>>, <<3, 1>>, <<2, 2>> >>] }

MCCalls ==
         [fn : {"add_key"}, caller : {"account"}, key : Keys, weight : {0, 1, 3}]
    \cup [fn : {"remove_key_at"}, caller : {"account"}, index : 0 .. 2]
    \cup [fn : {"set_threshold"}, caller : {"account"}, threshold : {0, 2}]
    \cup [fn : {"__execute__", "elsewhere"}, caller : {"account"}]

MCCallbacks ==
         [fn : {"add_key"}, caller : {"other"}, key : {3}, weight : {3}]
    \cup [fn : {"set_threshold"}, caller : {"other"}, threshold : {0}]
    \cup [fn : {"remove_key_at"}, caller : {"other"}, index : {0}]
    \cup [fn : {"elsewhere"}, caller : {"other"}]

MCTxs ==
         {[version |-> 1, calls |-> <<c>>] : c \in MCCalls \cup MCCallbacks}
    \cup {[version |-> 0, calls |-> <<c>>] : c \in MCCallbacks}
    \cup {[version |-> 1, calls |-> <<>>]}
    \cup {[version |-> 1, calls |-> <<c, c>>] : c \in MCCallbacks}

Genuine(k) == [key |-> k, genuine |-> TRUE]
Forged(k)  == [key |-> k, genuine |-> FALSE]

(* Every sequence of up to three genuine entries, repetitions and any      *)
(* order included, some with a forged entry, with an exact count, a count  *)
(* one short and a count one over.                                         *)
MCSignatures ==
    LET exact == UNION {[1 .. n -> {Genuine(k) : k \in Keys}] : n \in 0 .. 3}
                 \cup {<<Forged(k)>> : k \in Keys}
                 \cup {<<Genuine(j), Forged(k)>> : j, k \in Keys}
    IN       {[count |-> Len(s), entries |-> s] : s \in exact}
        \cup {[count |-> n, entries |-> <<Genuine(1), Genuine(2)>>] : n \in {0, 1, 3}}
=============================================================================
