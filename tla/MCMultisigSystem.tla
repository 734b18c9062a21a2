------------------------- MODULE MCMultisigSystem -------------------------
(* A small instance of MultisigSystem: two owners who must agree, and      *)
(* transactions that change the keys or the threshold under the reads.     *)
EXTENDS MultisigSystem

MCKeys == {1, 2}
MCDeployments == { [threshold |-> 2, keys_and_weights |-> << <<1, 1>>, <<2, 1>> >>] }

Invoking(n, call) == [version |-> 1, nonce |-> n, calls |-> <<call>>]
Demote    == Invoking(0, [fn |-> "remove_key_at", caller |-> "account", index |-> 0])
Open      == Invoking(0, [fn |-> "set_threshold", caller |-> "account", threshold |-> 0])
Promote   == Invoking(1, [fn |-> "add_key", caller |-> "account", key |-> 2, weight |-> 2])
Transfer  == Invoking(1, [fn |-> "elsewhere", caller |-> "account"])

MCTxs == {Demote, Open, Promote, Transfer}
MCServedTxs == {Transfer}

(* The owners who sign without the server do it right.                     *)
MCSignatures ==
    { [count |-> Len(s), entries |-> [i \in DOMAIN s |-> [key |-> s[i], genuine |-> TRUE]]] :
      s \in { << >>, <<1, 2>> } }

MCDirectCalls == {[fn |-> "set_threshold", caller |-> "other", threshold |-> 0],
                  [fn |-> "elsewhere", caller |-> "other"]}
=============================================================================
