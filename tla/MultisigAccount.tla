-------------------------- MODULE MultisigAccount --------------------------
(***************************************************************************)
(* The weighted multi-signature account contract                           *)
(* (contracts/src/account.cairo) and the sequencer that runs it.           *)
(*                                                                         *)
(* A transaction is one step: Starknet applies all the storage writes of   *)
(* a transaction or none, so a panic anywhere (a failed assert, an         *)
(* arithmetic overflow, a signature that does not deserialize) is simply   *)
(* a step that is not enabled.  Keys are felts, compared as integers by    *)
(* the contract; r and s of a signature are abstracted to whether          *)
(* check_ecdsa_signature accepts them for this transaction hash.           *)
(***************************************************************************)
EXTENDS Integers, Sequences, FiniteSetsExt

CONSTANTS
    Keys,        \* the public keys anyone holds, as integers
    MaxWeight,   \* the largest u128
    MaxKeys,     \* the largest usize: the most entries n_keys can count
    Deployments, \* the constructor arguments: [threshold, keys_and_weights]
    Txs,         \* the invoke transactions: [version, calls]
    Signatures,  \* the signature fields: [count, entries]
    DirectCalls, \* calls that other contracts and version 0 transactions make
    MaxNonce     \* how many transactions the model runs

NoKey == 0       \* what a LegacyMap<usize, felt252> reads where nothing was written
Felts == Keys \cup {NoKey}
Slots == 0 .. (MaxKeys - 1)
U128  == 0 .. MaxWeight

(* A call names its target by the entry point; "caller" is who the account *)
(* sees calling: itself when __execute__ calls its own address, another    *)
(* contract when the called one calls back.  "elsewhere" is a call that    *)
(* ends in another contract or in a view, and writes nothing here.         *)
Calls ==
         [fn : {"add_key"}, caller : {"account", "other"}, key : Keys, weight : U128]
    \cup [fn : {"remove_key_at"}, caller : {"account", "other"}, index : Nat]
    \cup [fn : {"set_threshold"}, caller : {"account", "other"}, threshold : U128]
    \cup [fn : {"__execute__", "elsewhere"}, caller : {"account", "other"}]

ASSUME KeysAssumption == Keys \subseteq Nat
ASSUME BoundsAssumption == MaxWeight \in Nat /\ MaxKeys \in Nat /\ MaxNonce \in Nat
ASSUME DeploymentsAssumption ==
    \A d \in Deployments :
        /\ d.threshold \in U128
        /\ d.keys_and_weights \in Seq(Keys \X U128)
        /\ Len(d.keys_and_weights) <= MaxKeys
ASSUME TxsAssumption == \A tx \in Txs : tx.version \in {0, 1} /\ tx.calls \in Seq(Calls)
ASSUME SignaturesAssumption ==
    \A sig \in Signatures :
        /\ sig.count \in Nat
        /\ sig.entries \in Seq([key : Keys, genuine : BOOLEAN])
ASSUME DirectCallsAssumption == DirectCalls \subseteq Calls

VARIABLES
    threshold,   \* storage: the weight a transaction needs
    n_keys,      \* storage: how many entries of keys are in use
    weights,     \* storage: the weight of every key, 0 when never written
    keys,        \* storage: the list of keys, NoKey where nothing is stored
    nonce,       \* the account's nonce, kept by the sequencer
    receipt      \* the last transaction the sequencer ran, as the chain shows it

config == <<threshold, n_keys, weights, keys>>
vars   == <<threshold, n_keys, weights, keys, nonce, receipt>>

---------------------------------------------------------------------------
(* The constructor: the arguments are written in order, so the last weight *)
(* given for a key that appears twice is the one that stays.               *)
Constructed(d) ==
    LET n == Len(d.keys_and_weights)
        Key(i) == d.keys_and_weights[i][1]
        Weight(i) == d.keys_and_weights[i][2]
    IN  /\ threshold = d.threshold
        /\ n_keys = n
        /\ keys = [i \in Slots |-> IF i < n THEN Key(i + 1) ELSE NoKey]
        /\ weights \in [Felts -> U128]
        /\ \A k \in Felts :
              \/ weights[k] = 0 /\ \A i \in 1 .. n : Key(i) # k
              \/ \E i \in 1 .. n :
                    /\ Key(i) = k
                    /\ \A j \in (i + 1) .. n : Key(j) # k
                    /\ weights[k] = Weight(i)

Init ==
    /\ \E d \in Deployments : Constructed(d)
    /\ nonce = 0
    /\ receipt = [entry |-> "constructor", signers |-> {}]

---------------------------------------------------------------------------
(* Validation.                                                             *)

(* Serde::<MultiSig>::deserialize: a count, then that many entries; felts  *)
(* left over are ignored, too few make it fail.                            *)
Deserializes(sig) == sig.count <= Len(sig.entries)
Deserialized(sig) == SubSeq(sig.entries, 1, sig.count)

(* The running totals of get_total_signed_weight, one per entry consumed.  *)
SignedWeight(entries) ==
    LET total[i \in 0 .. Len(entries)] ==
            IF i = 0 THEN 0 ELSE total[i - 1] + weights[entries[i].key]
    IN  total

(* Faulty: the next key may equal the last one.                            *)
MinKeyRepeated(entries, i) == IF i = 1 THEN 0 ELSE entries[i - 1].key

(* The least key the next entry may carry: one more than the last key.     *)
MinKey(entries, i) == IF i = 1 THEN 0 ELSE entries[i - 1].key + 1

(* Every entry passes: in sequence, genuine, and the u128 total of the     *)
(* entries so far has not overflowed.                                      *)
EntriesPass(entries) ==
    \A i \in 1 .. Len(entries) :
        /\ MinKey(entries, i) <= entries[i].key
        /\ entries[i].genuine
        /\ SignedWeight(entries)[i] <= MaxWeight

ValidateTransaction(sig) ==
    /\ Deserializes(sig)
    /\ LET entries == Deserialized(sig)
       IN  /\ EntriesPass(entries)
           /\ SignedWeight(entries)[Len(entries)] >= threshold

---------------------------------------------------------------------------
(* The external entry points.  "caller" is starknet::get_caller_address(). *)

(* Faulty: who calls is not asserted.                                      *)
AddKeyOfAnyone(caller, key, weight) ==
    /\ weight > 0
    /\ n_keys < MaxKeys
    /\ n_keys' = n_keys + 1
    /\ keys' = [keys EXCEPT ![n_keys] = key]
    /\ weights' = [weights EXCEPT ![key] = weight]
    /\ UNCHANGED threshold

AddKey(caller, key, weight) ==
    /\ caller = "account"
    /\ weight > 0
    /\ n_keys < MaxKeys
    /\ n_keys' = n_keys + 1
    /\ keys' = [keys EXCEPT ![n_keys] = key]
    /\ weights' = [weights EXCEPT ![key] = weight]
    /\ UNCHANGED threshold

(* Faulty: the last slot is cleared before it is moved.                    *)
RemoveKeyAtClearingFirst(caller, index) ==
    /\ caller = "account"
    /\ index < n_keys
    /\ weights' = [weights EXCEPT ![keys[index]] = 0]
    /\ keys' = [keys EXCEPT ![n_keys - 1] = NoKey, ![index] = NoKey]
    /\ n_keys' = n_keys - 1
    /\ UNCHANGED threshold

RemoveKeyAt(caller, index) ==
    /\ caller = "account"
    /\ index < n_keys
    /\ weights' = [weights EXCEPT ![keys[index]] = 0]
    /\ keys' = [keys EXCEPT ![index] = keys[n_keys - 1], ![n_keys - 1] = NoKey]
    /\ n_keys' = n_keys - 1
    /\ UNCHANGED threshold

SetThreshold(caller, threshold_) ==
    /\ caller = "account"
    /\ threshold' = threshold_
    /\ UNCHANGED <<n_keys, weights, keys>>

(* A call as the account sees it.  A nested __execute__ has no disjunct:   *)
(* its caller is never zero, so it always panics.                          *)
Dispatch(caller, call) ==
    \/ call.fn = "add_key" /\ AddKey(caller, call.key, call.weight)
    \/ call.fn = "remove_key_at" /\ RemoveKeyAt(caller, call.index)
    \/ call.fn = "set_threshold" /\ SetThreshold(caller, call.threshold)
    \/ call.fn = "elsewhere" /\ UNCHANGED config

Execute(caller, version, calls) ==
    /\ caller = "zero"
    /\ version # 0
    /\ Len(calls) = 1
    /\ Dispatch(calls[1].caller, calls[1])

---------------------------------------------------------------------------
(* The sequencer.                                                          *)

Signers(sig) == {Deserialized(sig)[i].key : i \in 1 .. Len(Deserialized(sig))}

(* An invoke transaction: __validate__ unless it is of version 0, then     *)
(* __execute__; the nonce is the account's own and moves on.               *)
Invoke(tx, sig) ==
    /\ nonce < MaxNonce
    /\ tx.version # 0 => ValidateTransaction(sig)
    /\ Execute("zero", tx.version, tx.calls)
    /\ nonce' = nonce + 1
    /\ receipt' = [entry |-> "__execute__", signers |-> Signers(sig)]

(* A declare transaction: __validate_declare__ and no call.                *)
Declare(sig) ==
    /\ nonce < MaxNonce
    /\ ValidateTransaction(sig)
    /\ nonce' = nonce + 1
    /\ receipt' = [entry |-> "__validate_declare__", signers |-> Signers(sig)]
    /\ UNCHANGED config

(* An entry point called with no validation of this account: by another    *)
(* contract, or by a version 0 transaction that names it directly.         *)
CallDirectly(caller, call) ==
    /\ Dispatch(caller, call)
    /\ receipt' = [entry |-> call.fn, signers |-> {}]
    /\ UNCHANGED nonce

Next ==
    \/ \E tx \in Txs, sig \in Signatures : Invoke(tx, sig)
    \/ \E sig \in Signatures : Declare(sig)
    \/ \E caller \in {"other", "zero"}, call \in DirectCalls : CallDirectly(caller, call)

Spec == Init /\ [][Next]_vars

---------------------------------------------------------------------------
(* Properties.                                                             *)

(* The storage, the nonce and the receipt keep their shapes: n_keys is a   *)
(* usize, weights and threshold are u128.                                  *)
TypeOK ==
    /\ threshold \in U128
    /\ n_keys \in 0 .. MaxKeys
    /\ weights \in [Felts -> U128]
    /\ keys \in [Slots -> Felts]
    /\ nonce \in 0 .. MaxNonce
    /\ receipt \in [entry : {"constructor", "__execute__", "__validate_declare__", "elsewhere"},
                    signers : SUBSET Keys]

(* A key that still has a vote is in the list, at an index below n_keys:   *)
(* the only way to take a vote away is remove_key_at(index), so a weight   *)
(* whose key is no longer listed could never be revoked.  The swap with    *)
(* the last slot and keys that were added twice are what could break it.   *)
LiveWeightIsListed ==
    \A k \in Felts : weights[k] > 0 => \E i \in 0 .. (n_keys - 1) : keys[i] = k

(* What a set of owners weighs, each owner counted once.                   *)
Power(S) == MapThenSumSet(LAMBDA k : weights[k], S)

(* get_total_signed_weight with its ascending order rule accepts exactly   *)
(* the well-formed signatures of distinct, genuine signers whose weight,   *)
(* summed over the set of them, reaches the threshold and fits a u128: no  *)
(* owner is counted twice and no one else is counted at all.               *)
ValidationIsQuorum ==
    \A sig \in Signatures :
        ValidateTransaction(sig) <=>
            /\ sig.count <= Len(sig.entries)
            /\ \A i, j \in 1 .. sig.count : i < j => sig.entries[i].key < sig.entries[j].key
            /\ \A i \in 1 .. sig.count : sig.entries[i].genuine
            /\ Power({sig.entries[i].key : i \in 1 .. sig.count}) \in threshold .. MaxWeight

(* Owners, weights and threshold change only in an executed transaction    *)
(* whose signers, each counted once with the weight they had before it,    *)
(* reached the threshold there was before it: never through a call of      *)
(* another contract, a callback, a version 0 transaction or a declare.     *)
QuorumRule ==
    [][ config' # config =>
          /\ receipt'.entry = "__execute__"
          /\ nonce' = nonce + 1
          /\ Power(receipt'.signers) >= threshold ]_vars
=============================================================================
