---------------------------- MODULE StoredLists ----------------------------
(***************************************************************************)
(* The lists that every ArrayStorage of the extension keeps, here of       *)
(* elements with a key and a version: whatever has been stored and is      *)
(* given to be stored, how the two are merged.  The queue of actions is    *)
(* one of these stores.                                                    *)
(***************************************************************************)
EXTENDS ActionQueue

CONSTANTS
    Keys, Versions,
    MaxLength  \* lists are built up to this length

ASSUME LengthAssumption == MaxLength \in Nat

VARIABLES stored, given

Element == [key : Keys, version : Versions]

SameKey(a, b) == a.key = b.key

Store == INSTANCE ArrayStorage WITH Same <- SameKey

ListsInit == stored = << >> /\ given = << >>

BuildLists ==
    \E element \in Element :
        \/ Len(stored) < MaxLength /\ stored' = Append(stored, element) /\ UNCHANGED given
        \/ Len(given) < MaxLength /\ given' = Append(given, element) /\ UNCHANGED stored

ListsSpec == ListsInit /\ [][BuildLists]_<<stored, given>>

---------------------------------------------------------------------------
(* Properties.                                                             *)

KeysOf(list) == {list[i].key : i \in DOMAIN list}
Places(list, k) == {i \in DOMAIN list : list[i].key = k}
Newest(list, k) == list[Max(Places(list, k))]

(* k comes before l: known keys in the order of their last occurrence, new *)
(* ones behind them (push) or, newest first, before them (unshift).        *)
Before(insertMode, k, l) ==
    LET known == KeysOf(stored)
    IN  CASE k \in known /\ l \in known -> Max(Places(stored, k)) < Max(Places(stored, l))
          [] k \in known /\ l \notin known -> insertMode = "push"
          [] k \notin known /\ l \in known -> insertMode = "unshift"
          [] OTHER -> IF insertMode = "push"
                      THEN Min(Places(given, k)) < Min(Places(given, l))
                      ELSE Min(Places(given, l)) < Min(Places(given, k))

(* mergeArrayStableWith has every key of both lists once, in its latest    *)
(* version, and no known key changes its place among the others: what the  *)
(* unit tests say on examples with push, for all lists and both modes.     *)
MergeIsStable ==
    \A insertMode \in {"push", "unshift"} :
        LET merged == Store!MergeArrayStableWith(stored, given, insertMode)
        IN  /\ KeysOf(merged) = KeysOf(stored) \cup KeysOf(given)
            /\ \A i, j \in DOMAIN merged : i < j =>
                  Before(insertMode, merged[i].key, merged[j].key)
            /\ \A i \in DOMAIN merged :
                  merged[i] = Newest(IF merged[i].key \in KeysOf(given) THEN given ELSE stored,
                                   merged[i].key)
=============================================================================
