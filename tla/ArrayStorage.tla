---------------------------- MODULE ArrayStorage ----------------------------
(***************************************************************************)
(* The list operations of the extension's ArrayStorage                     *)
(* (argent-x/packages/extension/src/shared/storage/array.ts).              *)
(*                                                                         *)
(* Same is the compare function of a store: two elements it relates are an *)
(* older and a newer form of one thing.                                    *)
(***************************************************************************)
EXTENDS Naturals, Sequences, FiniteSets

CONSTANT Same(_, _)

(* The elements at some places of a list, in their order.                  *)
Kept(source, places) ==
    [n \in 1 .. Cardinality(places) |->
        source[CHOOSE i \in places : Cardinality({j \in places : j <= i}) = n]]

(* Faulty: the first of several that are the same stays.                   *)
FirstOfEach(source) ==
    Kept(source, {i \in DOMAIN source :
                     \A j \in 1 .. (i - 1) : ~Same(source[i], source[j])})

(* lodash's uniqWith between two reversals: of elements that are the same, *)
(* the last one stays, where it was.                                       *)
LastOfEach(source) ==
    Kept(source, {i \in DOMAIN source :
                     \A j \in (i + 1) .. Len(source) : ~Same(source[i], source[j])})

(* Faulty: an element that is there already is inserted again.             *)
PutAgain(list, element, insertMode) ==
    IF insertMode = "unshift"
    THEN <<element>> \o list
    ELSE Append(list, element)

(* One turn of the loop: an element takes the place of the first that is   *)
(* the same, or goes to the end that the mode names.                       *)
Put(list, element, insertMode) ==
    LET places == {i \in DOMAIN list : Same(list[i], element)}
    IN  IF places # {}
        THEN [list EXCEPT ![CHOOSE i \in places : \A j \in places : i <= j] = element]
        ELSE IF insertMode = "unshift"
        THEN <<element>> \o list
        ELSE Append(list, element)

MergeArrayStableWith(source, other, insertMode) ==
    LET result[n \in 0 .. Len(other)] ==
            IF n = 0 THEN LastOfEach(source) ELSE Put(result[n - 1], other[n], insertMode)
    IN  result[Len(other)]

(* lodash's differenceWith: what is the same as no element of the other.   *)
DifferenceWith(source, other) ==
    Kept(source, {i \in DOMAIN source : \A j \in DOMAIN other : ~Same(source[i], other[j])})
=============================================================================
