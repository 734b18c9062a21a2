--------------------------- MODULE ApprovalQueue ---------------------------
(***************************************************************************)
(* What the extension's action queue promises: what is asked for waits     *)
(* until somebody takes it, once, to decide on it, or until it expires.    *)
(***************************************************************************)
EXTENDS Integers

CONSTANTS
    Hashes,   \* the actions
    Life      \* how long an action may wait

VARIABLES
    waiting,  \* the actions that wait: [hash, expires]
    inHand,   \* the actions taken and not yet decided
    asked,    \* how often each action was asked for
    decided,  \* how often each action was approved or rejected
    now       \* the time

vars == <<waiting, inHand, asked, decided, now>>

Waits(h) == \E item \in waiting : item.hash = h
Without(S) == {item \in waiting : item.hash \notin S}

Init ==
    /\ waiting = {}
    /\ inHand = {}
    /\ asked = [h \in Hashes |-> 0]
    /\ decided = [h \in Hashes |-> 0]
    /\ now = 0

(* Asking again for what waits renews it.                                  *)
Ask(h) ==
    /\ \E expires \in 0 .. now + Life :
          waiting' = Without({h}) \cup {[hash |-> h, expires |-> expires]}
    /\ asked' = [asked EXCEPT ![h] = @ + 1]
    /\ UNCHANGED <<inHand, decided, now>>

Take(h) ==
    /\ Waits(h)
    /\ h \notin inHand
    /\ waiting' = Without({h})
    /\ inHand' = inHand \cup {h}
    /\ UNCHANGED <<asked, decided, now>>

Decide(h) ==
    /\ h \in inHand
    /\ inHand' = inHand \ {h}
    /\ decided' = [decided EXCEPT ![h] = @ + 1]
    /\ UNCHANGED <<waiting, asked, now>>

(* Given up by its dapp, or lost with the process.                         *)
Drop(h) ==
    /\ h \in inHand
    /\ inHand' = inHand \ {h}
    /\ UNCHANGED <<waiting, asked, decided, now>>

Expire(S) ==
    /\ \A item \in waiting : item.hash \in S => item.expires <= now
    /\ waiting' = Without(S)
    /\ UNCHANGED <<inHand, asked, decided, now>>

Tick ==
    /\ now' = now + 1
    /\ UNCHANGED <<waiting, inHand, asked, decided>>

Next ==
    \/ \E h \in Hashes : Ask(h) \/ Take(h) \/ Decide(h) \/ Drop(h)
    \/ \E S \in SUBSET Hashes : Expire(S)
    \/ Tick

Spec == Init /\ [][Next]_vars

TypeOK ==
    /\ waiting \subseteq [hash : Hashes, expires : Int]
    /\ inHand \subseteq Hashes
    /\ asked \in [Hashes -> Nat]
    /\ decided \in [Hashes -> Nat]
    /\ now \in Nat

(* What has been decided, is being decided and could still be decided is   *)
(* covered by what was asked for: no question is answered twice.           *)
AnsweredOncePerAsk ==
    \A h \in Hashes :
        decided[h] + (IF h \in inHand THEN 1 ELSE 0) + (IF Waits(h) THEN 1 ELSE 0)
            <= asked[h]
=============================================================================
