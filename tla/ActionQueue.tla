---------------------------- MODULE ActionQueue ----------------------------
(***************************************************************************)
(* The queue of what dapps ask for and the user decides on, as the         *)
(* extension keeps it in browser.storage                                   *)
(* (argent-x/packages/extension/src/background/actionQueue.ts,             *)
(* actionMessaging.ts, over shared/storage/array.ts).                      *)
(*                                                                         *)
(* Every message runs its own handler, and nothing makes one wait for      *)
(* another: between the answers of the storage to one handler, others run. *)
(***************************************************************************)
EXTENDS Naturals, SequencesExt

CONSTANTS
    Hashes,       \* what may be asked for, told apart by its object-hash
    Batches,      \* the lists of hashes the user may reject at once
    Requests,     \* slots for handlers that wait for the storage
    Idle,         \* a slot no handler uses
    Life,         \* the time after which an action expires
    MaxTime,      \* the time stops here
    MaxAsks,      \* an action asked for so often is not asked for again
    MaxDecisions, \* an action decided so often is not decided again
    MaxKills      \* how often the browser may stop the background page

ASSUME BatchesAssumption == Batches \subseteq Seq(Hashes) \ {<<>>}
ASSUME TimeAssumption == Life \in Nat /\ MaxTime \in Nat
ASSUME BoundsAssumption == MaxAsks \in Nat /\ MaxDecisions \in Nat /\ MaxKills \in Nat

Item == [hash : Hashes, expires : Nat]

(* A handler that waits for the storage: what it was called for, the       *)
(* hashes it has still to remove and to decide on, what it waits for, and  *)
(* the locals: the values to insert or remove, and the list it computes.   *)
Waiting == [kind : {"push", "expire", "decide", "forget"},
            hashes : Seq(Hashes),
            at : {"read", "select", "write", "written"},
            values : Seq(Item),
            list : Seq(Item)]

ASSUME IdleAssumption == Idle \notin Waiting

VARIABLES
    queue,    \* the stored list, globalActionQueueStore
    handler,  \* the handlers that wait
    now,      \* Date.now()
    asked,    \* history: how often each action was stored
    decided,  \* history: how often each was handed to approval or rejection
    kills,    \* history: how often the background page was stopped
    overlapped \* history: whether a message came while a handler was waiting

vars == <<queue, handler, now, asked, decided, kills, overlapped>>

(* The store's compare function.                                           *)
SameAction(a, b) == a.hash = b.hash

INSTANCE ArrayStorage WITH Same <- SameAction

HashesOf(list) == {list[i].hash : i \in DOMAIN list}

Init ==
    /\ queue = << >>
    /\ handler = [r \in Requests |-> Idle]
    /\ now = 0
    /\ asked = [h \in Hashes |-> 0]
    /\ decided = [h \in Hashes |-> 0]
    /\ kills = 0
    /\ overlapped = FALSE

---------------------------------------------------------------------------
(* The messages.  Each takes a free slot and sends its first read.         *)

Begin(r, kind, hashes, values) ==
    /\ handler[r] = Idle
    /\ handler' = [handler EXCEPT ![r] =
                      [kind |-> kind, hashes |-> hashes, at |-> "read",
                       values |-> values, list |-> << >>]]
    /\ overlapped' = (overlapped \/ \E q \in Requests : handler[q] # Idle)
    /\ UNCHANGED <<queue, now, asked, decided, kills>>

(* SIGN_MESSAGE, and every other message that pushes an action.            *)
Ask(r, h) ==
    /\ asked[h] < MaxAsks
    /\ Begin(r, "push", << >>, <<[hash |-> h, expires |-> now + Life]>>)

(* GET_ACTIONS, if something has expired; otherwise it only reads.         *)
GetActions(r) ==
    LET expired == Kept(queue, {i \in DOMAIN queue : queue[i].expires <= now})
    IN  /\ expired # << >>
        /\ Begin(r, "expire", << >>, expired)

(* APPROVE_ACTION, and REJECT_ACTION of one or several.                    *)
Approve(r, h) == decided[h] < MaxDecisions /\ Begin(r, "decide", <<h>>, << >>)
Reject(r, batch) ==
    /\ \A h \in ToSet(batch) : decided[h] < MaxDecisions
    /\ Begin(r, "decide", batch, << >>)

(* SIGNATURE_FAILURE, and the other messages of a dapp that gave up.       *)
SignatureFailure(r, h) == Begin(r, "forget", <<h>>, << >>)

---------------------------------------------------------------------------
(* The answers of the storage.                                             *)

Waits(r, at, kinds) == handler[r] # Idle /\ handler[r].at = at /\ handler[r].kind \in kinds

(* unshift has read the queue.                                             *)
UnshiftReads(r) ==
    /\ Waits(r, "read", {"push"})
    /\ handler' = [handler EXCEPT
          ![r].at = "write",
          ![r].list = MergeArrayStableWith(queue, handler[r].values, "unshift")]
    /\ UNCHANGED <<queue, now, asked, decided, kills, overlapped>>

(* remove(values) has read the queue.                                      *)
RemoveReads(r) ==
    /\ Waits(r, "read", {"expire"})
    /\ handler' = [handler EXCEPT
          ![r].at = "write",
          ![r].list = DifferenceWith(queue, handler[r].values)]
    /\ UNCHANGED <<queue, now, asked, decided, kills, overlapped>>

(* remove(selector) has read the queue, and reads it again.                *)
RemoveBySelectorReads(r) ==
    /\ Waits(r, "read", {"decide", "forget"})
    /\ handler' = [handler EXCEPT ![r].at = "select", ![r].list = queue]
    /\ UNCHANGED <<queue, now, asked, decided, kills, overlapped>>

(* Faulty: what was selected is not taken out of the list.                 *)
RemoveSelectsOnly(r) ==
    /\ Waits(r, "select", {"decide", "forget"})
    /\ LET selected == Kept(queue, {i \in DOMAIN queue : queue[i].hash = Head(handler[r].hashes)})
       IN  handler' = [handler EXCEPT ![r].at = "write", ![r].values = selected]
    /\ UNCHANGED <<queue, now, asked, decided, kills, overlapped>>

(* The second read selects; the rest of the first is what will be written. *)
RemoveSelects(r) ==
    /\ Waits(r, "select", {"decide", "forget"})
    /\ LET selected == Kept(queue, {i \in DOMAIN queue : queue[i].hash = Head(handler[r].hashes)})
       IN  handler' = [handler EXCEPT
              ![r].at = "write",
              ![r].values = selected,
              ![r].list = DifferenceWith(handler[r].list, selected)]
    /\ UNCHANGED <<queue, now, asked, decided, kills, overlapped>>

(* storageImplementation.set takes effect, whatever was read for it.       *)
Write(r) ==
    /\ Waits(r, "write", {"push", "expire", "decide", "forget"})
    /\ queue' = handler[r].list
    /\ handler' = [handler EXCEPT ![r].at = "written"]
    /\ asked' = IF handler[r].kind = "push"
                THEN [asked EXCEPT ![handler[r].values[1].hash] = @ + 1]
                ELSE asked
    /\ UNCHANGED <<now, decided, kills, overlapped>>

(* The handler is done, or raises "Action not found".                      *)
Return(r) ==
    /\ Waits(r, "written", {"push", "expire", "decide", "forget"})
    /\ handler[r].kind = "decide" => handler[r].values = << >>
    /\ handler' = [handler EXCEPT ![r] = Idle]
    /\ UNCHANGED <<queue, now, asked, decided, kills, overlapped>>

(* The loop over a batch: the next hash, if there is one.                  *)
Rest(request) ==
    IF Len(request.hashes) = 1
    THEN Idle
    ELSE [request EXCEPT !.hashes = Tail(@), !.at = "read", !.values = << >>, !.list = << >>]

(* Faulty: an action that was not found is decided all the same.           *)
DecideUnfound(r) ==
    /\ Waits(r, "written", {"decide"})
    /\ decided' = [decided EXCEPT ![Head(handler[r].hashes)] = @ + 1]
    /\ handler' = [handler EXCEPT ![r] = Rest(handler[r])]
    /\ UNCHANGED <<queue, now, asked, kills, overlapped>>

(* The action was found: handleActionApproval or handleActionRejection.    *)
Decide(r) ==
    /\ Waits(r, "written", {"decide"})
    /\ handler[r].values # << >>
    /\ decided' = [decided EXCEPT ![Head(handler[r].hashes)] = @ + 1]
    /\ handler' = [handler EXCEPT ![r] = Rest(handler[r])]
    /\ UNCHANGED <<queue, now, asked, kills, overlapped>>

(* The browser stops the background page: the stored queue stays.          *)
Kill ==
    /\ kills < MaxKills
    /\ kills' = kills + 1
    /\ handler' = [r \in Requests |-> Idle]
    /\ UNCHANGED <<queue, now, asked, decided, overlapped>>

Tick ==
    /\ now < MaxTime
    /\ now' = now + 1
    /\ UNCHANGED <<queue, handler, asked, decided, kills, overlapped>>

Next ==
    \/ \E r \in Requests, h \in Hashes : Ask(r, h)
    \/ \E r \in Requests : GetActions(r)
    \/ \E r \in Requests, h \in Hashes : Approve(r, h)
    \/ \E r \in Requests, batch \in Batches : Reject(r, batch)
    \/ \E r \in Requests, h \in Hashes : SignatureFailure(r, h)
    \/ \E r \in Requests : UnshiftReads(r)
    \/ \E r \in Requests : RemoveReads(r)
    \/ \E r \in Requests : RemoveBySelectorReads(r)
    \/ \E r \in Requests : RemoveSelects(r)
    \/ \E r \in Requests : Write(r)
    \/ \E r \in Requests : Return(r)
    \/ \E r \in Requests : Decide(r)
    \/ Kill
    \/ Tick

Spec == Init /\ [][Next]_vars

---------------------------------------------------------------------------
(* Properties.                                                             *)

(* The stored list and the locals keep their shapes; a handler that        *)
(* decides or forgets has a hash left to look for.                         *)
TypeOK ==
    /\ queue \in Seq(Item)
    /\ handler \in [Requests -> Waiting \cup {Idle}]
    /\ \A r \in Requests :
          handler[r] # Idle /\ handler[r].kind \in {"decide", "forget"}
              => handler[r].hashes # << >>
    /\ now \in 0 .. MaxTime
    /\ asked \in [Hashes -> Nat]
    /\ decided \in [Hashes -> Nat]
    /\ kills \in 0 .. MaxKills
    /\ overlapped \in BOOLEAN

(* However the handlers overlap and overwrite each other's lists, the      *)
(* queue never shows one action twice: the compare function of the store   *)
(* sees to it, and a user who decides on an action by its hash decides on  *)
(* what is shown.                                                          *)
OnePerAction ==
    \A i, j \in DOMAIN queue : queue[i].hash = queue[j].hash => i = j

(* What is removed and not yet decided on.                                 *)
InHand ==
    UNION {HashesOf(handler[r].values) :
              r \in {q \in Requests : Waits(q, "written", {"decide", "forget"})}}

Approvals == INSTANCE ApprovalQueue WITH waiting <- ToSet(queue), inHand <- InHand

(* Nothing is handed to approval or rejection that no dapp asked for,      *)
(* however stale the lists are that the handlers write back; and as long   *)
(* as messages come one after the other, no question is answered twice.    *)
AnsweredAsAsked ==
    /\ \A h \in Hashes : decided[h] > 0 => asked[h] > 0
    /\ ~ overlapped => Approvals!AnsweredOncePerAsk

(* As long as messages come one after the other, the queue is what         *)
(* ApprovalQueue promises, although it is read and written in many steps,  *)
(* cleaned only when it is shown, and may be left behind at any of these   *)
(* steps.                                                                  *)
SerialImplements ==
    /\ Approvals!Init
    /\ [][~ overlapped' => Approvals!Next]_(Approvals!vars)

(* remove: "@returns the removed values" (array.ts:113): what it returns   *)
(* was in the list until it wrote, and is not any more.                    *)
RemoveReturnsRemoved ==
    [][ \A r \in Requests :
          Write(r) /\ handler[r].kind # "push"
          => HashesOf(handler[r].values) \subseteq HashesOf(queue) \ HashesOf(queue') ]_vars
=============================================================================
