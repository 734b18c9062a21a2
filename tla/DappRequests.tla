---------------------------- MODULE DappRequests ----------------------------
(***************************************************************************)
(* What a page asks the wallet for, from the call on its account object to *)
(* the answer (argent-x/packages/extension/src/inpage/ArgentXAccount.ts,   *)
(* requestMessageHandlers.ts, messageActions.ts, and the handlers of       *)
(* background/ that push, remove and decide on the action).                *)
(*                                                                         *)
(* A call sends its question, waits a second for the hash of its action,   *)
(* and ten minutes for what the user decides.  Answers go to every page    *)
(* and are told apart by their type and, but for the first, by the hash.   *)
(* Calls and handlers overlap, so that messages may overtake each other.   *)
(***************************************************************************)
EXTENDS Naturals, FiniteSets

CONSTANTS
    Calls,       \* calls of one page, each made at most once
    Actions,     \* what may be asked for, told apart by its hash
    Kind,        \* what kind of action each is
    Asks,        \* what each call asks for
    None,        \* no hash
    MaxKills     \* how often the browser may stop the background page

Kinds == {"TRANSACTION", "SIGN", "DECLARE", "TOKEN", "NETWORK"}

ASSUME KindAssumption == Kind \in [Actions -> Kinds]
ASSUME AsksAssumption == Asks \in [Calls -> Actions]
ASSUME NoneAssumption == None \notin Actions
ASSUME KillsAssumption == MaxKills \in Nat

VARIABLES
    pc,       \* where each call stands
    hash,     \* the actionHash of the last message each took
    sent,     \* messages to the background page that no handler has taken up
    replies,  \* each ..._RES on its way: the call that asked, and the hash
    queue,    \* globalActionQueueStore
    running,  \* approved actions being carried out
    known,    \* tokens and networks the wallet has
    decided,  \* history: the calls that waited when the user decided
    refused,  \* history: the calls whose network the wallet had already
    late,     \* history: the calls whose answer took longer than they wait
    overtaken, \* history: the calls disturbed while they were being asked
    kills     \* history: how often the background page was stopped

history == <<late, overtaken, kills>>
vars == <<pc, hash, sent, replies, queue, running, known, decided, refused, history>>

Waiting == {"waitRes", "waitResult"}
Ends == {"returned", "aborted", "noAnswer", "timedOut", "exists"}

Init ==
    /\ pc = [c \in Calls |-> "idle"]
    /\ hash = [c \in Calls |-> None]
    /\ sent = {}
    /\ replies = {}
    /\ queue = {}
    /\ running = {}
    /\ known = {}
    /\ decided = {}
    /\ refused = {}
    /\ late = {}
    /\ overtaken = {}
    /\ kills = 0

KindOf(c) == Kind[Asks[c]]
WaitsFor(c, a) == pc[c] = "waitResult" /\ hash[c] = a
Replying(c) == \E r \in replies : r[1] = c

---------------------------------------------------------------------------
(* The page.                                                               *)

(* The other calls of its kind that are being asked, or whose answer is on *)
(* its way though they gave up; but not those that ask for the same, as    *)
(* long as nothing has come between.                                       *)
Rivals(c) ==
    {d \in Calls \ {c} :
        /\ KindOf(d) = KindOf(c)
        /\ pc[d] = "waitRes" \/ <<"ask", d>> \in sent \/ Replying(d)
        /\ ~ (Asks[d] = Asks[c] /\ pc[d] = "waitRes" /\ d \notin overtaken)}
Withdrawn(a) == \E d \in Calls : <<"giveUp", d>> \in sent /\ hash[d] = a

(* execute, declare, signMessage, handleAddTokenRequest and                *)
(* handleAddNetworkRequest send their question.                            *)
Call(c) ==
    /\ pc[c] = "idle"
    /\ pc' = [pc EXCEPT ![c] = "waitRes"]
    /\ sent' = sent \cup {<<"ask", c>>}
    /\ overtaken' = overtaken \cup {d \in Rivals(c) : pc[d] = "waitRes"}
                      \cup {d \in {c} : Rivals(c) # {} \/ Withdrawn(Asks[c])}
    /\ UNCHANGED <<hash, replies, queue, running, known, decided, refused, late, kills>>

(* waitForMessage gives up on the hash after a second, be it on its way.   *)
NoAnswer(c) ==
    /\ pc[c] = "waitRes"
    /\ pc' = [pc EXCEPT ![c] = "noAnswer"]
    /\ late' = IF <<"ask", c>> \in sent \/ Replying(c) THEN late \cup {c} ELSE late
    /\ UNCHANGED <<hash, sent, replies, queue, running, known, decided, refused, overtaken, kills>>

(* Faulty: the action of a call that timed out is left in the queue.       *)
TimeOutSilently(c) ==
    /\ pc[c] = "waitResult"
    /\ pc' = [pc EXCEPT ![c] = "timedOut"]
    /\ UNCHANGED <<hash, sent, replies, queue, running, known, decided, refused, history>>

(* The calls that are being asked for an action.                           *)
BeingAsked(a) == {c \in Calls : pc[c] = "waitRes" /\ Asks[c] = a}

(* After ten minutes a call withdraws its action, but for a declaration.   *)
(* What it posts to its own window, the other calls of the page hear too.  *)
TimeOut(c) ==
    LET others == {d \in Calls \ {c} : WaitsFor(d, hash[c])}
        withdraws == Kind[hash[c]] # "DECLARE"
    IN  /\ pc[c] = "waitResult"
        /\ pc' = [d \in Calls |->
                     IF d = c THEN "timedOut"
                     ELSE IF d \in others /\ withdraws THEN "aborted" ELSE pc[d]]
        /\ sent' = IF withdraws THEN sent \cup {<<"giveUp", c>>} ELSE sent
        /\ late' = IF hash[c] \in running THEN late \cup {c} ELSE late
        /\ overtaken' = IF withdraws THEN overtaken \cup BeingAsked(hash[c]) ELSE overtaken
        /\ UNCHANGED <<hash, replies, queue, running, known, decided, refused, kills>>

---------------------------------------------------------------------------
(* The background page.                                                    *)

(* The question is pushed, and its hash sent to the pages.  A token the    *)
(* wallet has is answered without a hash.  For a network it has, the       *)
(* answer REQUEST_ADD_CUSTOM_NETWORK_REJ is not one of the safeMessages,   *)
(* and does not reach the page.  (The handler looks for the chain among    *)
(* the ids of the networks: those asked for here are named as their chain.)*)
Ask(c) ==
    LET a == Asks[c]
        answer == <<c, IF a \in known THEN None ELSE a>>
    IN  /\ <<"ask", c>> \in sent
        /\ sent' = sent \ {<<"ask", c>>}
        /\ queue' = IF a \in known THEN queue ELSE queue \cup {a}
        /\ IF a \in known /\ Kind[a] = "NETWORK"
           THEN refused' = refused \cup {c} /\ replies' = replies
           ELSE refused' = refused /\ replies' = replies \cup {answer}
        /\ UNCHANGED <<pc, hash, running, known, decided, history>>

(* ..._RES reaches the page: every call that waits for one of that type    *)
(* takes it for its own.                                                   *)
Hearers(r) == {d \in Calls : pc[d] = "waitRes" /\ KindOf(d) = KindOf(r[1])}
Reply(r) ==
    /\ r \in replies
    /\ replies' = replies \ {r}
    /\ pc' = [d \in Calls |->
                 IF d \notin Hearers(r) THEN pc[d] ELSE IF r[2] = None THEN "exists" ELSE "waitResult"]
    /\ hash' = [d \in Calls |-> IF d \in Hearers(r) /\ r[2] # None THEN r[2] ELSE hash[d]]
    /\ UNCHANGED <<sent, queue, running, known, decided, refused, history>>

(* TRANSACTION_FAILED and its like from the page: actionQueue.remove.      *)
Forget(c) ==
    /\ <<"giveUp", c>> \in sent
    /\ sent' = sent \ {<<"giveUp", c>>}
    /\ queue' = queue \ {hash[c]}
    /\ UNCHANGED <<pc, hash, replies, running, known, decided, refused, history>>

Hears(a) == {c \in Calls : WaitsFor(c, a)}

(* The user decides on an action that is shown, be its hash on the way.    *)
(* APPROVE_ACTION removes the action and carries it out.  The screen of a  *)
(* token stores the token before it approves.                              *)
Approve(a) ==
    /\ a \in queue
    /\ a \notin running
    /\ queue' = queue \ {a}
    /\ running' = running \cup {a}
    /\ known' = IF Kind[a] = "TOKEN" THEN known \cup {a} ELSE known
    /\ decided' = decided \cup Hears(a)
    /\ overtaken' = overtaken \cup BeingAsked(a)
    /\ UNCHANGED <<pc, hash, sent, replies, refused, late, kills>>

(* Faulty: the outcome goes to every call that waits for one of its type.  *)
TellAll(a, outcome) ==
    LET hearers == {c \in Calls : pc[c] = "waitResult" /\ Kind[hash[c]] = Kind[a]}
    IN  /\ pc' = [c \in Calls |-> IF c \in hearers THEN outcome ELSE pc[c]]
        /\ hash' = [c \in Calls |-> IF c \in hearers THEN a ELSE hash[c]]

(* The outcome reaches the calls that wait for it.                         *)
Tell(a, outcome) ==
    /\ pc' = [c \in Calls |-> IF c \in Hears(a) THEN outcome ELSE pc[c]]
    /\ hash' = [c \in Calls |-> IF c \in Hears(a) THEN a ELSE hash[c]]

(* handleActionApproval answers that it is done...                         *)
Succeed(a) ==
    /\ a \in running
    /\ running' = running \ {a}
    /\ known' = IF Kind[a] = "NETWORK" THEN known \cup {a} ELSE known
    /\ Tell(a, "returned")
    /\ UNCHANGED <<sent, replies, queue, decided, refused, history>>

(* Faulty: no failure is caught.                                           *)
FailUncaught(a) ==
    /\ a \in running
    /\ running' = running \ {a}
    /\ UNCHANGED <<pc, hash, sent, replies, queue, known, decided, refused, history>>

(* ...or that it failed.  A signature that fails is not caught: the        *)
(* handler throws, and nobody is told.                                     *)
Fail(a) ==
    /\ a \in running
    /\ Kind[a] # "TOKEN"
    /\ running' = running \ {a}
    /\ IF Kind[a] = "SIGN" THEN UNCHANGED <<pc, hash>> ELSE Tell(a, "aborted")
    /\ UNCHANGED <<sent, replies, queue, known, decided, refused, history>>

(* Faulty: no page waits for the answer to any rejection.                  *)
RejectUnheard(a) ==
    /\ a \in queue
    /\ queue' = queue \ {a}
    /\ decided' = decided \cup Hears(a)
    /\ overtaken' = overtaken \cup BeingAsked(a)
    /\ UNCHANGED <<pc, hash, sent, replies, running, known, refused, late, kills>>

(* REJECT_ACTION.  The answer for a declaration is                         *)
(* REQUEST_DECLARE_CONTRACT_REJ, which no page waits for.                  *)
Reject(a) ==
    /\ a \in queue
    /\ queue' = queue \ {a}
    /\ decided' = decided \cup Hears(a)
    /\ overtaken' = overtaken \cup BeingAsked(a)
    /\ IF Kind[a] = "DECLARE" THEN UNCHANGED <<pc, hash>> ELSE Tell(a, "aborted")
    /\ UNCHANGED <<sent, replies, running, known, refused, late, kills>>

(* The browser stops the background page between the removal of an action  *)
(* and its answer: whoever waits is not told.                              *)
Kill ==
    /\ kills < MaxKills
    /\ kills' = kills + 1
    /\ sent' = {}
    /\ replies' = {}
    /\ running' = {}
    /\ UNCHANGED <<pc, hash, queue, known, decided, refused, late, overtaken>>

(* Nothing is under way; the page need not make another call.              *)
Done ==
    /\ \A c \in Calls : pc[c] \in Ends \cup {"idle"}
    /\ sent = {} /\ replies = {} /\ queue = {} /\ running = {}
    /\ UNCHANGED vars

Next ==
    \/ \E c \in Calls : Call(c) \/ NoAnswer(c) \/ TimeOut(c)
    \/ \E c \in Calls : Ask(c) \/ Forget(c)
    \/ \E r \in replies : Reply(r)
    \/ \E a \in Actions : Approve(a) \/ Reject(a)
    \/ \E a \in Actions : Succeed(a) \/ Fail(a)
    \/ Kill
    \/ Done

(* Timers fire, messages arrive and handlers end; the user and the page    *)
(* need not do anything.                                                   *)
Fairness ==
    /\ \A c \in Calls : WF_vars(NoAnswer(c)) /\ WF_vars(TimeOut(c))
    /\ \A c \in Calls : WF_vars(Ask(c)) /\ WF_vars(Forget(c))
    /\ \A c \in Calls, h \in Actions \cup {None} : WF_vars(Reply(<<c, h>>))
    /\ \A a \in Actions : WF_vars(Succeed(a) \/ Fail(a))

Spec == Init /\ [][Next]_vars /\ Fairness

---------------------------------------------------------------------------
(* Properties.                                                             *)

(* Calls wait only with a hash; messages come from calls that were made;   *)
(* a call that gave up had a hash.                                         *)
TypeOK ==
    /\ pc \in [Calls -> {"idle"} \cup Waiting \cup Ends]
    /\ hash \in [Calls -> Actions \cup {None}]
    /\ \A c \in Calls : pc[c] \in {"waitResult", "timedOut"} => hash[c] # None
    /\ sent \subseteq {"ask", "giveUp"} \X Calls
    /\ \A c \in Calls : <<"giveUp", c>> \in sent => pc[c] = "timedOut"
    /\ replies \subseteq Calls \X (Actions \cup {None})
    /\ queue \subseteq Actions /\ running \subseteq Actions /\ known \subseteq Actions
    /\ decided \subseteq Calls /\ refused \subseteq Calls
    /\ late \subseteq Calls /\ overtaken \subseteq Calls
    /\ kills \in 0 .. MaxKills

(* A call whose execute or signMessage returns has a result of the kind it *)
(* asked for, and the very one it asked for unless it was overtaken: the   *)
(* first answer is told apart by its type alone, so that a call takes the  *)
(* hash of another that is asked meanwhile, or whose answer comes late.    *)
ResultIsOwn ==
    \A c \in Calls : pc[c] = "returned" =>
        Kind[hash[c]] = KindOf(c) /\ (hash[c] = Asks[c] \/ c \in overtaken)

(* Of a signature that fails and of a declaration that is rejected, nobody *)
(* is told; the page's own timeout ends the call.                          *)
Told(kind) == kind \notin {"SIGN", "DECLARE"}

(* Unless the background page was stopped, a call that waits for the user  *)
(* can still be answered: its action is in the queue or being carried out. *)
(* Nobody waits ten minutes for nothing, whatever happened to the other    *)
(* calls, if between its question and its hash the same was not decided or *)
(* withdrawn, nor another of its kind asked or answered.                   *)
WaitingCanBeAnswered ==
    kills = 0 =>
        \A c \in Calls \ overtaken :
            pc[c] = "waitResult" /\ Told(KindOf(c)) => hash[c] \in queue \cup running

(* Unless the background page stopped, what the user is shown, declarations*)
(* apart, is awaited or about to be withdrawn or waited for, if the one    *)
(* call that asks for it was not overtaken and its answer not late.        *)
Alone(c) == pc[c] # "idle" /\ \A d \in Calls : pc[d] # "idle" /\ Asks[d] = Asks[c] => d = c
ShownIsAwaited ==
    kills = 0 =>
        \A c \in Calls \ (late \cup overtaken) :
            Alone(c) /\ Asks[c] \in queue /\ KindOf(c) # "DECLARE" =>
                \/ WaitsFor(c, Asks[c])
                \/ Withdrawn(Asks[c])
                \/ pc[c] = "waitRes" /\ <<c, Asks[c]>> \in replies

(* As long, a page is told "User action timed out" only if the user did    *)
(* not act, or what the user approved was still being carried out; however *)
(* many calls ask, and in whatever order they are answered.                *)
DecidedIsTold ==
    kills = 0 =>
        \A c \in decided \ late : pc[c] = "timedOut" => ~ Told(KindOf(c))

(* A page whose network the wallet already has is told so.                 *)
RefusalIsTold == \A c \in Calls : pc[c] = "noAnswer" => c \notin refused

(* What a call gave up on leaves the queue.                                *)
GivenUpIsRemoved ==
    \A c \in Calls : pc[c] = "timedOut" ~> hash[c] \notin queue
=============================================================================
