------------------------- MODULE DappRequestsProofs -------------------------
(* For any calls and actions: types of a page's requests, that a call      *)
(* returns its own result, that whoever waits can be answered, that a      *)
(* decision is told, and that what is shown is awaited.                    *)
EXTENDS DappRequests, TLAPS

Messages == {"ask", "giveUp"}
Types ==
    /\ pc \in [Calls -> {"idle"} \cup Waiting \cup Ends]
    /\ hash \in [Calls -> Actions \cup {None}]
    /\ sent \subseteq Messages \X Calls
    /\ replies \subseteq Calls \X (Actions \cup {None})
    /\ queue \subseteq Actions /\ running \subseteq Actions /\ known \subseteq Actions
    /\ decided \subseteq Calls /\ refused \subseteq Calls
    /\ late \subseteq Calls /\ overtaken \subseteq Calls
    /\ kills \in 0 .. MaxKills
HasHash == \A c \in Calls : pc[c] \in {"waitResult", "timedOut"} => hash[c] # None
GaveUp == \A c \in Calls : <<"giveUp", c>> \in sent => pc[c] = "timedOut"
TypeInv == Types /\ HasHash /\ GaveUp

LEMMA InitTypes == Init => TypeInv
<1> SUFFICES ASSUME Init PROVE TypeInv
  OBVIOUS
<1>1. kills \in 0 .. MaxKills
  BY KillsAssumption DEF Init
<1> QED BY <1>1 DEF Init, TypeInv, Types, HasHash, GaveUp, Waiting, Ends

LEMMA AskedIsAction == \A c \in Calls : Asks[c] \in Actions /\ Asks[c] # None
BY AsksAssumption, NoneAssumption

(* Whatever tells the calls that wait for an action its outcome.           *)
LEMMA TellKeepsTypes ==
    ASSUME TypeInv, NEW a \in Actions, NEW outcome \in Ends \ {"timedOut"}, Tell(a, outcome), UNCHANGED sent
    PROVE  /\ pc' \in [Calls -> {"idle"} \cup Waiting \cup Ends]
           /\ hash' \in [Calls -> Actions \cup {None}]
           /\ HasHash' /\ GaveUp'
BY NoneAssumption DEF TypeInv, Types, HasHash, GaveUp, Tell, Hears, WaitsFor, Waiting, Ends

LEMMA NextTypes == TypeInv /\ [Next]_vars => TypeInv'
<1> SUFFICES ASSUME TypeInv, [Next]_vars PROVE TypeInv'
  OBVIOUS
<1> USE DEF TypeInv, Types, HasHash, GaveUp, Messages, history
<1>1. ASSUME NEW c \in Calls, Call(c) PROVE TypeInv'
  BY <1>1 DEF Call, Rivals, Waiting, Ends
<1>2. ASSUME NEW c \in Calls, NoAnswer(c) PROVE TypeInv'
  BY <1>2 DEF NoAnswer, Waiting, Ends
<1>3. ASSUME NEW c \in Calls, TimeOut(c) PROVE TypeInv'
  <2>1. pc' \in [Calls -> {"idle"} \cup Waiting \cup Ends]
    BY <1>3 DEF TimeOut, Waiting, Ends
  <2>2. HasHash'
    BY <1>3 DEF TimeOut
  <2>3. \A d \in Calls : pc'[d] = "timedOut" <=> pc[d] = "timedOut" \/ d = c
    BY <1>3 DEF TimeOut, WaitsFor
  <2>4. sent' \subseteq sent \cup {<<"giveUp", c>>}
    BY <1>3 DEF TimeOut
  <2>5. GaveUp'
    BY <2>3, <2>4
  <2>6. sent' \subseteq Messages \X Calls
    BY <2>4
  <2> QED BY <1>3, <2>1, <2>2, <2>5, <2>6 DEF TimeOut, BeingAsked
<1>4. ASSUME NEW c \in Calls, Ask(c) PROVE TypeInv'
  BY <1>4, AskedIsAction DEF Ask
<1>5. ASSUME NEW r \in replies, Reply(r) PROVE TypeInv'
  BY <1>5, AskedIsAction DEF Reply, Hearers, Waiting, Ends
<1>6. ASSUME NEW c \in Calls, Forget(c) PROVE TypeInv'
  BY <1>6 DEF Forget
<1>7. ASSUME NEW a \in Actions, Approve(a) PROVE TypeInv'
  BY <1>7 DEF Approve, Hears, BeingAsked
<1>8. ASSUME NEW a \in Actions, Reject(a) PROVE TypeInv'
  <2>1. CASE Kind[a] = "DECLARE"
    BY <1>8, <2>1 DEF Reject, Hears, BeingAsked
  <2>2. CASE Kind[a] # "DECLARE"
    BY <1>8, <2>2, TellKeepsTypes DEF Reject, Hears, BeingAsked, Ends
  <2> QED BY <2>1, <2>2
<1>9. ASSUME NEW a \in Actions, Succeed(a) PROVE TypeInv'
  BY <1>9, TellKeepsTypes DEF Succeed, Ends
<1>10. ASSUME NEW a \in Actions, Fail(a) PROVE TypeInv'
  <2>1. CASE Kind[a] = "SIGN"
    BY <1>10, <2>1 DEF Fail
  <2>2. CASE Kind[a] # "SIGN"
    BY <1>10, <2>2, TellKeepsTypes DEF Fail, Ends
  <2> QED BY <2>1, <2>2
<1>11. CASE Kill
  <2>1. kills' \in 0 .. MaxKills
    BY <1>11, KillsAssumption DEF Kill
  <2> QED BY <1>11, <2>1 DEF Kill
<1>12. CASE Done \/ UNCHANGED vars
  BY <1>12 DEF Done, vars
<1> QED BY <1>1, <1>2, <1>3, <1>4, <1>5, <1>6, <1>7, <1>8, <1>9, <1>10, <1>11, <1>12 DEF Next

(* Who waits for the user has a hash, and only who timed out withdraws.    *)
THEOREM TypeCorrect == Spec => []TypeOK
<1>1. TypeInv => TypeOK
  BY DEF TypeInv, Types, HasHash, GaveUp, TypeOK, Messages
<1> QED BY <1>1, InitTypes, NextTypes, PTL DEF Spec

---------------------------------------------------------------------------
(* Hashes are of the right kind; a call that was not overtaken has its own *)
(* hash or none: while it is being asked, all others of its kind that are  *)
(* asked too, or whose answer is on its way, ask for the same.             *)
RightKind ==
    /\ \A c \in Calls : hash[c] # None => Kind[hash[c]] = KindOf(c)
    /\ \A c \in Calls : pc[c] = "returned" => hash[c] # None
    /\ \A r \in replies : r[2] \in {None, Asks[r[1]]}
Unsettled(d) == pc[d] = "waitRes" \/ <<"ask", d>> \in sent \/ Replying(d)
Alike ==
    \A c \in Calls \ overtaken : pc[c] = "waitRes" =>
        \A d \in Calls : KindOf(d) = KindOf(c) /\ Unsettled(d) => Asks[d] = Asks[c]
OwnHash == \A c \in Calls \ overtaken : hash[c] \in {None, Asks[c]}
Inv == TypeInv /\ RightKind /\ Alike /\ OwnHash

LEMMA InitInv == Init => Inv
BY InitTypes DEF Init, Inv, RightKind, Alike, OwnHash

LEMMA TellKeepsOwn ==
    ASSUME Inv, NEW a \in Actions, NEW outcome \in {"returned", "aborted"}, Tell(a, outcome),
           UNCHANGED <<sent, replies>>, overtaken \subseteq overtaken'
    PROVE  RightKind' /\ Alike' /\ OwnHash'
<1> USE DEF Inv, TypeInv, Types
<1>1. /\ \A c \in Calls : hash'[c] = hash[c]
      /\ \A c \in Calls : pc'[c] = IF WaitsFor(c, a) THEN outcome ELSE pc[c]
  BY DEF Tell, Hears, WaitsFor
<1>2. RightKind'
  BY <1>1, NoneAssumption DEF RightKind, WaitsFor
<1>3. Alike'
  BY <1>1 DEF Alike, Unsettled, Replying
<1>4. OwnHash'
  BY <1>1 DEF OwnHash
<1> QED BY <1>2, <1>3, <1>4

LEMMA NextInv ==
    ASSUME Inv, [Next]_vars
    PROVE  RightKind' /\ Alike' /\ OwnHash'
<1> USE DEF Inv, TypeInv, Types, history
<1> DEFINE Goal == RightKind' /\ Alike' /\ OwnHash'
<1>1. ASSUME NEW c \in Calls, Call(c) PROVE Goal
  <2>1. /\ \A d \in Calls : pc'[d] = IF d = c THEN "waitRes" ELSE pc[d]
        /\ \A d \in Calls : <<"ask", d>> \in sent' <=> <<"ask", d>> \in sent \/ d = c
        /\ UNCHANGED <<hash, replies>>
        /\ overtaken \subseteq overtaken'
        /\ c \in overtaken' \/ Rivals(c) = {}
        /\ \A d \in Calls : d \in Rivals(c) /\ pc[d] = "waitRes" => d \in overtaken'
    BY <1>1 DEF Call, Rivals
  <2>2. \A d \in Calls : Unsettled(d)' => Unsettled(d) \/ d = c
    BY <2>1 DEF Unsettled, Replying
  <2>3. ASSUME NEW d \in Calls \ overtaken', NEW e \in Calls, pc'[d] = "waitRes", KindOf(e) = KindOf(d),
               Unsettled(e)'
        PROVE  Asks[e] = Asks[d]
    <3>1. CASE d = c /\ e # c
      BY <2>1, <2>2, <2>3, <3>1 DEF Rivals, Unsettled
    <3>2. CASE d # c /\ e = c
      BY <2>1, <2>3, <3>2 DEF Rivals
    <3>3. CASE d # c /\ e # c
      BY <2>1, <2>2, <2>3, <3>3 DEF Alike
    <3> QED BY <3>1, <3>2, <3>3
  <2>4. Alike'
    BY <2>3 DEF Alike, KindOf
  <2> QED BY <2>1, <2>4 DEF RightKind, OwnHash
<1>2. ASSUME NEW c \in Calls, NoAnswer(c) PROVE Goal
  BY <1>2 DEF NoAnswer, RightKind, Alike, OwnHash, Unsettled, Replying, KindOf
<1>3. ASSUME NEW c \in Calls, TimeOut(c) PROVE Goal
  <2>1. /\ \A d \in Calls : pc'[d] \in {"waitRes", "returned"} => pc'[d] = pc[d]
        /\ \A d \in Calls : <<"ask", d>> \in sent' => <<"ask", d>> \in sent
        /\ UNCHANGED <<hash, replies>>
        /\ overtaken \subseteq overtaken'
    BY <1>3 DEF TimeOut
  <2> QED BY <2>1 DEF RightKind, Alike, OwnHash, Unsettled, Replying, KindOf
<1>4. ASSUME NEW c \in Calls, Ask(c) PROVE Goal
  <2>1. /\ <<"ask", c>> \in sent /\ sent' \subseteq sent
        /\ \A r \in replies' : r \in replies \/ (r[1] = c /\ r[2] \in {None, Asks[c]})
        /\ UNCHANGED <<pc, hash, overtaken>>
    BY <1>4 DEF Ask
  <2>2. RightKind' /\ OwnHash'
    BY <2>1 DEF RightKind, OwnHash, KindOf
  <2>3. \A d \in Calls : Unsettled(d)' => Unsettled(d)
    BY <2>1 DEF Unsettled, Replying
  <2> QED BY <2>1, <2>2, <2>3 DEF Alike, KindOf
<1>5. ASSUME NEW r \in replies, Reply(r) PROVE Goal
  <2>1. /\ replies' = replies \ {r} /\ UNCHANGED <<sent, overtaken>>
        /\ \A d \in Calls : pc'[d] = IF d \in Hearers(r) THEN IF r[2] = None THEN "exists" ELSE "waitResult"
                                     ELSE pc[d]
        /\ \A d \in Calls : hash'[d] = IF d \in Hearers(r) /\ r[2] # None THEN r[2] ELSE hash[d]
    BY <1>5 DEF Reply
  <2>2. r[1] \in Calls /\ r[2] \in {None, Asks[r[1]]} /\ Unsettled(r[1])
    BY DEF RightKind, Unsettled, Replying
  <2>3. RightKind'
    BY <2>1, <2>2 DEF RightKind, Hearers, KindOf
  <2>4. \A d \in Calls : Unsettled(d)' => Unsettled(d)
    BY <2>1 DEF Unsettled, Replying
  <2>5. Alike'
    BY <2>1, <2>4 DEF Alike, KindOf
  <2>6. \A d \in Hearers(r) \ overtaken : Asks[r[1]] = Asks[d]
    BY <2>2 DEF Alike, Hearers
  <2>7. OwnHash'
    BY <2>1, <2>2, <2>6 DEF OwnHash
  <2> QED BY <2>3, <2>5, <2>7
<1>6. ASSUME NEW c \in Calls, Forget(c) PROVE Goal
  BY <1>6 DEF Forget, RightKind, Alike, OwnHash, Unsettled, Replying, KindOf
<1>7. ASSUME NEW a \in Actions, Approve(a) PROVE Goal
  BY <1>7 DEF Approve, RightKind, Alike, OwnHash, Unsettled, Replying, KindOf
<1>8. ASSUME NEW a \in Actions, Reject(a) PROVE Goal
  <2>1. CASE Kind[a] = "DECLARE"
    BY <1>8, <2>1 DEF Reject, RightKind, Alike, OwnHash, Unsettled, Replying, KindOf
  <2>2. CASE Kind[a] # "DECLARE"
    BY <1>8, <2>2, TellKeepsOwn DEF Reject
  <2> QED BY <2>1, <2>2
<1>9. ASSUME NEW a \in Actions, Succeed(a) PROVE Goal
  BY <1>9, TellKeepsOwn DEF Succeed
<1>10. ASSUME NEW a \in Actions, Fail(a) PROVE Goal
  <2>1. CASE Kind[a] = "SIGN"
    BY <1>10, <2>1 DEF Fail, RightKind, Alike, OwnHash, Unsettled, Replying, KindOf
  <2>2. CASE Kind[a] # "SIGN"
    BY <1>10, <2>2, TellKeepsOwn DEF Fail
  <2> QED BY <2>1, <2>2
<1>11. CASE Kill
  BY <1>11 DEF Kill, RightKind, Alike, OwnHash, Unsettled, Replying, KindOf
<1>12. CASE Done \/ UNCHANGED vars
  BY <1>12 DEF Done, vars, RightKind, Alike, OwnHash, Unsettled, Replying, KindOf
<1> QED BY <1>1, <1>2, <1>3, <1>4, <1>5, <1>6, <1>7, <1>8, <1>9, <1>10, <1>11, <1>12 DEF Next

(* A call that returns has a result of the kind it asked for, and its own  *)
(* unless another of its kind was asked, or its late answer under way,     *)
(* between its question and its hash; however calls, answers, timeouts and *)
(* decisions interleave and wherever the background page is stopped.       *)
THEOREM ResultsAreOwn == Spec => []ResultIsOwn
<1>1. Inv /\ [Next]_vars => Inv'
  BY NextTypes, NextInv DEF Inv
<1>2. Inv => ResultIsOwn
  BY DEF Inv, RightKind, OwnHash, ResultIsOwn
<1> QED BY <1>1, <1>2, InitInv, PTL DEF Spec
---------------------------------------------------------------------------
(* While a call that was not overtaken is being asked, no withdrawal of    *)
(* its action is on its way, and what is answered is shown; nor does it    *)
(* wait for what is being withdrawn.  Who was there when the user decided  *)
(* is told when the action has been carried out.                           *)
Fresh ==
    \A c \in Calls \ overtaken : pc[c] = "waitRes" =>
        /\ ~ Withdrawn(Asks[c])
        /\ \A r \in replies : KindOf(r[1]) = KindOf(c) /\ r[2] # None => r[2] \in queue
Kept == \A c \in Calls \ overtaken : pc[c] = "waitResult" => ~ Withdrawn(hash[c])
DecidedWaited ==
    \A c \in decided :
        /\ pc[c] \in {"waitResult"} \cup Ends
        /\ kills = 0 /\ pc[c] = "waitResult" /\ Told(KindOf(c)) => hash[c] \in running

(* Questions and answers on their way are of calls that were made, one of  *)
(* each; as long as a call is alone and undisturbed it awaits its answer,  *)
(* and its action is not shown again while it is carried out.              *)
OnTheWay ==
    /\ \A c \in Calls : Replying(c) \/ <<"ask", c>> \in sent => pc[c] # "idle"
    /\ \A c \in Calls : ~ (Replying(c) /\ <<"ask", c>> \in sent)
    /\ \A r, s \in replies : r[1] = s[1] => r = s
AloneAwaits ==
    \A c \in Calls \ (late \cup overtaken) :
        Alone(c) /\ (Replying(c) \/ <<"ask", c>> \in sent) => pc[c] = "waitRes"
Handled ==
    \A a \in queue \cup running \cup known : \E c \in Calls :
        pc[c] # "idle" /\ Asks[c] = a /\ <<"ask", c>> \notin sent
NotBoth == \A c \in Calls : Alone(c) => Asks[c] \notin queue \cap running
Parts == Fresh /\ Kept /\ DecidedWaited /\ OnTheWay /\ AloneAwaits /\ Handled /\ NotBoth
Promises == WaitingCanBeAnswered /\ ShownIsAwaited /\ DecidedIsTold
AnswersInv == Inv /\ Parts /\ Promises

LEMMA InitAnswers == Init => AnswersInv
<1> SUFFICES ASSUME Init PROVE AnswersInv
  OBVIOUS
<1> USE DEF Init
<1>1. Parts
  BY DEF Parts, Fresh, Kept, DecidedWaited, OnTheWay, AloneAwaits, Handled, NotBoth, Replying
<1>2. Promises
  BY DEF Promises, WaitingCanBeAnswered, ShownIsAwaited, DecidedIsTold
<1> QED BY <1>1, <1>2, InitInv DEF AnswersInv

(* Calls that have been made stay made, so that one was alone before.      *)
LEMMA AloneBefore ==
    ASSUME NEW c \in Calls, Alone(c)', \A d \in Calls : pc[d] # "idle" => pc'[d] # "idle"
    PROVE  pc[c] # "idle" => Alone(c)
BY DEF Alone

LEMMA TellKeepsAnswers ==
    ASSUME AnswersInv, NEW a \in Actions, NEW outcome \in {"returned", "aborted"}, Tell(a, outcome),
           UNCHANGED <<sent, replies, refused, late, kills>>,
           \/ /\ a \in running /\ running' = running \ {a}
              /\ UNCHANGED <<queue, decided, overtaken>> /\ known' \subseteq known \cup {a}
           \/ /\ UNCHANGED <<running, known>> /\ queue' = queue \ {a} /\ decided' = decided \cup Hears(a)
              /\ overtaken' = overtaken \cup BeingAsked(a) /\ a \in queue
    PROVE  Parts' /\ Promises'
<1> USE DEF AnswersInv, Inv, TypeInv, Types
<1>t. /\ \A c \in Calls : hash'[c] = hash[c]
      /\ \A c \in Calls : pc'[c] = IF WaitsFor(c, a) THEN outcome ELSE pc[c]
      /\ \A c \in Calls : pc'[c] = "idle" <=> pc[c] = "idle"
      /\ \A b \in Actions : Withdrawn(b)' <=> Withdrawn(b)
      /\ \A c \in Calls : (Alone(c)' <=> Alone(c)) /\ (Replying(c)' <=> Replying(c))
  BY DEF Tell, Hears, WaitsFor, Withdrawn, Alone, Replying
<1>o. overtaken \subseteq overtaken' /\ queue' \subseteq queue /\ running' \subseteq running
  OBVIOUS
<1>1. Fresh'
  <2> SUFFICES ASSUME NEW c \in Calls \ overtaken', pc'[c] = "waitRes"
               PROVE  /\ ~ Withdrawn(Asks[c])
                      /\ \A r \in replies : KindOf(r[1]) = KindOf(c) /\ r[2] # None => r[2] \in queue'
    BY <1>t, AskedIsAction DEF Fresh, KindOf
  <2>1. pc[c] = "waitRes" /\ c \notin overtaken
    BY <1>t, <1>o
  <2>2. \A r \in replies : KindOf(r[1]) = KindOf(c) /\ r[2] # None => r[2] = Asks[c]
    BY <2>1 DEF Alike, RightKind, Unsettled, Replying
  <2>3. queue' = queue \/ (Asks[c] # a /\ queue' = queue \ {a})
    BY <2>1 DEF BeingAsked
  <2> QED BY <2>1, <2>2, <2>3 DEF Parts, Fresh
<1>2. Kept'
  BY <1>t, <1>o DEF Parts, Kept, HasHash
<1>3. DecidedWaited'
  BY <1>t DEF Parts, DecidedWaited, Hears, WaitsFor, Ends
<1>4. OnTheWay' /\ AloneAwaits'
  BY <1>t, <1>o DEF Parts, OnTheWay, AloneAwaits, WaitsFor
<1>5. Handled'
  BY <1>t DEF Parts, Handled
<1>6. NotBoth'
  BY <1>t, <1>o DEF Parts, NotBoth
<1>7. WaitingCanBeAnswered'
  BY <1>t, <1>o DEF Promises, WaitingCanBeAnswered, WaitsFor, KindOf
<1>8. ShownIsAwaited'
  <2> SUFFICES ASSUME kills = 0, NEW c \in Calls \ (late \cup overtaken'), Alone(c), Asks[c] \in queue',
                      KindOf(c) # "DECLARE"
               PROVE  \/ WaitsFor(c, Asks[c])'
                      \/ Withdrawn(Asks[c])
                      \/ pc'[c] = "waitRes" /\ <<c, Asks[c]>> \in replies
    BY <1>t, AskedIsAction DEF ShownIsAwaited, KindOf
  <2>1. Asks[c] # a
    BY <1>o DEF Parts, NotBoth
  <2>2. \/ WaitsFor(c, Asks[c]) \/ Withdrawn(Asks[c])
        \/ pc[c] = "waitRes" /\ <<c, Asks[c]>> \in replies
    BY <1>o DEF Promises, ShownIsAwaited
  <2> QED BY <1>t, <2>1, <2>2 DEF WaitsFor
<1>9. DecidedIsTold'
  BY <1>t DEF Promises, DecidedIsTold, Hears, WaitsFor, KindOf
<1> QED BY <1>1, <1>2, <1>3, <1>4, <1>5, <1>6, <1>7, <1>8, <1>9 DEF Parts, Promises

LEMMA NextAnswers ==
    ASSUME AnswersInv, Inv', [Next]_vars
    PROVE  Parts' /\ Promises'
<1> USE DEF AnswersInv, Inv, TypeInv, Types, history
<1> DEFINE Goal == Parts' /\ Promises'
<1>k. /\ \A c \in Calls \ overtaken, r \in replies :
            pc[c] = "waitRes" /\ KindOf(r[1]) = KindOf(c) => r[2] \in {None, Asks[c]}
      /\ \A r \in replies : r[1] \in Calls /\ Replying(r[1])
  BY DEF Alike, RightKind, Unsettled, Replying
<1>1. ASSUME NEW c \in Calls, Call(c) PROVE Goal
  <2>1. /\ pc[c] = "idle"
        /\ \A d \in Calls : pc'[d] = IF d = c THEN "waitRes" ELSE pc[d]
        /\ sent' = sent \cup {<<"ask", c>>}
        /\ UNCHANGED <<hash, replies, queue, running, known, decided, refused, late, kills>>
        /\ overtaken \subseteq overtaken'
        /\ c \in overtaken' \/ (Rivals(c) = {} /\ ~ Withdrawn(Asks[c]))
    BY <1>1 DEF Call
  <2>2. /\ \A b \in Actions : Withdrawn(b)' <=> Withdrawn(b)
        /\ \A d \in Calls : Replying(d)' <=> Replying(d)
        /\ \A d \in Calls : <<"ask", d>> \in sent' <=> <<"ask", d>> \in sent \/ d = c
    BY <2>1 DEF Withdrawn, Replying
  <2>3. \A d \in Calls \ {c} : Alone(d)' => Alone(d) \/ pc[d] = "idle"
    BY <2>1, AloneBefore
  <2>4. ~ Replying(c) /\ \A d \in Calls : Alone(c)' /\ Asks[d] = Asks[c] => pc[d] = "idle"
    BY <2>1 DEF Parts, OnTheWay, Alone
  <2>5. Alone(c)' => Asks[c] \notin queue \cup running
    BY <2>4 DEF Parts, Handled
  <2>6. Fresh'
    <3> SUFFICES ASSUME NEW d \in Calls \ overtaken', pc'[d] = "waitRes"
                 PROVE  /\ ~ Withdrawn(Asks[d])
                        /\ \A r \in replies : KindOf(r[1]) = KindOf(d) /\ r[2] # None => r[2] \in queue
      BY <2>1, <2>2, AskedIsAction DEF Fresh, KindOf
    <3>1. CASE d # c
      BY <2>1, <3>1 DEF Parts, Fresh
    <3>2. CASE d = c
      <4> SUFFICES ASSUME NEW r \in replies, KindOf(r[1]) = KindOf(c), r[2] # None
                   PROVE  r[2] \in queue
        BY <2>1, <3>2
      <4>1. pc[r[1]] = "waitRes" /\ r[1] \notin overtaken
        BY <1>k, <2>1, <2>4, <3>2 DEF Rivals
      <4> QED BY <1>k, <4>1 DEF Parts, Fresh
    <3> QED BY <3>1, <3>2
  <2>7. Kept'
    BY <2>1, <2>2 DEF Parts, Kept, HasHash
  <2>8. DecidedWaited' /\ WaitingCanBeAnswered' /\ DecidedIsTold'
    BY <2>1 DEF Parts, DecidedWaited, Promises, WaitingCanBeAnswered, DecidedIsTold, Ends, KindOf
  <2>9. OnTheWay' /\ AloneAwaits'
    BY <2>1, <2>2, <2>3, <2>4 DEF Parts, OnTheWay, AloneAwaits
  <2>10. Handled'
    BY <2>1, <2>2 DEF Parts, Handled
  <2>11. NotBoth'
    <3> SUFFICES ASSUME NEW d \in Calls, Alone(d)' PROVE Asks[d] \notin queue \cap running
      BY <2>1 DEF NotBoth
    <3>1. CASE d = c
      BY <2>5, <3>1
    <3>2. CASE d # c
      <4>1. pc[d] # "idle"
        BY <2>1, <3>2 DEF Alone
      <4> QED BY <2>3, <3>2, <4>1 DEF Parts, NotBoth
    <3> QED BY <3>1, <3>2
  <2>12. ShownIsAwaited'
    <3> SUFFICES ASSUME kills = 0, NEW d \in Calls \ (late \cup overtaken'), Alone(d)', Asks[d] \in queue,
                        KindOf(d) # "DECLARE"
                 PROVE  \/ WaitsFor(d, Asks[d])'
                        \/ Withdrawn(Asks[d])
                        \/ pc'[d] = "waitRes" /\ <<d, Asks[d]>> \in replies
      BY <2>1, <2>2, AskedIsAction DEF ShownIsAwaited, KindOf
    <3>1. d # c /\ pc[d] # "idle"
      BY <2>1, <2>5 DEF Alone
    <3>2. \/ WaitsFor(d, Asks[d]) \/ Withdrawn(Asks[d])
          \/ pc[d] = "waitRes" /\ <<d, Asks[d]>> \in replies
      BY <2>1, <2>3, <3>1 DEF Promises, ShownIsAwaited
    <3> QED BY <2>1, <3>1, <3>2 DEF WaitsFor
  <2> QED BY <2>6, <2>7, <2>8, <2>9, <2>10, <2>11, <2>12 DEF Parts, Promises
<1>2. ASSUME NEW c \in Calls, NoAnswer(c) PROVE Goal
  <2>1. /\ pc[c] = "waitRes"
        /\ \A d \in Calls : pc'[d] = IF d = c THEN "noAnswer" ELSE pc[d]
        /\ UNCHANGED <<hash, sent, replies, queue, running, known, decided, refused, overtaken, kills>>
    BY <1>2 DEF NoAnswer
  <2>2. /\ late \subseteq late' /\ (c \in late' \/ ~ (<<"ask", c>> \in sent \/ Replying(c)))
        /\ \A b \in Actions : Withdrawn(b)' <=> Withdrawn(b)
        /\ \A d \in Calls : (Replying(d)' <=> Replying(d)) /\ (Alone(d)' <=> Alone(d))
    BY <1>2, <2>1 DEF NoAnswer, Withdrawn, Replying, Alone
  <2>3. Fresh' /\ Kept'
    BY <2>1, <2>2, AskedIsAction DEF Parts, Fresh, Kept, HasHash, KindOf
  <2>4. DecidedWaited' /\ WaitingCanBeAnswered' /\ DecidedIsTold'
    BY <2>1, <2>2 DEF Parts, DecidedWaited, Promises, WaitingCanBeAnswered, DecidedIsTold, Ends, KindOf
  <2>5. OnTheWay' /\ AloneAwaits' /\ Handled' /\ NotBoth'
    <3>1. OnTheWay'
      BY <2>1, <2>2 DEF Parts, OnTheWay
    <3>2. AloneAwaits'
      BY <2>1, <2>2 DEF Parts, AloneAwaits
    <3>3. Handled' /\ NotBoth'
      BY <2>1, <2>2 DEF Parts, Handled, NotBoth
    <3> QED BY <3>1, <3>2, <3>3
  <2>6. \A d \in Calls : <<d, Asks[d]>> \in replies => Replying(d)
    BY DEF Replying
  <2>7. ShownIsAwaited'
    <3> SUFFICES ASSUME kills = 0, NEW d \in Calls \ (late' \cup overtaken), Alone(d), Asks[d] \in queue,
                        KindOf(d) # "DECLARE"
                 PROVE  \/ WaitsFor(d, Asks[d])'
                        \/ Withdrawn(Asks[d])
                        \/ pc'[d] = "waitRes" /\ <<d, Asks[d]>> \in replies
      BY <2>1, <2>2, AskedIsAction DEF ShownIsAwaited, KindOf
    <3>1. \/ WaitsFor(d, Asks[d]) \/ Withdrawn(Asks[d])
          \/ pc[d] = "waitRes" /\ <<d, Asks[d]>> \in replies
      BY <2>2 DEF Promises, ShownIsAwaited
    <3>2. CASE d = c
      BY <2>1, <2>2, <2>6, <3>1, <3>2 DEF WaitsFor
    <3>3. CASE d # c
      BY <2>1, <3>1, <3>3 DEF WaitsFor
    <3> QED BY <3>2, <3>3
  <2> QED BY <2>3, <2>4, <2>5, <2>7 DEF Parts, Promises
<1>3. ASSUME NEW c \in Calls, TimeOut(c) PROVE Goal
  <2> DEFINE withdraws == Kind[hash[c]] # "DECLARE"
  <2>1. /\ pc[c] = "waitResult"
        /\ sent' = IF withdraws THEN sent \cup {<<"giveUp", c>>} ELSE sent
        /\ late' = IF hash[c] \in running THEN late \cup {c} ELSE late
        /\ overtaken' = IF withdraws THEN overtaken \cup BeingAsked(hash[c]) ELSE overtaken
        /\ UNCHANGED <<hash, replies, queue, running, known, decided, refused, kills>>
    BY <1>3 DEF TimeOut
  <2>2. \A d \in Calls : pc'[d] = IF d = c THEN "timedOut"
                                  ELSE IF WaitsFor(d, hash[c]) /\ withdraws THEN "aborted" ELSE pc[d]
    BY <1>3 DEF TimeOut
  <2>3. hash[c] \in Actions
    BY <2>1 DEF HasHash
  <2> HIDE DEF withdraws
  <2>4. /\ \A b \in Actions : Withdrawn(b)' <=> Withdrawn(b) \/ (withdraws /\ b = hash[c])
        /\ \A d \in Calls : (Replying(d)' <=> Replying(d)) /\ (<<"ask", d>> \in sent' <=> <<"ask", d>> \in sent)
        /\ \A d \in Calls : (pc'[d] = "idle" <=> pc[d] = "idle") /\ (pc'[d] = "waitRes" <=> pc[d] = "waitRes")
        /\ \A d \in Calls : Alone(d)' <=> Alone(d)
    BY <2>1, <2>2 DEF Withdrawn, Replying, Alone, WaitsFor
  <2>5. Fresh'
    BY <2>1, <2>4, AskedIsAction DEF Parts, Fresh, BeingAsked, KindOf
  <2>6. Kept'
    BY <2>1, <2>2, <2>4 DEF Parts, Kept, HasHash, WaitsFor
  <2>7. DecidedWaited' /\ WaitingCanBeAnswered'
    BY <2>1, <2>2 DEF Parts, DecidedWaited, Promises, WaitingCanBeAnswered, Ends, KindOf
  <2>8. OnTheWay' /\ AloneAwaits' /\ Handled' /\ NotBoth'
    BY <2>1, <2>4 DEF Parts, OnTheWay, AloneAwaits, Handled, NotBoth
  <2>9. DecidedIsTold'
    <3> SUFFICES ASSUME kills = 0, NEW d \in decided \ late', pc'[d] = "timedOut", Told(KindOf(d))
                 PROVE  FALSE
      BY <2>1 DEF DecidedIsTold, KindOf
    <3>1. CASE d = c
      BY <2>1, <3>1 DEF Parts, DecidedWaited
    <3>2. CASE d # c
      BY <2>1, <2>2, <3>2 DEF Promises, DecidedIsTold
    <3> QED BY <3>1, <3>2
  <2>10. ShownIsAwaited'
    <3> SUFFICES ASSUME kills = 0, NEW d \in Calls \ (late' \cup overtaken'), Alone(d), Asks[d] \in queue,
                        KindOf(d) # "DECLARE"
                 PROVE  \/ WaitsFor(d, Asks[d])'
                        \/ Withdrawn(Asks[d])'
                        \/ pc'[d] = "waitRes" /\ <<d, Asks[d]>> \in replies
      BY <2>1, <2>4, AskedIsAction DEF ShownIsAwaited, KindOf
    <3>1. \/ WaitsFor(d, Asks[d]) \/ Withdrawn(Asks[d])
          \/ pc[d] = "waitRes" /\ <<d, Asks[d]>> \in replies
      BY <2>1 DEF Promises, ShownIsAwaited
    <3>2. CASE Asks[d] = hash[c]
      BY <2>3, <2>4, <3>2 DEF withdraws, KindOf
    <3>3. CASE Asks[d] # hash[c]
      BY <2>1, <2>2, <2>4, <3>1, <3>3, AskedIsAction DEF WaitsFor
    <3> QED BY <3>2, <3>3
  <2> QED BY <2>5, <2>6, <2>7, <2>8, <2>9, <2>10 DEF Parts, Promises
<1>4. ASSUME NEW c \in Calls, Ask(c) PROVE Goal
  <2>1. /\ <<"ask", c>> \in sent /\ sent' = sent \ {<<"ask", c>>}
        /\ queue' = IF Asks[c] \in known THEN queue ELSE queue \cup {Asks[c]}
        /\ replies' = replies \/ replies' = replies \cup {<<c, IF Asks[c] \in known THEN None ELSE Asks[c]>>}
        /\ Asks[c] \notin known => replies' = replies \cup {<<c, Asks[c]>>}
        /\ UNCHANGED <<pc, hash, running, known, decided, late, overtaken, kills>>
    BY <1>4 DEF Ask
  <2>2. /\ \A b \in Actions : Withdrawn(b)' <=> Withdrawn(b)
        /\ \A d \in Calls : Replying(d)' => Replying(d) \/ d = c
        /\ \A d \in Calls : <<"ask", d>> \in sent' <=> <<"ask", d>> \in sent /\ d # c
        /\ \A d \in Calls : Alone(d)' <=> Alone(d)
        /\ \A r \in replies' : r \in replies \/ r = <<c, None>>
                               \/ (r = <<c, Asks[c]>> /\ Asks[c] \in queue')
    BY <2>1 DEF Withdrawn, Replying, Alone
  <2>3. pc[c] # "idle" /\ ~ Replying(c) /\ Asks[c] \in Actions
    BY <2>1, AskedIsAction DEF Parts, OnTheWay
  <2>4. Alone(c) => Asks[c] \notin queue \cup running \cup known
    BY <2>1 DEF Parts, Handled, Alone
  <2>5. \A d \in Calls \ {c} : Alone(d) => Asks[d] # Asks[c]
    BY <2>3 DEF Alone
  <2>6. Fresh'
    <3> SUFFICES ASSUME NEW d \in Calls \ overtaken, pc[d] = "waitRes"
                 PROVE  /\ ~ Withdrawn(Asks[d])
                        /\ \A r \in replies' : KindOf(r[1]) = KindOf(d) /\ r[2] # None => r[2] \in queue'
      BY <2>1, <2>2, AskedIsAction DEF Fresh, KindOf
    <3> QED BY <2>1, <2>2 DEF Parts, Fresh
  <2>7. Kept'
    BY <2>1, <2>2 DEF Parts, Kept, HasHash
  <2>8. DecidedWaited' /\ WaitingCanBeAnswered' /\ DecidedIsTold'
    BY <2>1 DEF Parts, DecidedWaited, Promises, WaitingCanBeAnswered, DecidedIsTold, KindOf
  <2>9. OnTheWay'
    <3>1. \A r, s \in replies' : r[1] = s[1] => r = s
      BY <2>1, <2>3 DEF Parts, OnTheWay, Replying
    <3> QED BY <2>1, <2>2, <2>3, <3>1 DEF Parts, OnTheWay
  <2>10. AloneAwaits'
    BY <2>1, <2>2 DEF Parts, AloneAwaits
  <2>11. Handled'
    BY <2>1, <2>2, <2>3 DEF Parts, Handled
  <2>12. NotBoth'
    BY <2>1, <2>2, <2>4, <2>5 DEF Parts, NotBoth
  <2>13. ShownIsAwaited'
    <3> SUFFICES ASSUME kills = 0, NEW d \in Calls \ (late \cup overtaken), Alone(d), Asks[d] \in queue',
                        KindOf(d) # "DECLARE"
                 PROVE  \/ WaitsFor(d, Asks[d])
                        \/ Withdrawn(Asks[d])
                        \/ pc[d] = "waitRes" /\ <<d, Asks[d]>> \in replies'
      BY <2>1, <2>2, AskedIsAction DEF ShownIsAwaited, KindOf, WaitsFor
    <3>1. CASE d = c
      BY <2>1, <2>4, <3>1 DEF Parts, AloneAwaits
    <3>2. CASE d # c
      BY <2>1, <2>5, <3>2 DEF Promises, ShownIsAwaited
    <3> QED BY <3>1, <3>2
  <2> QED BY <2>6, <2>7, <2>8, <2>9, <2>10, <2>11, <2>12, <2>13 DEF Parts, Promises
<1>5. ASSUME NEW r \in replies, Reply(r) PROVE Goal
  <2>1. /\ replies' = replies \ {r}
        /\ UNCHANGED <<sent, queue, running, known, decided, refused, late, overtaken, kills>>
        /\ \A d \in Calls : pc'[d] = IF d \in Hearers(r) THEN IF r[2] = None THEN "exists" ELSE "waitResult"
                                     ELSE pc[d]
        /\ \A d \in Calls : hash'[d] = IF d \in Hearers(r) /\ r[2] # None THEN r[2] ELSE hash[d]
    BY <1>5 DEF Reply
  <2>2. /\ \A d \in Hearers(r) : pc[d] = "waitRes" /\ KindOf(r[1]) = KindOf(d)
        /\ \A d \in Hearers(r) \ overtaken : r[2] # None =>
              r[2] = Asks[d] /\ r[2] \in queue /\ ~ Withdrawn(Asks[d])
    BY <1>k DEF Hearers, Parts, Fresh
  <2>3. /\ \A b \in Actions : Withdrawn(b)' <=> Withdrawn(b)
        /\ \A d \in Calls : Replying(d)' => Replying(d)
        /\ \A d \in Calls : Alone(d)' <=> Alone(d)
        /\ \A d \in Calls : pc'[d] = "waitRes" => pc[d] = "waitRes"
    BY <2>1, <2>2 DEF Withdrawn, Replying, Alone, GaveUp
  <2>4. Fresh'
    BY <2>1, <2>3, AskedIsAction DEF Parts, Fresh, KindOf
  <2>5. Kept'
    <3> SUFFICES ASSUME NEW d \in Calls \ overtaken, pc'[d] = "waitResult" PROVE ~ Withdrawn(hash[d])'
      BY <2>1 DEF Kept
    <3>1. CASE d \in Hearers(r)
      <4>1. r[2] # None /\ hash'[d] = Asks[d] /\ ~ Withdrawn(Asks[d])
        BY <2>1, <2>2, <3>1
      <4> QED BY <2>1, <4>1, AskedIsAction DEF Withdrawn, GaveUp, Hearers
    <3>2. CASE d \notin Hearers(r)
      <4>1. hash'[d] = hash[d] /\ ~ Withdrawn(hash[d])
        BY <2>1, <3>2 DEF Parts, Kept
      <4> QED BY <2>1, <4>1 DEF Withdrawn, GaveUp, Hearers
    <3> QED BY <3>1, <3>2
  <2>6. DecidedWaited' /\ DecidedIsTold'
    BY <2>1, <2>2 DEF Parts, DecidedWaited, Promises, DecidedIsTold, Ends, KindOf
  <2>7. WaitingCanBeAnswered'
    BY <2>1, <2>2 DEF Promises, WaitingCanBeAnswered, KindOf
  <2>8. OnTheWay' /\ Handled' /\ NotBoth'
    BY <2>1, <2>2, <2>3 DEF Parts, OnTheWay, Handled, NotBoth
  <2>9. /\ pc[r[1]] # "idle"
        /\ \A d \in Calls : d \in Hearers(r) /\ d \notin overtaken /\ Alone(d) => r[1] = d
    <3>1. r[1] \in Calls /\ Unsettled(r[1]) /\ pc[r[1]] # "idle"
      BY <1>k DEF Parts, OnTheWay, Unsettled
    <3> QED BY <2>2, <3>1 DEF Alone, Alike
  <2>10. ~ Replying(r[1])' /\ <<"ask", r[1]>> \notin sent
    BY <1>k, <2>1 DEF Parts, OnTheWay, Replying
  <2>11. AloneAwaits'
    BY <2>1, <2>3, <2>9, <2>10 DEF Parts, AloneAwaits
  <2>12. ShownIsAwaited'
    <3> SUFFICES ASSUME kills = 0, NEW d \in Calls \ (late \cup overtaken), Alone(d), Asks[d] \in queue,
                        KindOf(d) # "DECLARE"
                 PROVE  \/ WaitsFor(d, Asks[d])'
                        \/ Withdrawn(Asks[d])
                        \/ pc'[d] = "waitRes" /\ <<d, Asks[d]>> \in replies'
      BY <2>1, <2>3, AskedIsAction DEF ShownIsAwaited, KindOf
    <3>1. CASE WaitsFor(d, Asks[d])
      BY <2>1, <2>2, <3>1 DEF WaitsFor
    <3>2. CASE pc[d] = "waitRes" /\ <<d, Asks[d]>> \in replies
      <4>1. CASE r = <<d, Asks[d]>>
        <5>1. d \in Hearers(r) /\ r[2] # None
          BY <3>2, <4>1, AskedIsAction DEF Hearers
        <5> QED BY <2>1, <4>1, <5>1 DEF WaitsFor
      <4>2. CASE r # <<d, Asks[d]>>
        <5>1. r[1] # d
          BY <3>2, <4>2 DEF Parts, OnTheWay
        <5> QED BY <2>1, <2>9, <3>2, <4>2, <5>1
      <4> QED BY <4>1, <4>2
    <3> QED BY <3>1, <3>2 DEF Promises, ShownIsAwaited
  <2> QED BY <2>4, <2>5, <2>6, <2>7, <2>8, <2>11, <2>12 DEF Parts, Promises
<1>6. ASSUME NEW c \in Calls, Forget(c) PROVE Goal
  <2>1. /\ <<"giveUp", c>> \in sent /\ sent' = sent \ {<<"giveUp", c>>} /\ queue' = queue \ {hash[c]}
        /\ UNCHANGED <<pc, hash, replies, running, known, decided, refused, late, overtaken, kills>>
    BY <1>6 DEF Forget
  <2>2. /\ \A b \in Actions : Withdrawn(b)' => Withdrawn(b)
        /\ \A b \in Actions : Withdrawn(b) /\ b # hash[c] => Withdrawn(b)'
        /\ \A d \in Calls : (Replying(d)' <=> Replying(d)) /\ (<<"ask", d>> \in sent' <=> <<"ask", d>> \in sent)
        /\ \A d \in Calls : Alone(d)' <=> Alone(d)
        /\ Withdrawn(hash[c])
    BY <2>1 DEF Withdrawn, Replying, Alone
  <2>3. Fresh'
    <3> SUFFICES ASSUME NEW d \in Calls \ overtaken, pc[d] = "waitRes"
                 PROVE  /\ ~ Withdrawn(Asks[d])
                        /\ \A r \in replies : KindOf(r[1]) = KindOf(d) /\ r[2] # None => r[2] \in queue'
      BY <2>1, <2>2, AskedIsAction DEF Fresh, KindOf
    <3> QED BY <1>k, <2>1, <2>2 DEF Parts, Fresh
  <2>4. Kept'
    BY <2>1, <2>2 DEF Parts, Kept, HasHash
  <2>5. DecidedWaited' /\ DecidedIsTold'
    BY <2>1 DEF Parts, DecidedWaited, Promises, DecidedIsTold, KindOf
  <2>6. WaitingCanBeAnswered'
    BY <2>1, <2>2 DEF Parts, Kept, Promises, WaitingCanBeAnswered, KindOf
  <2>7. OnTheWay' /\ AloneAwaits' /\ Handled' /\ NotBoth'
    BY <2>1, <2>2 DEF Parts, OnTheWay, AloneAwaits, Handled, NotBoth
  <2>8. ShownIsAwaited'
    BY <2>1, <2>2, AskedIsAction DEF Promises, ShownIsAwaited, WaitsFor, KindOf
  <2> QED BY <2>3, <2>4, <2>5, <2>6, <2>7, <2>8 DEF Parts, Promises
<1>7. ASSUME NEW a \in Actions, Approve(a) PROVE Goal
  <2>1. /\ a \in queue /\ queue' = queue \ {a} /\ running' = running \cup {a}
        /\ known \subseteq known' /\ known' \subseteq known \cup {a}
        /\ decided' = decided \cup Hears(a) /\ overtaken' = overtaken \cup BeingAsked(a)
        /\ UNCHANGED <<pc, hash, sent, replies, refused, late, kills>>
    BY <1>7 DEF Approve
  <2>2. /\ \A b \in Actions : Withdrawn(b)' <=> Withdrawn(b)
        /\ \A d \in Calls : (Replying(d)' <=> Replying(d)) /\ (Alone(d)' <=> Alone(d))
    BY <2>1 DEF Withdrawn, Replying, Alone
  <2>3. Fresh'
    <3> SUFFICES ASSUME NEW d \in Calls \ overtaken', pc[d] = "waitRes"
                 PROVE  /\ ~ Withdrawn(Asks[d])
                        /\ \A r \in replies : KindOf(r[1]) = KindOf(d) /\ r[2] # None => r[2] \in queue'
      BY <2>1, <2>2, AskedIsAction DEF Fresh, KindOf
    <3>1. Asks[d] # a /\ d \notin overtaken
      BY <2>1 DEF BeingAsked
    <3> QED BY <1>k, <2>1, <3>1 DEF Parts, Fresh
  <2>4. Kept'
    BY <2>1, <2>2 DEF Parts, Kept, HasHash
  <2>5. DecidedWaited' /\ DecidedIsTold'
    BY <2>1 DEF Parts, DecidedWaited, Promises, DecidedIsTold, Hears, WaitsFor, Ends, KindOf
  <2>6. WaitingCanBeAnswered'
    BY <2>1 DEF Promises, WaitingCanBeAnswered, KindOf
  <2>7. OnTheWay' /\ AloneAwaits' /\ Handled' /\ NotBoth'
    <3>1. OnTheWay' /\ AloneAwaits'
      BY <2>1, <2>2 DEF Parts, OnTheWay, AloneAwaits
    <3>2. Handled'
      BY <2>1 DEF Parts, Handled
    <3>3. NotBoth'
      BY <2>1, <2>2 DEF Parts, NotBoth
    <3> QED BY <3>1, <3>2, <3>3
  <2>8. ShownIsAwaited'
    BY <2>1, <2>2, AskedIsAction DEF Promises, ShownIsAwaited, WaitsFor, KindOf
  <2> QED BY <2>3, <2>4, <2>5, <2>6, <2>7, <2>8 DEF Parts, Promises
<1>8. ASSUME NEW a \in Actions, Reject(a) PROVE Goal
  <2>0. /\ a \in queue /\ queue' = queue \ {a} /\ decided' = decided \cup Hears(a)
        /\ overtaken' = overtaken \cup BeingAsked(a)
        /\ UNCHANGED <<sent, replies, running, known, refused, late, kills>>
    BY <1>8 DEF Reject
  <2>1. CASE Kind[a] # "DECLARE"
    BY <1>8, <2>0, <2>1, TellKeepsAnswers DEF Reject
  <2>2. CASE Kind[a] = "DECLARE"
    <3>1. UNCHANGED <<pc, hash>>
      BY <1>8, <2>2 DEF Reject
    <3>2. \A c \in Calls : pc[c] = "waitResult" /\ hash[c] = a => ~ Told(KindOf(c))
      BY <2>2, NoneAssumption DEF RightKind, Told
    <3>3. /\ \A b \in Actions : Withdrawn(b)' <=> Withdrawn(b)
          /\ \A d \in Calls : (Replying(d)' <=> Replying(d)) /\ (Alone(d)' <=> Alone(d))
      BY <2>0, <3>1 DEF Withdrawn, Replying, Alone
    <3>4. Fresh'
      <4> SUFFICES ASSUME NEW d \in Calls \ overtaken', pc[d] = "waitRes"
                   PROVE  /\ ~ Withdrawn(Asks[d])
                          /\ \A r \in replies : KindOf(r[1]) = KindOf(d) /\ r[2] # None => r[2] \in queue'
        BY <2>0, <3>1, <3>3, AskedIsAction DEF Fresh, KindOf
      <4>1. Asks[d] # a /\ d \notin overtaken
        BY <2>0 DEF BeingAsked
      <4> QED BY <1>k, <2>0, <4>1 DEF Parts, Fresh
    <3>5. Kept' /\ OnTheWay' /\ AloneAwaits' /\ Handled' /\ NotBoth'
      BY <2>0, <3>1, <3>3 DEF Parts, Kept, HasHash, OnTheWay, AloneAwaits, Handled, NotBoth
    <3>6. DecidedWaited' /\ DecidedIsTold' /\ WaitingCanBeAnswered'
      BY <2>0, <3>1, <3>2 DEF Parts, DecidedWaited, Promises, DecidedIsTold, WaitingCanBeAnswered, Hears,
         WaitsFor, KindOf
    <3>7. ShownIsAwaited'
      BY <2>0, <3>1, <3>3, AskedIsAction DEF Promises, ShownIsAwaited, WaitsFor, KindOf
    <3> QED BY <3>4, <3>5, <3>6, <3>7 DEF Parts, Promises
  <2> QED BY <2>1, <2>2
<1>9. ASSUME NEW a \in Actions, Succeed(a) PROVE Goal
  BY <1>9, TellKeepsAnswers DEF Succeed
<1>10. ASSUME NEW a \in Actions, Fail(a) PROVE Goal
  <2>0. /\ a \in running /\ running' = running \ {a}
        /\ UNCHANGED <<sent, replies, queue, known, decided, refused, late, overtaken, kills>>
    BY <1>10 DEF Fail
  <2>1. CASE Kind[a] # "SIGN"
    BY <1>10, <2>0, <2>1, TellKeepsAnswers DEF Fail
  <2>2. CASE Kind[a] = "SIGN"
    <3>1. UNCHANGED <<pc, hash>>
      BY <1>10, <2>2 DEF Fail
    <3>2. \A c \in Calls : pc[c] = "waitResult" /\ hash[c] = a => ~ Told(KindOf(c))
      BY <2>2, NoneAssumption DEF RightKind, Told
    <3>3. /\ \A b \in Actions : Withdrawn(b)' <=> Withdrawn(b)
          /\ \A d \in Calls : (Replying(d)' <=> Replying(d)) /\ (Alone(d)' <=> Alone(d))
      BY <2>0, <3>1 DEF Withdrawn, Replying, Alone
    <3>4. Fresh' /\ Kept' /\ OnTheWay' /\ AloneAwaits' /\ Handled' /\ NotBoth'
      BY <2>0, <3>1, <3>3, AskedIsAction DEF Parts, Fresh, Kept, HasHash, OnTheWay, AloneAwaits, Handled,
         NotBoth, KindOf
    <3>5. DecidedWaited' /\ DecidedIsTold' /\ WaitingCanBeAnswered'
      BY <2>0, <3>1, <3>2 DEF Parts, DecidedWaited, Promises, DecidedIsTold, WaitingCanBeAnswered, KindOf
    <3>6. ShownIsAwaited'
      BY <2>0, <3>1, <3>3, AskedIsAction DEF Promises, ShownIsAwaited, WaitsFor, KindOf
    <3> QED BY <3>4, <3>5, <3>6 DEF Parts, Promises
  <2> QED BY <2>1, <2>2
<1>11. CASE Kill
  <2>1. /\ kills' # 0 /\ sent' = {} /\ replies' = {} /\ running' = {}
        /\ UNCHANGED <<pc, hash, queue, known, decided, refused, late, overtaken>>
    BY <1>11, KillsAssumption DEF Kill
  <2>2. Fresh' /\ Kept' /\ DecidedWaited'
    BY <2>1 DEF Parts, Fresh, Kept, DecidedWaited, Withdrawn
  <2>3. OnTheWay' /\ AloneAwaits'
    BY <2>1 DEF OnTheWay, AloneAwaits, Replying
  <2>4. Handled' /\ NotBoth'
    BY <2>1 DEF Parts, Handled, NotBoth
  <2>5. Promises'
    BY <2>1 DEF Promises, WaitingCanBeAnswered, ShownIsAwaited, DecidedIsTold
  <2> QED BY <2>2, <2>3, <2>4, <2>5 DEF Parts
<1>12. CASE Done \/ UNCHANGED vars
  <2>1. UNCHANGED <<pc, hash, sent, replies, queue, running, known, decided, refused, late, overtaken, kills>>
    BY <1>12 DEF Done, vars
  <2>2. Parts'
    <3>1. Fresh' /\ Kept' /\ DecidedWaited'
      BY <2>1 DEF Parts, Fresh, Kept, DecidedWaited, Withdrawn, KindOf
    <3>2. OnTheWay' /\ AloneAwaits'
      BY <2>1 DEF Parts, OnTheWay, AloneAwaits, Replying, Alone
    <3>3. Handled' /\ NotBoth'
      BY <2>1 DEF Parts, Handled, NotBoth, Alone
    <3> QED BY <3>1, <3>2, <3>3 DEF Parts
  <2>3. Promises'
    BY <2>1 DEF Promises, WaitingCanBeAnswered, ShownIsAwaited, DecidedIsTold, Withdrawn, Alone, WaitsFor,
       KindOf
  <2> QED BY <2>2, <2>3
<1> QED BY <1>1, <1>2, <1>3, <1>4, <1>5, <1>6, <1>7, <1>8, <1>9, <1>10, <1>11, <1>12 DEF Next

LEMMA NextAnswersInv == AnswersInv /\ [Next]_vars => AnswersInv'
BY NextTypes, NextInv, NextAnswers DEF Inv, AnswersInv

(* Whoever waits can be answered, whatever the other calls asked for, gave *)
(* up or had decided and however late their answers were, unless the       *)
(* background page was stopped, the action is of the two kinds of which    *)
(* nobody is told, or the call was overtaken while it was being asked: by  *)
(* a decision or a withdrawal of the same, or by another of its kind.      *)
THEOREM WaitingAnswerable == Spec => []WaitingCanBeAnswered
<1>1. AnswersInv /\ [Next]_vars => AnswersInv'
  BY NextAnswersInv
<1>2. AnswersInv => WaitingCanBeAnswered
  BY DEF AnswersInv, Promises
<1> QED BY <1>1, <1>2, InitAnswers, PTL DEF Spec

(* What the user is shown, the call that asks for it awaits, or is about   *)
(* to, or a withdrawal is on its way, in any order of calls, timeouts and  *)
(* decisions.                                                              *)
THEOREM ShownStaysAwaited == Spec => []ShownIsAwaited
<1>1. AnswersInv /\ [Next]_vars => AnswersInv'
  BY NextAnswersInv
<1>2. AnswersInv => ShownIsAwaited
  BY DEF AnswersInv, Promises
<1> QED BY <1>1, <1>2, InitAnswers, PTL DEF Spec

(* A call that waited when the user decided does not time out, unless what *)
(* was approved took longer than it waits; also if several calls wait for  *)
(* the same decision.                                                      *)
THEOREM DecidedStaysTold == Spec => []DecidedIsTold
<1>1. AnswersInv /\ [Next]_vars => AnswersInv'
  BY NextAnswersInv
<1>2. AnswersInv => DecidedIsTold
  BY DEF AnswersInv, Promises
<1> QED BY <1>1, <1>2, InitAnswers, PTL DEF Spec
=============================================================================
