---------------------- MODULE AccountTransactionsProofs ----------------------
(* For any number of transactions.  Of those that execute: types, that the *)
(* stored nonce never runs ahead of what was sent, and that an undisturbed *)
(* queue has its nonces in a row.  Of those that are followed: types, that *)
(* the list has each once, with what the chain has answered, that nothing  *)
(* goes back, and that the user hears of it once.                          *)
EXTENDS AccountTransactions, FiniteSetTheorems, TLAPS

---------------------------------------------------------------------------
(* The nonces.  Where an execution waits, and the types.                   *)

Places == {"idle", "chain", "stored", "store", "deploy", "send",
           "increase", "increased", "reset", "done"}
Statuses == {"none", "RECEIVED", "ACCEPTED", "REJECTED", "dropped"}
Types ==
    /\ stored \in Nat \cup {None}
    /\ needsDeploy \in BOOLEAN
    /\ pc \in [Tx -> Places]
    /\ given \in [Tx -> Nat \cup {None}]
    /\ answer \in [Tx -> Nat \cup {None}]
    /\ read \in [Tx -> Nat \cup {None}]
    /\ nonce \in [Tx -> Nat \cup {None}]
    /\ status \in [Tx -> Statuses]
    /\ chain \in Nat /\ deploying \in BOOLEAN /\ quits \in 0 .. MaxQuits
    /\ \A t \in Tx :
          /\ pc[t] \in {"stored", "store"} => answer[t] \in Nat
          /\ pc[t] = "increased" => read[t] \in Nat
          /\ pc[t] \in {"store", "deploy", "send", "increase", "increased"} => nonce[t] \in Nat

LEMMA InitTypes == Init => Types
<1> SUFFICES ASSUME Init PROVE Types
  OBVIOUS
<1>1. needsDeploy \in BOOLEAN /\ deploying \in BOOLEAN
  BY FlagsAssumption, Zenon DEF Init
<1>2. chain \in Nat /\ quits \in 0 .. MaxQuits
  BY QuitsAssumption, SMT DEF Init
<1> QED BY <1>1, <1>2 DEF Init, Types, Places, Statuses

LEMMA NextTypes == Types /\ [Next]_vars => Types'
<1> SUFFICES ASSUME Types, [Next]_vars PROVE Types'
  OBVIOUS
<1> USE DEF Types, Places, Statuses, At, Go, locals, ext
<1>1. ASSUME NEW t \in Tx, NEW n \in Provided \cup {None}, Begin(t, n) PROVE Types'
  BY <1>1, NoneAssumption DEF Begin
<1>2. ASSUME NEW t \in Tx, FetchNonce(t) PROVE Types'
  BY <1>2 DEF FetchNonce
<1>3. ASSUME NEW t \in Tx, ReadStored(t) PROVE Types'
  BY <1>3 DEF ReadStored
<1>4. ASSUME NEW t \in Tx, StoreFetched(t) PROVE Types'
  BY <1>4 DEF StoreFetched
<1>5. ASSUME NEW t \in Tx, Deploy(t) PROVE Types'
  BY <1>5 DEF Deploy
<1>6. ASSUME NEW t \in Tx, Send(t) PROVE Types'
  BY <1>6 DEF Send, Settle
<1>7. ASSUME NEW t \in Tx, Fail(t) PROVE Types'
  BY <1>7 DEF Fail
<1>8. ASSUME NEW t \in Tx, ReadIncrease(t) PROVE Types'
  BY <1>8 DEF ReadIncrease, Settle
<1>9. ASSUME NEW t \in Tx, WriteIncrease(t) PROVE Types'
  BY <1>9 DEF WriteIncrease, Settle
<1>10. ASSUME NEW t \in Tx, ResetStored(t) PROVE Types'
  BY <1>10 DEF ResetStored
<1>11. CASE TrackDeployed
  BY <1>11 DEF TrackDeployed
<1>12. ASSUME NEW t \in Tx, TrackRejected(t) PROVE Types'
  BY <1>12 DEF TrackRejected
<1>13. CASE Quit
  BY <1>13, QuitsAssumption DEF Quit, Busy
<1>14. ASSUME NEW t \in Tx, Accept(t) PROVE Types'
  BY <1>14 DEF Accept
<1>15. ASSUME NEW t \in Tx, Reject(t) PROVE Types'
  BY <1>15 DEF Reject
<1>16. ASSUME NEW success \in BOOLEAN, EndDeployment(success) PROVE Types'
  BY <1>16 DEF EndDeployment
<1>17. CASE UNCHANGED vars
  BY <1>17 DEF vars
<1> QED BY <1>1, <1>2, <1>3, <1>4, <1>5, <1>6, <1>7, <1>8, <1>9, <1>10, <1>11,
           <1>12, <1>13, <1>14, <1>15, <1>16, <1>17 DEF Next

(* Every step that computes with a nonce has one (getNonce and             *)
(* increaseStoredNonce, whatever fails or is reset between).               *)
THEOREM TypeCorrect == Spec => []TypeOK
<1>1. Types => TypeOK
  BY DEF Types, TypeOK, Places, Statuses
<1> QED BY <1>1, InitTypes, NextTypes, PTL DEF Spec

---------------------------------------------------------------------------
(* An execution has sent nothing before it is past "send"; it runs alone;  *)
(* what it knows of the chain is old; and the nonce it is about to         *)
(* increase is behind what was sent, of which its own transaction is one.  *)
Alone == \A t, u \in Tx : Busy(t) /\ Busy(u) => t = u
Unsent ==
    \A t \in Tx : pc[t] \in {"idle", "chain", "stored", "store", "deploy", "send"} =>
        status[t] = "none"
Behind ==
    \A t \in Tx :
        /\ pc[t] \in {"stored", "store"} => answer[t] <= chain
        /\ pc[t] = "increase" /\ stored # None => stored < chain + Cardinality(Backing)
        /\ pc[t] = "increased" => read[t] < chain + Cardinality(Backing)
Inv == Types /\ Alone /\ Unsent /\ Behind /\ StoredIsBacked

LEMMA BackingIsFinite == IsFiniteSet(Backing) /\ Cardinality(Backing) \in Nat
BY TxAssumption, FS_Subset, FS_CardinalityType DEF Backing

LEMMA InitInv == Init => Inv
BY InitTypes DEF Init, Inv, Alone, Busy, Unsent, Behind, StoredIsBacked

LEMMA LessThanMore ==
    ASSUME NEW n \in Nat, NEW a \in Nat, NEW b \in Nat, NEW c \in Nat, NEW d \in Nat, a + b <= c + d
    PROVE  /\ n <= a + b => n <= c + d
           /\ n < a + b => n < c + d
           /\ n <= a + b /\ a + b < c + d => n < c + d
OBVIOUS

(* A step that leaves the stored nonce alone or forgets it, and after      *)
(* which the chain and what was sent are no less.                          *)
LEMMA GrowsBacked ==
    ASSUME Inv, Types', stored' = stored \/ stored' = None,
           chain + Cardinality(Backing) <= chain' + Cardinality(Backing'), chain <= chain',
           \A t \in Tx :
               /\ pc'[t] \in {"stored", "store"} =>
                      \/ pc[t] \in {"stored", "store"} /\ answer'[t] = answer[t]
                      \/ answer'[t] = chain
               /\ pc'[t] = "increase" =>
                      \/ pc[t] = "increase"
                      \/ chain + Cardinality(Backing) < chain' + Cardinality(Backing')
               /\ pc'[t] = "increased" =>
                      \/ pc[t] = "increased" /\ read'[t] = read[t]
                      \/ pc[t] = "increase" /\ stored # None /\ read'[t] = stored
    PROVE  Behind' /\ StoredIsBacked'
<1> DEFINE b == Cardinality(Backing)  c == Cardinality(Backing')
<1>1. b \in Nat
  BY BackingIsFinite
<1>2. c \in Nat
  BY TxAssumption, FS_Subset, FS_CardinalityType DEF Backing
<1> HIDE DEF b, c
<1>3. /\ chain \in Nat /\ chain' \in Nat /\ stored \in Nat \cup {None}
      /\ chain + b <= chain' + c /\ chain <= chain'
  BY DEF Inv, Types, b, c
<1>4. stored # None => stored <= chain + b
  BY DEF Inv, StoredIsBacked, b
<1>5. StoredIsBacked'
  <2>1. stored # None => stored <= chain' + c
    BY <1>1, <1>2, <1>3, <1>4, LessThanMore
  <2> QED BY <2>1 DEF StoredIsBacked, c
<1>6. ASSUME NEW t \in Tx
      PROVE  /\ pc'[t] \in {"stored", "store"} => answer'[t] <= chain'
             /\ pc'[t] = "increase" /\ stored' # None => stored' < chain' + c
             /\ pc'[t] = "increased" => read'[t] < chain' + c
  <2>1. /\ pc[t] \in {"stored", "store"} => answer[t] <= chain
        /\ pc[t] = "increase" /\ stored # None => stored < chain + b
        /\ pc[t] = "increased" => read[t] < chain + b
    BY DEF Inv, Behind, b
  <2>2. /\ pc[t] \in {"stored", "store"} => answer[t] \in Nat
        /\ pc[t] = "increased" => read[t] \in Nat
    BY DEF Inv, Types
  <2>3. pc'[t] \in {"stored", "store"} => answer'[t] <= chain'
    BY <1>3, <2>1, <2>2
  <2>4. pc[t] = "increase" /\ stored # None => stored < chain' + c
    BY <1>1, <1>2, <1>3, <2>1, LessThanMore
  <2>5. pc'[t] = "increase" /\ stored' # None => stored' < chain' + c
    <3>1. CASE chain + b < chain' + c
      <4>1. ASSUME stored # None PROVE stored \in Nat /\ stored <= chain + b
        BY <1>3, <1>4, <4>1
      <4>2. ASSUME stored # None PROVE stored < chain' + c
        BY <1>1, <1>2, <1>3, <3>1, <4>1, <4>2, LessThanMore
      <4> QED BY <4>2
    <3>2. CASE ~ (chain + b < chain' + c)
      BY <2>4, <3>2 DEF b, c
    <3> QED BY <3>1, <3>2
  <2>6. pc[t] = "increased" => read[t] < chain' + c
    BY <1>1, <1>2, <1>3, <2>1, <2>2, LessThanMore
  <2>7. pc'[t] = "increased" => read'[t] < chain' + c
    BY <2>4, <2>6
  <2> QED BY <2>3, <2>5, <2>7
<1> QED BY <1>5, <1>6 DEF Behind, c

(* The only busy execution stores a nonce that is backed, and goes on to   *)
(* where nothing more is at stake.                                         *)
LEMMA WritesBacked ==
    ASSUME Inv, NEW t \in Tx, Busy(t), NEW place \in {"send", "reset", "done"}, Go(t, place),
           UNCHANGED <<chain, given, status>>, stored' <= chain + Cardinality(Backing)
    PROVE  Behind' /\ StoredIsBacked'
<1>1. Backing' = Backing
  BY DEF Backing
<1>2. StoredIsBacked'
  BY <1>1 DEF StoredIsBacked
<1>3. \A u \in Tx : pc'[u] \notin {"stored", "store", "increase", "increased"}
  BY DEF Inv, Types, Alone, Busy, Go
<1> QED BY <1>2, <1>3 DEF Behind

(* At most one execution is under way, if they may not overlap.            *)
LEMMA NextAlone ==
    ASSUME ~ Overlap, Inv, [Next]_vars
    PROVE  Alone' /\ Unsent'
<1> USE DEF Inv, Types, At, Go, Busy, Alone, Unsent, Places, Statuses, locals, ext
<1>1. ASSUME NEW t \in Tx, NEW n \in Provided \cup {None}, Begin(t, n) PROVE Alone' /\ Unsent'
  BY <1>1 DEF Begin
<1>2. ASSUME NEW t \in Tx, FetchNonce(t) PROVE Alone' /\ Unsent'
  BY <1>2 DEF FetchNonce
<1>3. ASSUME NEW t \in Tx, ReadStored(t) PROVE Alone' /\ Unsent'
  BY <1>3 DEF ReadStored
<1>4. ASSUME NEW t \in Tx, StoreFetched(t) PROVE Alone' /\ Unsent'
  BY <1>4 DEF StoreFetched
<1>5. ASSUME NEW t \in Tx, Deploy(t) PROVE Alone' /\ Unsent'
  BY <1>5 DEF Deploy
<1>6. ASSUME NEW t \in Tx, Send(t) PROVE Alone' /\ Unsent'
  BY <1>6 DEF Send, Settle
<1>7. ASSUME NEW t \in Tx, Fail(t) PROVE Alone' /\ Unsent'
  BY <1>7 DEF Fail
<1>8. ASSUME NEW t \in Tx, ReadIncrease(t) PROVE Alone' /\ Unsent'
  BY <1>8 DEF ReadIncrease, Settle
<1>9. ASSUME NEW t \in Tx, WriteIncrease(t) PROVE Alone' /\ Unsent'
  BY <1>9 DEF WriteIncrease, Settle
<1>10. ASSUME NEW t \in Tx, ResetStored(t) PROVE Alone' /\ Unsent'
  BY <1>10 DEF ResetStored
<1>11. CASE TrackDeployed
  BY <1>11 DEF TrackDeployed
<1>12. ASSUME NEW t \in Tx, TrackRejected(t) PROVE Alone' /\ Unsent'
  BY <1>12 DEF TrackRejected
<1>13. CASE Quit
  BY <1>13 DEF Quit
<1>14. ASSUME NEW t \in Tx, Accept(t) PROVE Alone' /\ Unsent'
  BY <1>14 DEF Accept
<1>15. ASSUME NEW t \in Tx, Reject(t) PROVE Alone' /\ Unsent'
  BY <1>15 DEF Reject
<1>16. ASSUME NEW success \in BOOLEAN, EndDeployment(success) PROVE Alone' /\ Unsent'
  BY <1>16 DEF EndDeployment
<1>17. CASE UNCHANGED vars
  BY <1>17 DEF vars
<1> QED BY <1>1, <1>2, <1>3, <1>4, <1>5, <1>6, <1>7, <1>8, <1>9, <1>10, <1>11,
           <1>12, <1>13, <1>14, <1>15, <1>16, <1>17 DEF Next

(* What each step does to what was sent, and to what an execution knows.  *)
LEMMA NextBacked ==
    ASSUME ~ Overlap, Inv, [Next]_vars
    PROVE  Behind' /\ StoredIsBacked'
<1> USE DEF At, Go, locals, ext
<1>t. Types' /\ Types /\ Unsent
  BY NextTypes DEF Inv
<1>n. /\ chain \in Nat /\ Cardinality(Backing) \in Nat
      /\ chain + Cardinality(Backing) <= chain + Cardinality(Backing) /\ chain <= chain
  <2>1. chain \in Nat /\ Cardinality(Backing) \in Nat
    BY <1>t, BackingIsFinite DEF Types
  <2> QED BY <2>1
<1>k. ASSUME Backing' = Backing, chain' = chain
      PROVE  chain + Cardinality(Backing) <= chain' + Cardinality(Backing') /\ chain <= chain'
  BY <1>k, <1>n
<1>1. ASSUME NEW t \in Tx, NEW n \in Provided \cup {None}, Begin(t, n) PROVE Behind' /\ StoredIsBacked'
  <2>1. Backing' = Backing
    BY <1>1, <1>t DEF Begin, Backing, Types, Unsent
  <2> QED BY <1>1, <1>t, <1>k, <2>1, GrowsBacked DEF Begin, Types
<1>2. ASSUME NEW t \in Tx, FetchNonce(t) PROVE Behind' /\ StoredIsBacked'
  <2>1. Backing' = Backing
    BY <1>2 DEF FetchNonce, Backing
  <2> QED BY <1>2, <1>t, <1>k, <2>1, GrowsBacked DEF FetchNonce, Types
<1>3. ASSUME NEW t \in Tx, ReadStored(t) PROVE Behind' /\ StoredIsBacked'
  <2>1. Backing' = Backing
    BY <1>3 DEF ReadStored, Backing
  <2> QED BY <1>3, <1>t, <1>k, <2>1, GrowsBacked DEF ReadStored, Types
<1>4. ASSUME NEW t \in Tx, StoreFetched(t) PROVE Behind' /\ StoredIsBacked'
  <2>1. answer[t] \in Nat /\ answer[t] <= chain
    BY <1>4, <1>t DEF StoreFetched, Types, Inv, Behind
  <2>2. answer[t] <= chain + Cardinality(Backing)
    BY <1>n, <2>1
  <2> QED BY <1>4, <2>2, WritesBacked DEF StoreFetched, Busy
<1>5. ASSUME NEW t \in Tx, Deploy(t) PROVE Behind' /\ StoredIsBacked'
  <2>1. Backing' = Backing
    BY <1>5 DEF Deploy, Backing
  <2> QED BY <1>5, <1>t, <1>k, <2>1, GrowsBacked DEF Deploy, Types
<1>6. ASSUME NEW t \in Tx, Send(t) PROVE Behind' /\ StoredIsBacked'
  <2>1. CASE given[t] = None
    <3>1. Backing' = Backing \cup {t} /\ t \notin Backing
      BY <1>6, <1>t, <2>1 DEF Send, Backing, Types, Unsent
    <3>2. Cardinality(Backing') = Cardinality(Backing) + 1
      BY <3>1, BackingIsFinite, FS_AddElement
    <3>3. chain + Cardinality(Backing) < chain' + Cardinality(Backing') /\ chain <= chain'
      BY <1>6, <1>n, <3>2 DEF Send
    <3>4. chain + Cardinality(Backing) <= chain' + Cardinality(Backing')
      BY <1>6, <1>n, <3>2 DEF Send
    <3> QED BY <1>6, <1>t, <2>1, <3>3, <3>4, GrowsBacked DEF Send, Types
  <2>2. CASE given[t] # None
    <3>1. Backing' = Backing
      BY <1>6, <1>t, <2>2 DEF Send, Backing, Types
    <3> QED BY <1>6, <1>t, <1>k, <2>2, <3>1, GrowsBacked DEF Send, Settle, Types
  <2> QED BY <2>1, <2>2
<1>7. ASSUME NEW t \in Tx, Fail(t) PROVE Behind' /\ StoredIsBacked'
  <2>1. Backing' = Backing
    BY <1>7 DEF Fail, Backing
  <2> QED BY <1>7, <1>t, <1>k, <2>1, GrowsBacked DEF Fail, Types
<1>8. ASSUME NEW t \in Tx, ReadIncrease(t) PROVE Behind' /\ StoredIsBacked'
  <2>1. Backing' = Backing
    BY <1>8 DEF ReadIncrease, Backing
  <2> QED BY <1>8, <1>t, <1>k, <2>1, GrowsBacked DEF ReadIncrease, Settle, Types
<1>9. ASSUME NEW t \in Tx, WriteIncrease(t) PROVE Behind' /\ StoredIsBacked'
  <2>1. read[t] \in Nat /\ read[t] < chain + Cardinality(Backing)
    BY <1>9, <1>t DEF WriteIncrease, Types, Inv, Behind
  <2>2. read[t] + 1 <= chain + Cardinality(Backing)
    BY <1>n, <2>1
  <2> QED BY <1>9, <2>2, WritesBacked DEF WriteIncrease, Settle, Busy
<1>10. ASSUME NEW t \in Tx, ResetStored(t) PROVE Behind' /\ StoredIsBacked'
  <2>1. Backing' = Backing
    BY <1>10 DEF ResetStored, Backing
  <2> QED BY <1>10, <1>t, <1>k, <2>1, GrowsBacked DEF ResetStored, Types
<1>11. CASE TrackDeployed
  <2>1. Backing' = Backing
    BY <1>11 DEF TrackDeployed, Backing
  <2> QED BY <1>11, <1>t, <1>k, <2>1, GrowsBacked DEF TrackDeployed
<1>12. ASSUME NEW t \in Tx, TrackRejected(t) PROVE Behind' /\ StoredIsBacked'
  <2>1. Backing' = Backing
    BY <1>12, <1>t DEF TrackRejected, Backing, Types
  <2> QED BY <1>12, <1>t, <1>k, <2>1, GrowsBacked DEF TrackRejected
<1>13. CASE Quit
  <2>1. Backing' = Backing
    BY <1>13 DEF Quit, Backing
  <2> QED BY <1>13, <1>t, <1>k, <2>1, GrowsBacked DEF Quit, Busy, Types
<1>14. ASSUME NEW t \in Tx, Accept(t) PROVE Behind' /\ StoredIsBacked'
  <2>1. Backing' = Backing \ {t}
    BY <1>14, <1>t DEF Accept, Backing, Types
  <2>2. Cardinality(Backing') + 1 >= Cardinality(Backing) /\ Cardinality(Backing') \in Nat
    <3>1. /\ IsFiniteSet(Backing \ {t})
          /\ Cardinality(Backing \ {t}) =
                IF t \in Backing THEN Cardinality(Backing) - 1 ELSE Cardinality(Backing)
      BY BackingIsFinite, FS_RemoveElement
    <3>2. Cardinality(Backing \ {t}) \in Nat
      BY <3>1, FS_CardinalityType
    <3>3. Cardinality(Backing \ {t}) + 1 >= Cardinality(Backing)
      BY <1>n, <3>1, <3>2
    <3> QED BY <2>1, <3>2, <3>3
  <2>3. chain' = chain + 1
    BY <1>14 DEF Accept
  <2>4. chain + Cardinality(Backing) <= chain' + Cardinality(Backing') /\ chain <= chain'
    BY <1>n, <2>2, <2>3
  <2> QED BY <1>14, <1>t, <2>4, GrowsBacked DEF Accept
<1>15. ASSUME NEW t \in Tx, Reject(t) PROVE Behind' /\ StoredIsBacked'
  <2>1. Backing' = Backing
    BY <1>15, <1>t DEF Reject, Backing, Types
  <2> QED BY <1>15, <1>t, <1>k, <2>1, GrowsBacked DEF Reject
<1>16. ASSUME NEW success \in BOOLEAN, EndDeployment(success) PROVE Behind' /\ StoredIsBacked'
  <2>1. Backing' = Backing
    BY <1>16 DEF EndDeployment, Backing
  <2>2. chain <= chain' /\ chain' \in Nat
    BY <1>16 DEF EndDeployment
  <2>3. chain + Cardinality(Backing) <= chain' + Cardinality(Backing')
    BY <1>n, <2>1, <2>2
  <2> QED BY <1>16, <1>t, <2>2, <2>3, GrowsBacked DEF EndDeployment
<1>17. CASE UNCHANGED vars
  <2>1. Backing' = Backing
    BY <1>17 DEF vars, Backing
  <2> QED BY <1>17, <1>t, <1>k, <2>1, GrowsBacked DEF vars
<1> QED BY <1>1, <1>2, <1>3, <1>4, <1>5, <1>6, <1>7, <1>8, <1>9, <1>10, <1>11,
           <1>12, <1>13, <1>14, <1>15, <1>16, <1>17 DEF Next

(* With any requests failing, transactions rejected, upgrades, a           *)
(* deployment, nonces named by dapps and a browser that quits, the stored  *)
(* nonce is not ahead of the chain by more than was sent, if executions    *)
(* come one after the other.                                               *)
THEOREM StoredStaysBacked ==
    ASSUME ~ Overlap
    PROVE  Spec => []StoredIsBacked
<1>1. Inv /\ [Next]_vars => Inv'
  BY NextTypes, NextAlone, NextBacked DEF Inv
<1>2. Inv => StoredIsBacked
  BY DEF Inv
<1> QED BY <1>1, <1>2, InitInv, PTL DEF Spec
---------------------------------------------------------------------------
(* The nonces of a queue that nothing has disturbed.  What is sent waits   *)
(* for the chain with all the nonces from the chain's up to the next one,  *)
(* which is the stored nonce, or one more between the sending and the      *)
(* increase; and an execution that is about to send has just that nonce.   *)
NextNonce ==
    IF stored = None THEN chain
    ELSE IF \E t \in Tx : pc[t] \in {"increase", "increased"} THEN stored + 1
    ELSE stored

(* Whoever has asked the chain found the account deployed.                 *)
Known ==
    /\ needsDeploy \/ chain > 0
    /\ stored # None => chain > 0
    /\ \A t \in Tx :
          /\ answer[t] # None \/ pc[t] \in {"chain", "stored", "store", "increased"} => chain > 0
          /\ pc[t] \in {"idle", "chain", "deploy"} => answer[t] = None
          /\ pc[t] \in {"increase", "increased", "reset"} => status[t] # "none"
          /\ pc[t] = "reset" => t \in Upgrades

Settled ==
    \A t \in Tx :
        /\ status[t] = "RECEIVED" => chain <= nonce[t] /\ nonce[t] < NextNonce
        /\ status[t] = "ACCEPTED" => nonce[t] < chain
Filled ==
    \A n \in chain .. (NextNonce - 1) : \E u \in Tx : status[u] = "RECEIVED" /\ nonce[u] = n
Prepared ==
    \A t \in Tx :
        /\ pc[t] \in {"stored", "store"} => answer[t] <= chain /\ (stored = None => answer[t] = chain)
        /\ pc[t] = "store" => stored = None /\ nonce[t] = answer[t]
        /\ pc[t] = "send" /\ given[t] = None /\ answer[t] # None => stored # None /\ nonce[t] = stored
        /\ pc[t] = "increase" => stored # None /\ nonce[t] = stored
        /\ pc[t] = "increased" => stored # None /\ read[t] = stored
Numbers == \A t \in Tx : status[t] # "none" => nonce[t] \in Nat
Chained ==
    /\ chain <= NextNonce
    /\ Settled /\ DistinctNonces /\ Filled /\ Prepared /\ Numbers
    /\ stored = None => \A t \in Tx : status[t] = "none"

(* What has disturbed the queue cannot be undone.                          *)
LEMMA UndisturbedBefore ==
    ASSUME Inv, Known, [Next]_vars, Undisturbed'
    PROVE  Undisturbed
<1> USE DEF Inv, Types, At, Go, Unsent, Places, Statuses, locals, ext, Undisturbed, Known
<1>1. ASSUME NEW t \in Tx, NEW n \in Provided \cup {None}, Begin(t, n) PROVE Undisturbed
  BY <1>1 DEF Begin
<1>2. ASSUME NEW t \in Tx, FetchNonce(t) PROVE Undisturbed
  BY <1>2 DEF FetchNonce
<1>3. ASSUME NEW t \in Tx, ReadStored(t) PROVE Undisturbed
  BY <1>3 DEF ReadStored
<1>4. ASSUME NEW t \in Tx, StoreFetched(t) PROVE Undisturbed
  BY <1>4 DEF StoreFetched
<1>5. ASSUME NEW t \in Tx, Deploy(t) PROVE Undisturbed
  BY <1>5 DEF Deploy
<1>6. ASSUME NEW t \in Tx, Send(t) PROVE Undisturbed
  BY <1>6 DEF Send, Settle
<1>7. ASSUME NEW t \in Tx, Fail(t) PROVE Undisturbed
  BY <1>7 DEF Fail
<1>8. ASSUME NEW t \in Tx, ReadIncrease(t) PROVE Undisturbed
  BY <1>8 DEF ReadIncrease, Settle
<1>9. ASSUME NEW t \in Tx, WriteIncrease(t) PROVE Undisturbed
  BY <1>9 DEF WriteIncrease, Settle
<1>10. ASSUME NEW t \in Tx, ResetStored(t) PROVE Undisturbed
  BY <1>10 DEF ResetStored
<1>11. CASE TrackDeployed
  BY <1>11 DEF TrackDeployed
<1>12. ASSUME NEW t \in Tx, TrackRejected(t) PROVE Undisturbed
  BY <1>12 DEF TrackRejected
<1>13. CASE Quit
  BY <1>13 DEF Quit
<1>14. ASSUME NEW t \in Tx, Accept(t) PROVE Undisturbed
  BY <1>14 DEF Accept
<1>15. ASSUME NEW t \in Tx, Reject(t) PROVE Undisturbed
  BY <1>15 DEF Reject
<1>16. ASSUME NEW success \in BOOLEAN, EndDeployment(success) PROVE Undisturbed
  BY <1>16 DEF EndDeployment
<1>17. CASE UNCHANGED vars
  BY <1>17 DEF vars
<1> QED BY <1>1, <1>2, <1>3, <1>4, <1>5, <1>6, <1>7, <1>8, <1>9, <1>10, <1>11,
           <1>12, <1>13, <1>14, <1>15, <1>16, <1>17 DEF Next

LEMMA NextKnown ==
    ASSUME ~ Overlap, Inv, Known, [Next]_vars
    PROVE  Known'
<1> USE DEF Inv, Types, At, Go, Unsent, Alone, Busy, Places, Statuses, locals, ext, Known
<1>1. ASSUME NEW t \in Tx, NEW n \in Provided \cup {None}, Begin(t, n) PROVE Known'
  BY <1>1 DEF Begin
<1>2. ASSUME NEW t \in Tx, FetchNonce(t) PROVE Known'
  BY <1>2 DEF FetchNonce
<1>3. ASSUME NEW t \in Tx, ReadStored(t) PROVE Known'
  BY <1>3 DEF ReadStored
<1>4. ASSUME NEW t \in Tx, StoreFetched(t) PROVE Known'
  BY <1>4 DEF StoreFetched
<1>5. ASSUME NEW t \in Tx, Deploy(t) PROVE Known'
  BY <1>5 DEF Deploy
<1>6. ASSUME NEW t \in Tx, Send(t) PROVE Known'
  BY <1>6 DEF Send, Settle
<1>7. ASSUME NEW t \in Tx, Fail(t) PROVE Known'
  BY <1>7 DEF Fail
<1>8. ASSUME NEW t \in Tx, ReadIncrease(t) PROVE Known'
  BY <1>8 DEF ReadIncrease, Settle
<1>9. ASSUME NEW t \in Tx, WriteIncrease(t) PROVE Known'
  BY <1>9 DEF WriteIncrease, Settle
<1>10. ASSUME NEW t \in Tx, ResetStored(t) PROVE Known'
  BY <1>10 DEF ResetStored
<1>11. CASE TrackDeployed
  BY <1>11 DEF TrackDeployed
<1>12. ASSUME NEW t \in Tx, TrackRejected(t) PROVE Known'
  BY <1>12 DEF TrackRejected
<1>13. CASE Quit
  BY <1>13 DEF Quit
<1>14. ASSUME NEW t \in Tx, Accept(t) PROVE Known'
  BY <1>14 DEF Accept
<1>15. ASSUME NEW t \in Tx, Reject(t) PROVE Known'
  BY <1>15 DEF Reject
<1>16. ASSUME NEW success \in BOOLEAN, EndDeployment(success) PROVE Known'
  BY <1>16 DEF EndDeployment
<1>17. CASE UNCHANGED vars
  BY <1>17 DEF vars
<1> QED BY <1>1, <1>2, <1>3, <1>4, <1>5, <1>6, <1>7, <1>8, <1>9, <1>10, <1>11,
           <1>12, <1>13, <1>14, <1>15, <1>16, <1>17 DEF Next

ChainInv == Inv /\ Known /\ (Undisturbed => Chained)

(* A step that touches nothing the queue is made of.                       *)
LEMMA SameChained ==
    ASSUME Chained, Types, UNCHANGED <<stored, chain, status, nonce, given, answer, read>>,
           \A t \in Tx : pc'[t] # pc[t] => pc'[t] \notin {"stored", "store", "send", "increase", "increased"}
                                           /\ pc[t] \notin {"increase", "increased"}
    PROVE  Chained'
<1>1. (\E t \in Tx : pc'[t] \in {"increase", "increased"}) <=> (\E t \in Tx : pc[t] \in {"increase", "increased"})
  OBVIOUS
<1>2. NextNonce' = NextNonce
  BY <1>1 DEF NextNonce
<1>3. DistinctNonces'
  BY DEF Chained, DistinctNonces, Numbered
<1> QED BY <1>2, <1>3 DEF Chained, Settled, Filled, Prepared, Numbers, Types

LEMMA NextNonceType == ASSUME Types PROVE NextNonce \in Nat /\ chain \in Nat
BY DEF Types, NextNonce

(* Which nonce is next, when one execution is under way.                   *)
LEMMA NextNonceAt ==
    ASSUME Inv, NEW t \in Tx, Busy(t), stored # None
    PROVE  NextNonce = IF pc[t] \in {"increase", "increased"} THEN stored + 1 ELSE stored
BY DEF Inv, Alone, Busy, NextNonce

LEMMA NextChained ==
    ASSUME ~ Overlap, ChainInv, Inv', [Next]_vars, Undisturbed, Undisturbed'
    PROVE  Chained'
<1> USE DEF At, Go, locals, ext
<1>a. Chained /\ Inv /\ Types /\ Types' /\ Known /\ Unsent /\ Alone /\ Alone'
  BY DEF ChainInv, Inv
<1>b. NextNonce \in Nat /\ chain \in Nat /\ NextNonce' \in Nat /\ chain' \in Nat
  <2>1. NextNonce' \in Nat /\ chain' \in Nat
    <3>1. stored' \in Nat \cup {None} /\ chain' \in Nat
      BY <1>a DEF Types
    <3>2. \A n \in Nat : n + 1 \in Nat
      OBVIOUS
    <3> QED BY <3>1, <3>2 DEF NextNonce
  <2> QED BY <1>a, <2>1, NextNonceType
<1>1. ASSUME NEW t \in Tx, NEW n \in Provided \cup {None}, Begin(t, n) PROVE Chained'
  <2>1. NextNonce' = NextNonce
    BY <1>1, <1>a DEF NextNonce, Begin, Types
  <2>2. status[t] = "none"
    BY <1>1, <1>a DEF Begin, Unsent
  <2>3. Settled' /\ DistinctNonces' /\ Filled' /\ Numbers'
    BY <1>1, <1>a, <2>1, <2>2 DEF Begin, Chained, Settled, DistinctNonces, Numbered, Filled, Numbers, Types
  <2>4. answer[t] = None
    BY <1>1, <1>a DEF Begin, Known
  <2>5. Prepared'
    BY <1>1, <1>a, <2>4 DEF Begin, Chained, Prepared, Types
  <2> QED BY <1>1, <1>a, <2>1, <2>3, <2>5 DEF Begin, Chained
<1>2. ASSUME NEW t \in Tx, FetchNonce(t) PROVE Chained'
  <2>1. NextNonce' = NextNonce
    BY <1>2, <1>a DEF NextNonce, FetchNonce, Types
  <2>2. Settled' /\ DistinctNonces' /\ Filled' /\ Numbers'
    BY <1>2, <1>a, <2>1 DEF FetchNonce, Chained, Settled, DistinctNonces, Numbered, Filled, Numbers
  <2>3. Prepared'
    BY <1>2, <1>a, <1>b DEF FetchNonce, Chained, Prepared, Types
  <2> QED BY <1>2, <1>a, <2>1, <2>2, <2>3 DEF FetchNonce, Chained
<1>3. ASSUME NEW t \in Tx, ReadStored(t) PROVE Chained'
  <2>1. NextNonce' = NextNonce
    BY <1>3, <1>a DEF NextNonce, ReadStored, Types
  <2>2. status[t] = "none"
    BY <1>3, <1>a DEF ReadStored, Unsent
  <2>3. Settled' /\ DistinctNonces' /\ Filled' /\ Numbers'
    BY <1>3, <1>a, <2>1, <2>2 DEF ReadStored, Chained, Settled, DistinctNonces, Numbered, Filled, Numbers, Types
  <2>4. ASSUME stored # None PROVE ~ (answer[t] > stored)
    <3>1. NextNonce = stored
      BY <1>3, <1>a, <2>4, NextNonceAt DEF ReadStored, Busy
    <3> QED BY <1>3, <1>a, <1>b, <3>1 DEF ReadStored, Chained, Prepared, Types
  <2>5. Prepared'
    BY <1>3, <1>a, <2>4 DEF ReadStored, Chained, Prepared, Types
  <2> QED BY <1>3, <1>a, <2>1, <2>3, <2>5 DEF ReadStored, Chained
<1>4. ASSUME NEW t \in Tx, StoreFetched(t) PROVE Chained'
  <2>1. stored = None /\ answer[t] = chain /\ stored' = chain /\ chain # None
    BY <1>4, <1>a, <1>b, NoneAssumption DEF StoreFetched, Chained, Prepared
  <2>2. NextNonce = chain
    BY <2>1 DEF NextNonce
  <2>3. \A u \in Tx : pc'[u] \notin {"chain", "stored", "store", "increase", "increased"}
    BY <1>4, <1>a DEF StoreFetched, Alone, Busy, Types
  <2>4. NextNonce' = NextNonce
    BY <2>1, <2>2, <2>3 DEF NextNonce
  <2>5. Settled' /\ DistinctNonces' /\ Filled' /\ Numbers'
    BY <1>4, <1>a, <2>4 DEF StoreFetched, Chained, Settled, DistinctNonces, Numbered, Filled, Numbers
  <2>6. \A u \in Tx : pc'[u] = "send" => u = t
    BY <1>4, <1>a DEF StoreFetched, Alone, Busy, Types
  <2>7. nonce[t] = answer[t]
    BY <1>4, <1>a DEF StoreFetched, Chained, Prepared
  <2>8. Prepared'
    BY <1>4, <1>a, <2>1, <2>3, <2>6, <2>7 DEF StoreFetched, Prepared
  <2> QED BY <1>4, <1>a, <2>1, <2>4, <2>5, <2>8 DEF StoreFetched, Chained
<1>5. ASSUME NEW t \in Tx, Deploy(t) PROVE Chained'
  <2>1. NextNonce' = NextNonce
    BY <1>5, <1>a DEF NextNonce, Deploy, Types
  <2>2. answer[t] = None
    BY <1>5, <1>a DEF Deploy, Known
  <2>3. Settled' /\ DistinctNonces' /\ Filled' /\ Numbers' /\ Prepared'
    BY <1>5, <1>a, <2>1, <2>2 DEF Deploy, Chained, Settled, DistinctNonces, Numbered, Filled, Numbers, Prepared, Types
  <2> QED BY <1>5, <1>a, <2>1, <2>3 DEF Deploy, Chained
<1>6. ASSUME NEW t \in Tx, Send(t) PROVE Chained'
  <2>1. given[t] = None /\ answer[t] # None /\ t \notin Upgrades /\ status[t] = "none"
    <3>1. status'[t] # "none" /\ status[t] = "none"
      BY <1>6, <1>a DEF Send, Types, Unsent
    <3> QED BY <1>6, <3>1 DEF Send, Undisturbed
  <2>2. stored # None /\ nonce[t] = stored /\ stored \in Nat /\ stored' = stored
    BY <1>6, <1>a, <2>1 DEF Send, Chained, Prepared, Types
  <2>3. NextNonce = stored
    BY <1>6, <1>a, <2>2, NextNonceAt DEF Send, Busy
  <2>4. NextNonce' = stored + 1
    BY <1>6, <1>a, <2>1, <2>2 DEF Send, NextNonce, Types
  <2>5. \A u \in Tx : u # t => status'[u] = status[u]
    BY <1>6, <1>a DEF Send, Types
  <2>6. status'[t] = "RECEIVED"
    BY <1>6, <1>a DEF Send, Types
  <2>7. chain' = chain /\ nonce' = nonce /\ given' = given /\ answer' = answer /\ read' = read
    BY <1>6 DEF Send
  <2>8. Settled'
    <3>1. ASSUME NEW u \in Tx, u # t
          PROVE  /\ status'[u] = "RECEIVED" => chain <= nonce[u] /\ nonce[u] < stored + 1
                 /\ status'[u] = "ACCEPTED" => nonce[u] < chain
      BY <1>a, <1>b, <2>2, <2>3, <2>5, <3>1 DEF Chained, Settled, Numbers
    <3>2. chain <= nonce[t] /\ nonce[t] < stored + 1
      BY <1>a, <2>2, <2>3 DEF Chained
    <3> QED BY <2>4, <2>6, <2>7, <3>1, <3>2 DEF Settled
  <2>9. ASSUME NEW u \in Tx, u # t, Numbered(u)' PROVE Numbered(u) /\ nonce[u] # nonce[t]
    <3>1. Numbered(u)
      BY <2>5, <2>7, <2>9 DEF Numbered
    <3>2. nonce[u] < stored /\ nonce[u] \in Nat
      BY <1>a, <1>b, <2>2, <2>3, <3>1 DEF Numbered, Chained, Settled, Numbers
    <3> QED BY <2>2, <3>1, <3>2
  <2>10. DistinctNonces'
    BY <1>a, <2>7, <2>9 DEF DistinctNonces, Chained
  <2>11. Filled'
    <3>1. ASSUME NEW n \in chain .. stored PROVE \E u \in Tx : status'[u] = "RECEIVED" /\ nonce[u] = n
      <4>1. CASE n = stored
        BY <2>2, <2>6, <4>1
      <4>2. CASE n # stored
        <5>1. n \in chain .. (stored - 1)
          BY <1>b, <2>2, <4>2
        <5>2. PICK u \in Tx : status[u] = "RECEIVED" /\ nonce[u] = n
          BY <1>a, <2>3, <5>1 DEF Chained, Filled
        <5> QED BY <2>1, <2>5, <5>2
      <4> QED BY <4>1, <4>2
    <3>2. (stored + 1) - 1 = stored
      BY <2>2
    <3> QED BY <2>4, <2>7, <3>1, <3>2 DEF Filled
  <2>12. \A u \in Tx : pc'[u] \notin {"stored", "store", "send", "increased"}
    BY <1>6, <1>a, <2>1 DEF Send, Alone, Busy, Types
  <2>13. \A u \in Tx : pc'[u] = "increase" => u = t
    BY <1>6, <1>a, <2>1 DEF Send, Alone, Busy, Types
  <2>14. Prepared'
    BY <2>2, <2>7, <2>12, <2>13 DEF Prepared
  <2>15. Numbers'
    BY <1>a, <2>2, <2>5, <2>7 DEF Numbers, Chained
  <2>16. chain' <= NextNonce'
    BY <1>a, <1>b, <2>2, <2>3, <2>4, <2>7 DEF Chained
  <2> QED BY <2>2, <2>8, <2>10, <2>11, <2>14, <2>15, <2>16 DEF Chained
<1>7. ASSUME NEW t \in Tx, Fail(t) PROVE Chained'
  BY <1>7, <1>a, SameChained DEF Fail, Types
<1>8. ASSUME NEW t \in Tx, ReadIncrease(t) PROVE Chained'
  <2>1. stored # None
    BY <1>8, <1>a DEF ReadIncrease, Chained, Prepared
  <2>2. NextNonce' = NextNonce
    BY <1>8, <1>a, <2>1 DEF NextNonce, ReadIncrease, Types
  <2>3. Settled' /\ DistinctNonces' /\ Filled' /\ Numbers'
    BY <1>8, <1>a, <2>2 DEF ReadIncrease, Chained, Settled, DistinctNonces, Numbered, Filled, Numbers
  <2>4. Prepared'
    BY <1>8, <1>a, <2>1 DEF ReadIncrease, Chained, Prepared, Types
  <2> QED BY <1>8, <1>a, <2>1, <2>2, <2>3, <2>4 DEF ReadIncrease, Chained
<1>9. ASSUME NEW t \in Tx, WriteIncrease(t) PROVE Chained'
  <2>1. stored # None /\ read[t] = stored /\ stored \in Nat /\ stored' = stored + 1
    BY <1>9, <1>a DEF WriteIncrease, Chained, Prepared, Types
  <2>2. NextNonce = stored + 1
    BY <1>9, <1>a, <2>1, NextNonceAt DEF WriteIncrease, Busy
  <2>3. \A u \in Tx : pc'[u] \notin {"stored", "store", "send", "increase", "increased"}
    BY <1>9, <1>a DEF WriteIncrease, Settle, Alone, Busy, Types
  <2>4. NextNonce' = NextNonce
    BY <2>1, <2>2, <2>3, NoneAssumption DEF NextNonce
  <2>5. Settled' /\ DistinctNonces' /\ Filled' /\ Numbers'
    BY <1>9, <1>a, <2>4 DEF WriteIncrease, Chained, Settled, DistinctNonces, Numbered, Filled, Numbers
  <2>6. Prepared'
    BY <2>3 DEF Prepared
  <2>7. stored' # None
    BY <2>1, NoneAssumption
  <2> QED BY <1>9, <1>a, <2>4, <2>5, <2>6, <2>7 DEF WriteIncrease, Chained
<1>10. ASSUME NEW t \in Tx, ResetStored(t) PROVE Chained'
  <2>1. t \in Upgrades /\ status[t] # "none"
    BY <1>10, <1>a DEF ResetStored, Known
  <2> QED BY <2>1 DEF Undisturbed
<1>11. CASE TrackDeployed
  BY <1>11, <1>a, SameChained DEF TrackDeployed
<1>12. ASSUME NEW t \in Tx, TrackRejected(t) PROVE Chained'
  <2>1. status[t] = "REJECTED"
    BY <1>12 DEF TrackRejected
  <2> QED BY <2>1 DEF Undisturbed
<1>13. CASE Quit
  <2>1. quits = 0 /\ quits' = 0 /\ quits' = quits + 1
    BY <1>13 DEF Quit, Undisturbed
  <2> QED BY <2>1
<1>14. ASSUME NEW t \in Tx, Accept(t) PROVE Chained'
  <2>1. /\ status[t] = "RECEIVED" /\ nonce[t] = chain /\ chain' = chain + 1
        /\ status' = [status EXCEPT ![t] = "ACCEPTED"]
        /\ UNCHANGED <<stored, pc, given, answer, read, nonce>>
    BY <1>14 DEF Accept
  <2>2. NextNonce' = NextNonce /\ stored # None
    BY <1>a, <2>1 DEF NextNonce, Chained
  <2>3. chain < NextNonce /\ chain + 1 <= NextNonce
    <3>1. chain < NextNonce
      BY <1>a, <2>1 DEF Chained, Settled
    <3> QED BY <1>b, <3>1
  <2>4. ASSUME NEW u \in Tx, u # t, status[u] # "none" PROVE nonce[u] # chain
    <3>1. Numbered(u) /\ Numbered(t)
      BY <2>1, <2>4 DEF Numbered, Undisturbed
    <3> QED BY <1>a, <2>1, <2>4, <3>1 DEF Chained, DistinctNonces
  <2>5. status'[t] = "ACCEPTED" /\ \A u \in Tx : u # t => status'[u] = status[u]
    BY <1>a, <2>1 DEF Types
  <2>6. Settled'
    <3>1. ASSUME NEW u \in Tx, u # t
          PROVE  /\ status[u] = "RECEIVED" => chain + 1 <= nonce[u] /\ nonce[u] < NextNonce
                 /\ status[u] = "ACCEPTED" => nonce[u] < chain + 1
      <4>1. status[u] # "none" => nonce[u] \in Nat /\ nonce[u] # chain
        BY <1>a, <2>4, <3>1 DEF Chained, Numbers
      <4>2. /\ status[u] = "RECEIVED" => chain <= nonce[u] /\ nonce[u] < NextNonce
            /\ status[u] = "ACCEPTED" => nonce[u] < chain
        BY <1>a DEF Chained, Settled
      <4> QED BY <1>b, <4>1, <4>2
    <3>2. nonce[t] < chain + 1
      BY <1>b, <2>1
    <3> QED BY <2>1, <2>2, <2>5, <3>1, <3>2 DEF Settled
  <2>7. DistinctNonces' /\ Numbers'
    BY <1>a, <2>1, <2>5 DEF DistinctNonces, Numbers, Numbered, Chained
  <2>8. Filled'
    <3>1. ASSUME NEW n \in (chain + 1) .. (NextNonce - 1)
          PROVE  \E u \in Tx : status'[u] = "RECEIVED" /\ nonce[u] = n
      <4>1. n \in chain .. (NextNonce - 1) /\ n # chain
        BY <1>b
      <4>2. PICK u \in Tx : status[u] = "RECEIVED" /\ nonce[u] = n
        BY <1>a, <4>1 DEF Chained, Filled
      <4> QED BY <2>1, <2>5, <4>1, <4>2
    <3> QED BY <2>1, <2>2, <3>1 DEF Filled
  <2>9. Prepared'
    <3>1. \A u \in Tx : pc[u] \in {"stored", "store"} => answer[u] \in Nat
      BY <1>a DEF Types
    <3> QED BY <1>a, <1>b, <2>1, <2>2, <3>1 DEF Prepared, Chained
  <2> QED BY <2>1, <2>2, <2>3, <2>6, <2>7, <2>8, <2>9 DEF Chained
<1>15. ASSUME NEW t \in Tx, Reject(t) PROVE Chained'
  <2>1. status'[t] = "REJECTED"
    BY <1>15, <1>a DEF Reject, Types
  <2> QED BY <2>1 DEF Undisturbed
<1>16. ASSUME NEW success \in BOOLEAN, EndDeployment(success) PROVE Chained'
  <2>1. chain = 0 /\ stored = None /\ UNCHANGED <<stored, pc, locals, status>>
    BY <1>16, <1>a DEF EndDeployment, Known
  <2>2. \A t \in Tx : status[t] = "none" /\ pc[t] \notin {"stored", "store", "increase", "increased"}
    BY <1>a, <2>1 DEF Chained, Known, Prepared
  <2>3. NextNonce' = chain'
    BY <2>1 DEF NextNonce
  <2>4. Settled' /\ DistinctNonces' /\ Numbers' /\ Prepared'
    BY <1>a, <2>1, <2>2 DEF Settled, DistinctNonces, Numbered, Numbers, Prepared, Chained
  <2>5. Filled'
    <3>1. \A n \in Nat : n .. (n - 1) = {}
      OBVIOUS
    <3> QED BY <1>b, <2>3, <3>1 DEF Filled
  <2>6. chain' <= NextNonce'
    BY <1>b, <2>3
  <2> QED BY <2>1, <2>2, <2>4, <2>5, <2>6 DEF Chained
<1>17. CASE UNCHANGED vars
  BY <1>17, <1>a, SameChained DEF vars
<1> QED BY <1>1, <1>2, <1>3, <1>4, <1>5, <1>6, <1>7, <1>8, <1>9, <1>10, <1>11,
           <1>12, <1>13, <1>14, <1>15, <1>16, <1>17 DEF Next

LEMMA InitChained == Init => ChainInv
<1> SUFFICES ASSUME Init PROVE ChainInv
  OBVIOUS
<1>1. Inv
  BY InitInv
<1>2. Known
  BY FlagsAssumption DEF Init, Known
<1>3. NextNonce = chain /\ chain \in Nat
  BY <1>1 DEF Init, NextNonce, Inv, Types
<1>4. Filled
  BY <1>3 DEF Filled
<1>5. Chained
  BY <1>3, <1>4 DEF Init, Chained, Settled, DistinctNonces, Numbered, Prepared, Numbers
<1> QED BY <1>1, <1>2, <1>5 DEF ChainInv

(* Whatever fails, however far the chain has come at each step, and with   *)
(* any number of transactions: until the browser is closed, something is   *)
(* rejected, or something is sent that getNonce did not number or that     *)
(* upgrades the account, the nonces are distinct and leave no gap, if      *)
(* executions come one after the other.                                    *)
THEOREM QueueIsChained ==
    ASSUME ~ Overlap
    PROVE  Spec => []UndisturbedQueue
<1>1. ChainInv /\ [Next]_vars => ChainInv'
  <2> SUFFICES ASSUME ChainInv, [Next]_vars PROVE ChainInv'
    OBVIOUS
  <2>1. Inv' /\ Known'
    BY NextTypes, NextAlone, NextBacked, NextKnown DEF Inv, ChainInv
  <2>2. ASSUME Undisturbed' PROVE Chained'
    BY <2>1, <2>2, UndisturbedBefore, NextChained DEF ChainInv
  <2> QED BY <2>1, <2>2 DEF ChainInv
<1>2. ChainInv => UndisturbedQueue
  <2> SUFFICES ASSUME ChainInv, Undisturbed PROVE DistinctNonces /\ NoGap
    BY DEF UndisturbedQueue
  <2>1. Chained /\ Types
    BY DEF ChainInv, Inv
  <2>2. ASSUME NEW t \in Tx, status[t] = "RECEIVED", NEW n \in chain .. (nonce[t] - 1)
        PROVE  \E u \in Tx : status[u] = "RECEIVED" /\ nonce[u] = n
    <3>1. nonce[t] \in Nat /\ nonce[t] < NextNonce /\ NextNonce \in Nat /\ chain \in Nat
      BY <2>1, <2>2, NextNonceType DEF Chained, Settled, Numbers
    <3>2. n \in chain .. (NextNonce - 1)
      BY <3>1
    <3> QED BY <2>1, <3>2 DEF Chained, Filled
  <2> QED BY <2>1, <2>2 DEF Chained, NoGap
<1> QED BY <1>1, <1>2, InitChained, PTL DEF Spec

---------------------------------------------------------------------------
(* The tracker counts as everybody does.                                   *)
LEMMA SameCardinality == \A s : Tracker!Cardinality(s) = Cardinality(s)
BY DEF Tracker!Cardinality, Cardinality

(* The list of transactions.  Whatever a task has read, was answered, and  *)
(* will push has one entry of a transaction, with a status the chain has   *)
(* answered; and an update asks only for what is listed.                   *)
OneOfEach(entries) == \A e, f \in entries : e.tx = f.tx => e = f

Fits(x, answers) ==
    /\ x \in Tracker!Task
    /\ OneOfEach(x.values) /\ OneOfEach(x.list)
    /\ x.values \subseteq answers /\ x.list \subseteq answers
    /\ x.kind = "update" => \A t \in x.open : \E e \in answers : e.tx = t
    /\ \A e \in x.values : e.tx \notin x.open

Answers ==
    /\ \A e \in was : onChain[e.tx] # "none"
    /\ \A t \in Followed : onChain[t] # "none" => [tx |-> t, status |-> onChain[t]] \in was
    /\ \A t \in Followed : onChain[t] = "ACCEPTED_ON_L1" => [tx |-> t, status |-> "ACCEPTED_ON_L2"] \in was

ListInv ==
    /\ Tracker!TypeOK /\ ListedAsAnswered /\ Answers
    /\ \A k \in Tasks : Fits(task[k], was)

LEMMA InitList == Tracker!Init => ListInv
<1> SUFFICES ASSUME Tracker!Init PROVE ListInv
  OBVIOUS
<1>1. Fits(Tracker!Idle, was)
  BY DEF Fits, OneOfEach, Tracker!Idle, Tracker!Task, Tracker!Init
<1>2. Tracker!Idle \in Tracker!Task
  BY <1>1 DEF Fits
<1>3. Tracker!TypeOK
  BY <1>2 DEF Tracker!Init, Tracker!TypeOK
<1>4. ListedAsAnswered
  BY DEF Tracker!Init, ListedAsAnswered, Tracker!ListedAsAnswered, Tracker!OneEntryPerHash,
         Tracker!ListedWasAnswered
<1>5. Answers
  BY DEF Answers, Tracker!Init
<1> QED BY <1>1, <1>3, <1>4, <1>5 DEF ListInv, Tracker!Init

(* The statuses, by name.                                                  *)
LEMMA StatusIs ==
    /\ Tracker!Status = {"NOT_RECEIVED", "RECEIVED", "PENDING",
                         "ACCEPTED_ON_L2", "ACCEPTED_ON_L1", "REJECTED"}
    /\ Tracker!Accepted = {"ACCEPTED_ON_L2", "ACCEPTED_ON_L1"}
BY DEF Tracker!Status, Tracker!Accepted, Tracker!SUCCESS_STATUSES,
       Tracker!TRANSACTION_STATUSES_TO_TRACK

(* What the chain may answer next, by name.                                *)
LEMMA LaterIs ==
    ASSUME NEW c \in Tracker!Status \cup {"none"}, NEW s \in Tracker!Later[c]
    PROVE  /\ c \in Tracker!Status /\ s \in Tracker!Status
           /\ s = "ACCEPTED_ON_L1" => c = "ACCEPTED_ON_L2"
           /\ s \in Tracker!Reach[c]
           /\ \A d \in Tracker!Status : c \in Tracker!Reach[d] => s \in Tracker!Reach[d]
BY StatusIs DEF Tracker!Later, Tracker!Reach, Tracker!TRANSACTION_STATUSES_TO_TRACK

(* More answers fit as well.                                               *)
LEMMA FitsMore ==
    ASSUME NEW x, NEW answers, NEW more, Fits(x, answers), answers \subseteq more
    PROVE  Fits(x, more)
BY DEF Fits

(* A step of a task that leaves the list alone.                            *)
LEMMA TaskSteps ==
    ASSUME ListInv, NEW k \in Tasks, NEW x, Fits(x, was), task' = [task EXCEPT ![k] = x],
           overlapped' \in BOOLEAN,
           UNCHANGED <<onChain, store, toCheck, toShow, shown, notified, was>>
    PROVE  ListInv'
<1>1. x \in Tracker!Task
  BY DEF Fits
<1>2. Tracker!TypeOK'
  BY <1>1 DEF ListInv, Tracker!TypeOK
<1>3. \A j \in Tasks : Fits(task'[j], was)
  BY DEF ListInv, Tracker!TypeOK
<1> QED BY <1>2, <1>3 DEF ListInv, ListedAsAnswered, Tracker!ListedAsAnswered,
           Tracker!OneEntryPerHash, Tracker!ListedWasAnswered, Answers

(* What a task holds, written out.                                         *)
LEMMA TaskIs ==
    ASSUME NEW x \in Tracker!Task
    PROVE  /\ x = [kind |-> x.kind, at |-> x.at, old |-> x.old, open |-> x.open,
                   values |-> x.values, list |-> x.list]
           /\ x.kind \in {"add", "update", "history"} /\ x.at \in {"idle", "ask", "push", "write"}
           /\ x.old \in SUBSET Tracker!Entry /\ x.open \in SUBSET Followed
           /\ x.values \in SUBSET Tracker!Entry /\ x.list \in SUBSET Tracker!Entry
BY DEF Tracker!Task

LEMMA EntryIs ==
    ASSUME NEW e \in Tracker!Entry
    PROVE  e.tx \in Followed /\ e.status \in Tracker!Status /\ e = [tx |-> e.tx, status |-> e.status]
BY DEF Tracker!Entry

(* Merging leaves one entry of a transaction; so at most one has changed   *)
(* its status.                                                             *)
LEMMA MergeIsOneOfEach ==
    ASSUME NEW list, NEW values, OneOfEach(list), OneOfEach(values)
    PROVE  OneOfEach(Tracker!Merge(list, values))
BY DEF OneOfEach, Tracker!Merge

Seen(old, new, t) ==
    {e \in Tracker!Changed(old, new) :
        e.tx = t /\ e.status \in Tracker!SUCCESS_STATUSES \cup {"REJECTED"}}

LEMMA OneIsSeen ==
    ASSUME NEW old, NEW new, NEW t, OneOfEach(new)
    PROVE  Cardinality(Seen(old, new, t)) \in {0, 1}
<1>1. CASE Seen(old, new, t) = {}
  BY <1>1, FS_EmptySet
<1>2. CASE Seen(old, new, t) # {}
  <2>1. PICK e \in Seen(old, new, t) : TRUE
    BY <1>2
  <2>2. Seen(old, new, t) = {e}
    BY <2>1 DEF Seen, OneOfEach, Tracker!Changed
  <2> QED BY <2>2, FS_Singleton
<1> QED BY <1>1, <1>2

LEMMA NextList ==
    ASSUME ListInv, [Tracker!Next]_(Tracker!vars)
    PROVE  ListInv'
<1> USE DEF ListInv
<1>0. \A k \in Tasks : task[k] \in Tracker!Task /\ Fits(task[k], was)
  BY DEF Fits
<1>1. ASSUME NEW k \in Tasks, NEW t \in Followed, Tracker!Add(k, t) PROVE ListInv'
  <2> DEFINE e == [tx |-> t, status |-> "RECEIVED"]
             x == [kind |-> "add", at |-> "push", old |-> {}, open |-> {},
                   values |-> {e}, list |-> {}]
  <2>1. /\ task' = [task EXCEPT ![k] = x] /\ overlapped' \in BOOLEAN
        /\ onChain' = [onChain EXCEPT ![t] = "RECEIVED"] /\ was' = was \cup {e}
        /\ UNCHANGED <<store, toCheck, toShow, shown, notified>>
    BY <1>1 DEF Tracker!Add, Tracker!Start, Tracker!notices
  <2>2. e \in Tracker!Entry /\ e.tx = t
    BY StatusIs DEF Tracker!Entry
  <2>3. Fits(x, was')
    BY <2>1, <2>2 DEF Fits, Tracker!Task, OneOfEach
  <2> HIDE DEF x
  <2>4. \A j \in Tasks : Fits(task'[j], was')
    BY <2>1, <2>3, <1>0, FitsMore DEF Tracker!TypeOK
  <2>5. Tracker!TypeOK'
    BY <2>1, <2>2, <2>3, StatusIs DEF Tracker!TypeOK, Fits
  <2>6. ListedAsAnswered'
    BY <2>1 DEF ListedAsAnswered, Tracker!ListedAsAnswered, Tracker!OneEntryPerHash,
           Tracker!ListedWasAnswered
  <2>7. Answers'
    BY <2>1, <2>2 DEF Answers, Tracker!TypeOK
  <2> QED BY <2>4, <2>5, <2>6, <2>7
<1>2. ASSUME NEW k \in Tasks, Tracker!Update(k) PROVE ListInv'
  <2> DEFINE asks == {e.tx : e \in {f \in store : Tracker!InFlight(f)}}
             x == [kind |-> "update", at |-> "ask", old |-> store, open |-> asks,
                   values |-> {}, list |-> {}]
  <2>1. /\ task' = [task EXCEPT ![k] = x] /\ overlapped' \in BOOLEAN
        /\ UNCHANGED <<onChain, store, toCheck, toShow, shown, notified, was>>
    BY <1>2 DEF Tracker!Update, Tracker!Start, Tracker!notices
  <2>2. store \subseteq was /\ store \in SUBSET Tracker!Entry
    BY DEF ListedAsAnswered, Tracker!ListedAsAnswered, Tracker!ListedWasAnswered, Tracker!TypeOK
  <2>3. asks \in SUBSET Followed /\ \A t \in asks : \E e \in was : e.tx = t
    BY <2>2, EntryIs
  <2>4. Fits(x, was)
    <3> HIDE DEF asks
    <3> QED BY <2>2, <2>3 DEF Fits, Tracker!Task, OneOfEach
  <2> HIDE DEF x
  <2> QED BY <2>1, <2>4, TaskSteps
<1>3. ASSUME NEW k \in Tasks, Tracker!LoadHistory(k) PROVE ListInv'
  <2> DEFINE x == [kind |-> "history", at |-> "ask", old |-> store, open |-> Explored,
                   values |-> {}, list |-> {}]
  <2>1. /\ task' = [task EXCEPT ![k] = x] /\ overlapped' \in BOOLEAN
        /\ UNCHANGED <<onChain, store, toCheck, toShow, shown, notified, was>>
    BY <1>3 DEF Tracker!LoadHistory, Tracker!Start, Tracker!notices
  <2>2. store \in SUBSET Tracker!Entry /\ Explored \in SUBSET Followed
    BY TrackerAssumption DEF Tracker!TypeOK, Tracker!ConstantsOK
  <2>3. Fits(x, was)
    BY <2>2 DEF Fits, Tracker!Task, OneOfEach
  <2> HIDE DEF x
  <2> QED BY <2>1, <2>3, TaskSteps
<1>4. ASSUME NEW k \in Tasks, NEW t \in Followed, Tracker!StatusAnswered(k, t) PROVE ListInv'
  <2> DEFINE e == [tx |-> t, status |-> onChain[t]]
             x == [task[k] EXCEPT !.open = @ \ {t},
                                  !.values = IF e \in task[k].old THEN @ ELSE @ \cup {e}]
  <2>1. /\ task' = [task EXCEPT ![k] = x] /\ overlapped' \in BOOLEAN
        /\ UNCHANGED <<onChain, store, toCheck, toShow, shown, notified, was>>
        /\ task[k].kind = "update" /\ t \in task[k].open
    BY <1>4, <1>0, TaskIs DEF Tracker!StatusAnswered, Tracker!notices, Tracker!Asks, Tracker!TypeOK
  <2>2. e \in was /\ e \in Tracker!Entry /\ e.tx = t
    <3>1. onChain[t] # "none"
      BY <2>1, <1>0 DEF Fits, Answers
    <3> QED BY <3>1 DEF Answers, Tracker!TypeOK
  <2>3. Fits(x, was)
    <3>1. task[k] = [kind |-> task[k].kind, at |-> task[k].at, old |-> task[k].old,
                     open |-> task[k].open, values |-> task[k].values, list |-> task[k].list]
      BY <1>0, TaskIs
    <3>2. /\ x.kind = "update" /\ x.open = task[k].open \ {t} /\ x.list = task[k].list
          /\ x.values = IF e \in task[k].old THEN task[k].values ELSE task[k].values \cup {e}
      BY <3>1, <2>1
    <3>3. x \in Tracker!Task
      BY <3>1, <2>2, <1>0 DEF Tracker!Task
    <3> HIDE DEF x, e
    <3> QED BY <3>2, <3>3, <2>1, <2>2, <1>0 DEF Fits, OneOfEach
  <2> HIDE DEF x
  <2> QED BY <2>1, <2>3, TaskSteps
<1>5. ASSUME NEW k \in Tasks, NEW t \in Followed, Tracker!StatusFailed(k, t) PROVE ListInv'
  <2> DEFINE x == [task[k] EXCEPT !.open = @ \ {t}]
  <2>1. /\ task' = [task EXCEPT ![k] = x] /\ overlapped' \in BOOLEAN
        /\ UNCHANGED <<onChain, store, toCheck, toShow, shown, notified, was>>
    BY <1>5, <1>0, TaskIs DEF Tracker!StatusFailed, Tracker!notices, Tracker!TypeOK
  <2>2. Fits(x, was)
    BY <1>0, TaskIs DEF Fits, Tracker!Task
  <2> HIDE DEF x
  <2> QED BY <2>1, <2>2, TaskSteps
<1>6. ASSUME NEW k \in Tasks, Tracker!Settled(k) PROVE ListInv'
  <2> DEFINE x == [task[k] EXCEPT !.at = "push"]
  <2>1. /\ task' = [task EXCEPT ![k] = x] /\ overlapped' \in BOOLEAN
        /\ UNCHANGED <<onChain, store, toCheck, toShow, shown, notified, was>>
    BY <1>6, <1>0, TaskIs DEF Tracker!Settled, Tracker!notices, Tracker!TypeOK
  <2>2. Fits(x, was)
    BY <1>0, TaskIs DEF Fits, Tracker!Task
  <2> HIDE DEF x
  <2> QED BY <2>1, <2>2, TaskSteps
<1>7. ASSUME NEW k \in Tasks, Tracker!HistoryAnswered(k) PROVE ListInv'
  <2> DEFINE known == {t \in task[k].open : onChain[t] \in Tracker!Accepted}
             found == {[tx |-> t, status |-> "ACCEPTED_ON_L2"] : t \in known}
             x == [task[k] EXCEPT !.at = "push", !.open = {}, !.values = found]
  <2>1. /\ task' = [task EXCEPT ![k] = x] /\ overlapped' \in BOOLEAN
        /\ UNCHANGED <<onChain, store, toCheck, toShow, shown, notified, was>>
    BY <1>7, <1>0, TaskIs DEF Tracker!HistoryAnswered, Tracker!notices, Tracker!TypeOK
  <2>2. found \subseteq was /\ found \in SUBSET Tracker!Entry /\ OneOfEach(found)
    <3>1. known \subseteq Followed
      BY <1>0, TaskIs
    <3>2. \A t \in known : [tx |-> t, status |-> "ACCEPTED_ON_L2"] \in was
      BY <3>1 DEF Answers, Tracker!Accepted
    <3> QED BY <3>2 DEF OneOfEach, Tracker!TypeOK
  <2>3. Fits(x, was)
    <3> HIDE DEF found
    <3> QED BY <2>2, <1>0, TaskIs DEF Fits, Tracker!Task
  <2> HIDE DEF x
  <2> QED BY <2>1, <2>3, TaskSteps
<1>8. ASSUME NEW k \in Tasks, Tracker!HistoryFailed(k) PROVE ListInv'
  <2>1. /\ task' = [task EXCEPT ![k] = Tracker!Idle] /\ overlapped' \in BOOLEAN
        /\ UNCHANGED <<onChain, store, toCheck, toShow, shown, notified, was>>
    BY <1>8 DEF Tracker!HistoryFailed, Tracker!notices, Tracker!TypeOK
  <2>2. Fits(Tracker!Idle, was)
    BY DEF Fits, OneOfEach, Tracker!Idle, Tracker!Task
  <2> QED BY <2>1, <2>2, TaskSteps
<1>9. ASSUME NEW k \in Tasks, Tracker!PushReads(k) PROVE ListInv'
  <2> DEFINE x == [task[k] EXCEPT !.at = "write", !.list = store]
  <2>1. /\ task' = [task EXCEPT ![k] = x] /\ overlapped' \in BOOLEAN
        /\ UNCHANGED <<onChain, store, toCheck, toShow, shown, notified, was>>
    BY <1>9, <1>0, TaskIs DEF Tracker!PushReads, Tracker!notices, Tracker!TypeOK
  <2>2. store \in SUBSET Tracker!Entry /\ store \subseteq was /\ OneOfEach(store)
    BY DEF Tracker!TypeOK, ListedAsAnswered, Tracker!ListedAsAnswered,
           Tracker!OneEntryPerHash, Tracker!ListedWasAnswered, OneOfEach
  <2>3. Fits(x, was)
    BY <2>2, <1>0, TaskIs DEF Fits, Tracker!Task
  <2> HIDE DEF x
  <2> QED BY <2>1, <2>3, TaskSteps
<1>10. ASSUME NEW k \in Tasks, Tracker!PushWrites(k) PROVE ListInv'
  <2> DEFINE new == Tracker!Merge(task[k].list, task[k].values)
  <2>1. /\ store' = new /\ task' = [task EXCEPT ![k] = Tracker!Idle]
        /\ toCheck' = [t \in Followed |-> toCheck[t] + Cardinality(Seen(store, new, t))]
        /\ UNCHANGED <<onChain, toShow, shown, notified, was, overlapped>>
    <3>1. /\ store' = new /\ task' = [task EXCEPT ![k] = Tracker!Idle]
          /\ UNCHANGED <<onChain, toShow, shown, notified, was, overlapped>>
      BY <1>10 DEF Tracker!PushWrites
    <3>2. toCheck' = [t \in Followed |->
             toCheck[t] + Tracker!Cardinality({e \in Tracker!Changed(store, new) :
                 e.tx = t /\ e.status \in Tracker!SUCCESS_STATUSES \cup {"REJECTED"}})]
      BY <1>10, Zenon DEF Tracker!PushWrites
    <3> QED BY <3>1, <3>2, SameCardinality DEF Seen
  <2>2. OneOfEach(new) /\ new \subseteq was
    BY <1>0, MergeIsOneOfEach DEF Fits, Tracker!Merge
  <2>3. Fits(Tracker!Idle, was)
    BY DEF Fits, OneOfEach, Tracker!Idle, Tracker!Task
  <2>4. toCheck' \in [Followed -> Nat]
    <3>1. \A t \in Followed : Cardinality(Seen(store, new, t)) \in {0, 1}
      BY <2>2, OneIsSeen
    <3> HIDE DEF new
    <3> QED BY <2>1, <3>1 DEF Tracker!TypeOK
  <2> HIDE DEF new
  <2>5. Tracker!TypeOK'
    BY <2>1, <2>2, <2>3, <2>4 DEF Tracker!TypeOK, Fits
  <2>6. ListedAsAnswered'
    BY <2>1, <2>2 DEF ListedAsAnswered, Tracker!ListedAsAnswered, Tracker!OneEntryPerHash,
           Tracker!ListedWasAnswered, OneOfEach
  <2>7. \A j \in Tasks : Fits(task'[j], was)
    BY <2>1, <2>3 DEF Tracker!TypeOK
  <2> QED BY <2>1, <2>5, <2>6, <2>7 DEF Answers
<1>11. ASSUME NEW t \in Followed, Tracker!HasShown(t) \/ Tracker!Notify(t) PROVE ListInv'
  <2>1. Tracker!TypeOK'
    BY <1>11 DEF Tracker!HasShown, Tracker!Notify, Tracker!TypeOK
  <2>2. UNCHANGED <<onChain, store, task, was>>
    BY <1>11 DEF Tracker!HasShown, Tracker!Notify
  <2> QED BY <2>1, <2>2 DEF Answers, ListedAsAnswered, Tracker!ListedAsAnswered,
             Tracker!OneEntryPerHash, Tracker!ListedWasAnswered
<1>12. ASSUME NEW t \in Followed, Tracker!Progress(t) PROVE ListInv'
  <2>1. PICK s \in Tracker!Later[onChain[t]] :
           /\ onChain' = [onChain EXCEPT ![t] = s]
           /\ was' = was \cup {[tx |-> t, status |-> s]}
    BY <1>12 DEF Tracker!Progress
  <2>2. UNCHANGED <<store, task, toCheck, toShow, shown, notified, overlapped>>
    BY <1>12 DEF Tracker!Progress, Tracker!notices
  <2>3. s \in Tracker!Status
    BY <2>1, LaterIs DEF Tracker!TypeOK
  <2>4. [tx |-> t, status |-> s] \in Tracker!Entry
    BY <2>3 DEF Tracker!Entry
  <2>5. Tracker!TypeOK'
    BY <2>1, <2>2, <2>3, <2>4 DEF Tracker!TypeOK
  <2>6. Answers'
    <3>1. s # "none"
      BY <2>3, StatusIs
    <3>2. onChain[t] \in Tracker!Status \cup {"none"}
      BY DEF Tracker!TypeOK
    <3>3. s = "ACCEPTED_ON_L1" => onChain[t] = "ACCEPTED_ON_L2"
      BY <2>1, <3>2, LaterIs
    <3>4. "ACCEPTED_ON_L2" # "none"
      OBVIOUS
    <3> QED BY <2>1, <3>1, <3>3, <3>4 DEF Answers, Tracker!TypeOK
  <2>7. \A j \in Tasks : Fits(task'[j], was')
    BY <2>1, <2>2, <1>0, FitsMore
  <2> QED BY <2>1, <2>2, <2>5, <2>6, <2>7 DEF ListedAsAnswered, Tracker!ListedAsAnswered,
             Tracker!OneEntryPerHash, Tracker!ListedWasAnswered
<1>13. CASE UNCHANGED Tracker!vars
  BY <1>13 DEF Tracker!vars, Tracker!notices, Tracker!TypeOK, Answers, ListedAsAnswered,
     Tracker!ListedAsAnswered, Tracker!OneEntryPerHash, Tracker!ListedWasAnswered
<1> QED
  BY <1>1, <1>2, <1>3, <1>4, <1>5, <1>6, <1>7, <1>8, <1>9, <1>10, <1>11, <1>12, <1>13
  DEF Tracker!Next

(* However polls and history loads overlap and fail, the list has each     *)
(* transaction once, with a status the chain has answered.                 *)
THEOREM ListStaysAnswered == Tracker!Spec => []ListedAsAnswered
<1>1. ListInv => ListedAsAnswered
  BY DEF ListInv
<1> QED BY <1>1, InitList, NextList, PTL DEF Tracker!Spec

(* The tracker's variables keep their types.                               *)
THEOREM TrackerTypeCorrect == Tracker!Spec => []Tracker!TypeOK
<1>1. ListInv => Tracker!TypeOK
  BY DEF ListInv
<1> QED BY <1>1, InitList, NextList, PTL DEF Tracker!Spec

---------------------------------------------------------------------------
(* As long as nothing overlaps: what is listed is no later than the chain, *)
(* and what the one task will push is between the two; and a transaction   *)
(* is about to be announced at most once, and only if it was not before.   *)
AtMost(s, t) == t \in Tracker!Reach[s]

Between(x) ==
    /\ \A v \in x.values :
          /\ AtMost(v.status, onChain[v.tx])
          /\ \A e \in store : e.tx = v.tx =>
                \/ AtMost(e.status, v.status)
                \/ x.kind = "history" /\ e.status = "ACCEPTED_ON_L1" /\ v.status = "ACCEPTED_ON_L2"
    /\ x.at = "write" => x.list = store
    /\ \A t \in Followed : toCheck[t] = 0 /\ toShow[t] = 0

Noticed ==
    \A t \in Followed :
        /\ toCheck[t] + toShow[t] <= 1
        /\ t \in shown => toShow[t] = 0
        /\ notified[t] <= 1
        /\ notified[t] > 0 => t \in shown

Quiet ==
    /\ \A j, k \in Tasks : task[j].at # "idle" /\ task[k].at # "idle" => j = k
    /\ \A k \in Tasks : task[k].at # "idle" => Between(task[k])
    /\ \A e \in store : AtMost(e.status, onChain[e.tx])
    /\ Noticed

QuietInv == ListInv /\ (~ overlapped => Quiet)

LEMMA OrderIs ==
    /\ \A s \in Tracker!Status : AtMost(s, s) /\ AtMost("RECEIVED", s)
    /\ \A s \in Tracker!Status : \A c \in Tracker!Accepted :
          AtMost(s, c) => AtMost(s, "ACCEPTED_ON_L2") \/ s = "ACCEPTED_ON_L1"
    /\ \A c \in Tracker!Accepted : AtMost("ACCEPTED_ON_L2", c)
BY StatusIs DEF AtMost, Tracker!Reach, Tracker!TRANSACTION_STATUSES_TO_TRACK

LEMMA InitQuiet == Tracker!Init => QuietInv
<1> SUFFICES ASSUME Tracker!Init PROVE Quiet
  BY InitList DEF QuietInv
<1>1. \A k \in Tasks : task[k].at = "idle"
  BY DEF Tracker!Init, Tracker!Idle
<1> QED BY <1>1 DEF Quiet, Noticed, Tracker!Init

(* Whose tasks start alone.                                                *)
LEMMA StartsAlone ==
    ASSUME ListInv, NEW k \in Tasks, NEW kind, NEW old, NEW open, NEW values,
           Tracker!Start(k, kind, old, open, values), ~ overlapped'
    PROVE  /\ ~ overlapped
           /\ \A j \in Tasks : task[j].at = "idle"
           /\ \A t \in Followed : toCheck[t] = 0 /\ toShow[t] = 0
           /\ \A j \in Tasks \ {k} : task'[j] = task[j]
           /\ task'[k] = [kind |-> kind, at |-> IF kind = "add" THEN "push" ELSE "ask",
                          old |-> old, open |-> open, values |-> values, list |-> {}]
<1>1. ~ overlapped /\ (\A j \in Tasks : task[j].at = "idle")
      /\ \A t \in Followed : ~ (toCheck[t] + toShow[t] > 0)
  BY DEF Tracker!Start
<1>2. \A t \in Followed : toCheck[t] \in Nat /\ toShow[t] \in Nat
  BY DEF ListInv, Tracker!TypeOK
<1> QED BY <1>1, <1>2 DEF Tracker!Start, ListInv, Tracker!TypeOK

(* A step of the task that has started, before it writes.                  *)
LEMMA QuietSteps ==
    ASSUME ListInv, Quiet, NEW k \in Tasks, task[k].at # "idle",
           task' = [task EXCEPT ![k] = task'[k]],
           UNCHANGED <<onChain, store, toCheck, toShow, shown, notified>>,
           task'[k].at # "idle" /\ Between(task[k]) => Between(task'[k])
    PROVE  Quiet'
<1>1. \A j \in Tasks : j # k => task'[j] = task[j]
  BY DEF ListInv, Tracker!TypeOK
<1>2. \A j \in Tasks : j # k => task'[j].at = "idle"
  BY <1>1 DEF Quiet
<1>3. ASSUME task'[k].at # "idle" PROVE Between(task[k])'
  BY <1>3 DEF Quiet, Between
<1> QED BY <1>2, <1>3 DEF Quiet, Noticed

(* What has overlapped, has.                                               *)
LEMMA StaysOverlapped ==
    ASSUME Tracker!Next, overlapped
    PROVE  overlapped'
<1>1. ASSUME NEW k \in Tasks, NEW kind, NEW old, NEW open, NEW values,
             Tracker!Start(k, kind, old, open, values)
      PROVE  overlapped'
  BY <1>1 DEF Tracker!Start
<1>2. ASSUME NEW k \in Tasks, NEW t \in Followed, Tracker!Add(k, t) PROVE overlapped'
  BY <1>1, <1>2 DEF Tracker!Add
<1>3. ASSUME NEW k \in Tasks, Tracker!Update(k) \/ Tracker!LoadHistory(k) PROVE overlapped'
  BY <1>1, <1>3 DEF Tracker!Update, Tracker!LoadHistory
<1>4. ASSUME NEW k \in Tasks, NEW t \in Followed,
             Tracker!StatusAnswered(k, t) \/ Tracker!StatusFailed(k, t)
      PROVE  overlapped'
  BY <1>4 DEF Tracker!StatusAnswered, Tracker!StatusFailed
<1>5. ASSUME NEW k \in Tasks,
             Tracker!Settled(k) \/ Tracker!HistoryAnswered(k) \/ Tracker!HistoryFailed(k)
                \/ Tracker!PushReads(k) \/ Tracker!PushWrites(k)
      PROVE  overlapped'
  BY <1>5 DEF Tracker!Settled, Tracker!HistoryAnswered, Tracker!HistoryFailed,
     Tracker!PushReads, Tracker!PushWrites
<1>6. ASSUME NEW t \in Followed, Tracker!HasShown(t) \/ Tracker!Notify(t) \/ Tracker!Progress(t)
      PROVE  overlapped'
  BY <1>6 DEF Tracker!HasShown, Tracker!Notify, Tracker!Progress
<1> QED BY <1>2, <1>3, <1>4, <1>5, <1>6 DEF Tracker!Next

(* What the chain gives next is later.                                     *)
LEMMA LaterIsMore ==
    ASSUME NEW c \in Tracker!Status \cup {"none"}, NEW s \in Tracker!Later[c]
    PROVE  c \in Tracker!Status /\ s \in Tracker!Status /\ AtMost(c, s)
BY LaterIs DEF AtMost

LEMMA NextQuiet ==
    ASSUME QuietInv, Tracker!Next, ~ overlapped'
    PROVE  Quiet' /\ Tracker!Forward
<1>0. ListInv /\ ~ overlapped /\ Quiet
  BY StaysOverlapped DEF QuietInv
<1>a. /\ \A e \in store : /\ e \in was /\ e.tx \in Followed /\ e.status \in Tracker!Status
                          /\ onChain[e.tx] \in Tracker!Status
      /\ \A k \in Tasks : task[k] \in Tracker!Task /\ Fits(task[k], was)
      /\ \A k \in Tasks : \A v \in task[k].values :
            v \in was /\ v.tx \in Followed /\ v.status \in Tracker!Status
            /\ onChain[v.tx] \in Tracker!Status
  <2>1. \A e \in was : e.tx \in Followed /\ e.status \in Tracker!Status
                       /\ onChain[e.tx] \in Tracker!Status
    BY <1>0, EntryIs DEF ListInv, Tracker!TypeOK, Answers
  <2> QED BY <2>1, <1>0 DEF ListInv, ListedAsAnswered, Tracker!ListedAsAnswered,
             Tracker!ListedWasAnswered, Fits
<1>b. ASSUME UNCHANGED store PROVE Tracker!Forward
  <2>1. \A e \in store : e.status \in Tracker!Reach[e.status]
    BY <1>a, OrderIs DEF AtMost
  <2> QED BY <2>1, <1>b DEF Tracker!Forward
<1>1. ASSUME NEW k \in Tasks, NEW t \in Followed, Tracker!Add(k, t)
      PROVE  Quiet' /\ UNCHANGED store
  <2> DEFINE e == [tx |-> t, status |-> "RECEIVED"]
  <2>1. /\ onChain[t] = "none" /\ onChain' = [onChain EXCEPT ![t] = "RECEIVED"]
        /\ Tracker!Start(k, "add", {}, {}, {e})
        /\ UNCHANGED <<store, toCheck, toShow, shown, notified>>
    BY <1>1 DEF Tracker!Add, Tracker!notices
  <2>2. /\ \A j \in Tasks : task[j].at = "idle"
        /\ \A u \in Followed : toCheck[u] = 0 /\ toShow[u] = 0
        /\ \A j \in Tasks \ {k} : task'[j] = task[j]
        /\ task'[k] = [kind |-> "add", at |-> "push", old |-> {}, open |-> {},
                       values |-> {e}, list |-> {}]
    BY <2>1, <1>0, StartsAlone
  <2>3. \A f \in store : f.tx # t /\ onChain'[f.tx] = onChain[f.tx]
    BY <2>1, <1>a, <1>0 DEF ListInv, Answers, Tracker!TypeOK
  <2>4. onChain'[t] = "RECEIVED"
    BY <2>1, <1>0 DEF ListInv, Tracker!TypeOK
  <2>5. Between(task[k])'
    <3>1. AtMost("RECEIVED", "RECEIVED")
      BY OrderIs, StatusIs
    <3>2. e.tx = t /\ e.status = "RECEIVED" /\ task'[k].values = {e}
          /\ task'[k].at # "write"
      BY <2>2
    <3> HIDE DEF e
    <3> QED BY <2>1, <2>2, <2>3, <2>4, <3>1, <3>2 DEF Between
  <2> QED BY <2>1, <2>2, <2>3, <2>5, <1>0 DEF Quiet, Noticed
<1>2. ASSUME NEW k \in Tasks, Tracker!Update(k) \/ Tracker!LoadHistory(k)
      PROVE  Quiet' /\ UNCHANGED store
  <2>1. \E kind \in {"update", "history"} : \E open : Tracker!Start(k, kind, store, open, {})
    BY <1>2 DEF Tracker!Update, Tracker!LoadHistory
  <2>2. UNCHANGED <<onChain, store, toCheck, toShow, shown, notified>>
    BY <1>2 DEF Tracker!Update, Tracker!LoadHistory, Tracker!notices
  <2>3. /\ \A j \in Tasks : task[j].at = "idle"
        /\ \A u \in Followed : toCheck[u] = 0 /\ toShow[u] = 0
        /\ \A j \in Tasks \ {k} : task'[j] = task[j]
        /\ task'[k].at = "ask" /\ task'[k].values = {}
    <3>1. PICK kind \in {"update", "history"} : \E open : Tracker!Start(k, kind, store, open, {})
      BY <2>1
    <3>2. PICK open : Tracker!Start(k, kind, store, open, {})
      BY <3>1
    <3>3. /\ \A j \in Tasks : task[j].at = "idle"
          /\ \A u \in Followed : toCheck[u] = 0 /\ toShow[u] = 0
          /\ \A j \in Tasks \ {k} : task'[j] = task[j]
          /\ task'[k] = [kind |-> kind, at |-> IF kind = "add" THEN "push" ELSE "ask",
                          old |-> store, open |-> open, values |-> {}, list |-> {}]
      BY <3>2, <1>0, StartsAlone
    <3> QED BY <3>3
  <2>4. Between(task[k])'
    BY <2>2, <2>3 DEF Between
  <2> QED BY <2>2, <2>3, <2>4, <1>0 DEF Quiet, Noticed
<1>3. ASSUME NEW k \in Tasks, NEW t \in Followed, Tracker!StatusAnswered(k, t)
      PROVE  Quiet' /\ UNCHANGED store
  <2> DEFINE e == [tx |-> t, status |-> onChain[t]]
  <2>1. /\ task[k].at = "ask" /\ t \in task[k].open
        /\ task'[k].at = "ask" /\ task'[k].values \subseteq task[k].values \cup {e}
        /\ task'[k].kind = task[k].kind
        /\ task' = [task EXCEPT ![k] = task'[k]]
        /\ UNCHANGED <<onChain, store, toCheck, toShow, shown, notified>>
    <3>1. task[k] = [kind |-> task[k].kind, at |-> task[k].at, old |-> task[k].old,
                     open |-> task[k].open, values |-> task[k].values, list |-> task[k].list]
      BY <1>a, TaskIs
    <3> QED BY <3>1, <1>3, <1>0 DEF Tracker!StatusAnswered, Tracker!Asks, Tracker!notices,
               ListInv, Tracker!TypeOK
  <2>2. \A f \in store : f.tx = t => AtMost(f.status, e.status)
    BY <1>0 DEF Quiet
  <2>3. AtMost(e.status, onChain[e.tx])
    <3>1. onChain[t] \in Tracker!Status
      <4>1. task[k].kind = "update"
        BY <1>3 DEF Tracker!StatusAnswered, Tracker!Asks
      <4>2. PICK f \in was : f.tx = t
        BY <4>1, <2>1, <1>a DEF Fits
      <4> QED BY <4>2, <1>0 DEF ListInv, Answers, Tracker!TypeOK
    <3> QED BY <3>1, OrderIs
  <2>4. e.tx = t
    OBVIOUS
  <2> HIDE DEF e
  <2>5. Between(task[k]) => Between(task'[k])
    BY <2>1, <2>2, <2>3, <2>4 DEF Between
  <2> QED BY <2>1, <2>5, <1>0, QuietSteps
<1>4. ASSUME NEW k \in Tasks, NEW t \in Followed, Tracker!StatusFailed(k, t)
      PROVE  Quiet' /\ UNCHANGED store
  <2>1. /\ task[k].at = "ask" /\ task'[k].at = "ask" /\ task'[k].values = task[k].values
        /\ task'[k].kind = task[k].kind
        /\ task' = [task EXCEPT ![k] = task'[k]]
        /\ UNCHANGED <<onChain, store, toCheck, toShow, shown, notified>>
    BY <1>4, <1>a, TaskIs, <1>0 DEF Tracker!StatusFailed, Tracker!Asks, Tracker!notices,
       ListInv, Tracker!TypeOK
  <2>2. Between(task[k]) => Between(task'[k])
    BY <2>1 DEF Between
  <2> QED BY <2>1, <2>2, <1>0, QuietSteps
<1>5. ASSUME NEW k \in Tasks, Tracker!Settled(k)
      PROVE  Quiet' /\ UNCHANGED store
  <2>1. /\ task[k].at = "ask" /\ task'[k].at = "push" /\ task'[k].values = task[k].values
        /\ task'[k].kind = task[k].kind
        /\ task' = [task EXCEPT ![k] = task'[k]]
        /\ UNCHANGED <<onChain, store, toCheck, toShow, shown, notified>>
    BY <1>5, <1>a, TaskIs, <1>0 DEF Tracker!Settled, Tracker!Asks, Tracker!notices,
       ListInv, Tracker!TypeOK
  <2>2. Between(task[k]) => Between(task'[k])
    BY <2>1 DEF Between
  <2> QED BY <2>1, <2>2, <1>0, QuietSteps
<1>6. ASSUME NEW k \in Tasks, Tracker!HistoryAnswered(k)
      PROVE  Quiet' /\ UNCHANGED store
  <2>1. /\ task[k].at = "ask" /\ task'[k].at = "push" /\ task'[k].kind = "history"
        /\ task'[k].values = {[tx |-> t, status |-> "ACCEPTED_ON_L2"] :
                                 t \in {u \in task[k].open : onChain[u] \in Tracker!Accepted}}
        /\ task' = [task EXCEPT ![k] = task'[k]]
        /\ UNCHANGED <<onChain, store, toCheck, toShow, shown, notified>>
    <3>1. task[k] = [kind |-> task[k].kind, at |-> task[k].at, old |-> task[k].old,
                     open |-> task[k].open, values |-> task[k].values, list |-> task[k].list]
      BY <1>a, TaskIs
    <3> QED BY <3>1, <1>6, <1>0 DEF Tracker!HistoryAnswered, Tracker!Asks, Tracker!notices,
               ListInv, Tracker!TypeOK
  <2>2. \A v \in task'[k].values : v.status = "ACCEPTED_ON_L2" /\ onChain[v.tx] \in Tracker!Accepted
    BY <2>1
  <2>3. \A v \in task'[k].values :
           /\ AtMost(v.status, onChain[v.tx])
           /\ \A e \in store : e.tx = v.tx =>
                 AtMost(e.status, v.status) \/ e.status = "ACCEPTED_ON_L1"
    BY <2>2, <1>a, <1>0, OrderIs DEF Quiet
  <2>4. Between(task[k]) => Between(task'[k])
    BY <2>1, <2>2, <2>3 DEF Between
  <2> QED BY <2>1, <2>4, <1>0, QuietSteps
<1>7. ASSUME NEW k \in Tasks, Tracker!HistoryFailed(k)
      PROVE  Quiet' /\ UNCHANGED store
  <2>1. /\ task[k].at = "ask" /\ task'[k].at = "idle"
        /\ task' = [task EXCEPT ![k] = task'[k]]
        /\ UNCHANGED <<onChain, store, toCheck, toShow, shown, notified>>
    BY <1>7, <1>0 DEF Tracker!HistoryFailed, Tracker!Asks, Tracker!notices, Tracker!Idle,
       ListInv, Tracker!TypeOK
  <2> QED BY <2>1, <1>0, QuietSteps
<1>8. ASSUME NEW k \in Tasks, Tracker!PushReads(k)
      PROVE  Quiet' /\ UNCHANGED store
  <2>1. /\ task[k].at = "push" /\ task'[k].values = task[k].values /\ task'[k].list = store
        /\ task'[k].kind = task[k].kind
        /\ task' = [task EXCEPT ![k] = task'[k]]
        /\ UNCHANGED <<onChain, store, toCheck, toShow, shown, notified>>
    <3>1. task[k] = [kind |-> task[k].kind, at |-> task[k].at, old |-> task[k].old,
                     open |-> task[k].open, values |-> task[k].values, list |-> task[k].list]
      BY <1>a, TaskIs
    <3> QED BY <3>1, <1>8, <1>0 DEF Tracker!PushReads, Tracker!notices, ListInv, Tracker!TypeOK
  <2>2. Between(task[k]) => Between(task'[k])
    BY <2>1 DEF Between
  <2> QED BY <2>1, <2>2, <1>0, QuietSteps
<1>9. ASSUME NEW k \in Tasks, Tracker!PushWrites(k)
      PROVE  Quiet' /\ Tracker!Forward
  <2> DEFINE values == task[k].values
             new == Tracker!Merge(store, values)
  <2>1. task[k].at = "write" /\ Between(task[k]) /\ task[k].list = store
    BY <1>9, <1>0 DEF Tracker!PushWrites, Quiet, Between
  <2>2. /\ store' = new /\ task' = [task EXCEPT ![k] = Tracker!Idle]
        /\ UNCHANGED <<onChain, toShow, shown, notified>>
    BY <1>9, <2>1 DEF Tracker!PushWrites
  <2>3. toCheck' = [t \in Followed |-> toCheck[t] + Cardinality(Seen(store, new, t))]
    <3>1. toCheck' = [t \in Followed |->
             toCheck[t] + Tracker!Cardinality({e \in Tracker!Changed(store, Tracker!Merge(task[k].list, values)) :
                 e.tx = t /\ e.status \in Tracker!SUCCESS_STATUSES \cup {"REJECTED"}})]
      BY <1>9, Zenon DEF Tracker!PushWrites
    <3> QED BY <3>1, <2>1, SameCardinality DEF Seen
  <2>4. new = {e \in store : \A v \in values : v.tx # e.tx} \cup values
    BY DEF Tracker!Merge
  <2>5. OneOfEach(new)
    BY <2>1, <1>a, MergeIsOneOfEach DEF Fits
  <2> HIDE DEF new
  <2>6. \A t \in Followed : toCheck'[t] \in {0, 1} /\ toShow'[t] = 0
    <3>1. \A t \in Followed : Cardinality(Seen(store, new, t)) \in {0, 1}
      BY <2>5, OneIsSeen
    <3>2. \A t \in Followed : toCheck[t] = 0 /\ toShow[t] = 0
      BY <2>1 DEF Between
    <3> QED BY <2>2, <2>3, <3>1, <3>2
  <2>7. Tracker!Forward
    <3>1. ASSUME NEW e \in store
          PROVE  \E f \in new :
                    /\ f.tx = e.tx
                    /\ \/ f.status \in Tracker!Reach[e.status]
                       \/ \E j \in DOMAIN task :
                             task[j].at = "write" /\ Tracker!Relisted(j, e.status, f.status)
      <4>1. CASE \E v \in values : v.tx = e.tx
        <5>1. PICK v \in values : v.tx = e.tx
          BY <4>1
        <5>2. \/ AtMost(e.status, v.status)
              \/ /\ task[k].kind = "history"
                 /\ e.status = "ACCEPTED_ON_L1" /\ v.status = "ACCEPTED_ON_L2"
          BY <5>1, <2>1 DEF Between
        <5>3. v \in new /\ k \in DOMAIN task
          BY <5>1, <2>4, <1>0 DEF ListInv, Tracker!TypeOK
        <5> QED BY <5>1, <5>2, <5>3, <2>1 DEF AtMost, Tracker!Relisted
      <4>2. CASE \A v \in values : v.tx # e.tx
        <5>1. e.status \in Tracker!Reach[e.status]
          BY <1>a, OrderIs DEF AtMost
        <5> QED BY <4>2, <5>1, <2>4
      <4> QED BY <4>1, <4>2
    <3> QED BY <3>1, <2>2 DEF Tracker!Forward
  <2>8. \A j \in Tasks : task'[j].at = "idle"
    BY <2>1, <2>2, <1>0 DEF Quiet, Tracker!Idle, ListInv, Tracker!TypeOK
  <2>9. \A e \in store' : AtMost(e.status, onChain'[e.tx])
    BY <2>1, <2>2, <2>4, <1>0 DEF Quiet, Between
  <2>10. Noticed'
    BY <2>2, <2>6, <1>0 DEF Quiet, Noticed
  <2> QED BY <2>7, <2>8, <2>9, <2>10 DEF Quiet
<1>10. ASSUME NEW t \in Followed, Tracker!HasShown(t) \/ Tracker!Notify(t)
       PROVE  Quiet' /\ UNCHANGED store
  <2>1. /\ UNCHANGED <<onChain, store, task>>
        /\ toCheck[t] > 0 \/ toShow[t] > 0
    BY <1>10 DEF Tracker!HasShown, Tracker!Notify
  <2>2. \A k \in Tasks : task[k].at = "idle"
    BY <2>1, <1>0 DEF Quiet, Between
  <2>3. Noticed'
    <3>1. \A u \in Followed : toCheck[u] \in Nat /\ toShow[u] \in Nat /\ notified[u] \in Nat
      BY <1>0 DEF ListInv, Tracker!TypeOK
    <3>2. CASE Tracker!HasShown(t)
      BY <3>1, <3>2, <1>0 DEF Quiet, Noticed, Tracker!HasShown, ListInv, Tracker!TypeOK
    <3>3. CASE Tracker!Notify(t)
      BY <3>1, <3>3, <1>0 DEF Quiet, Noticed, Tracker!Notify, ListInv, Tracker!TypeOK
    <3> QED BY <1>10, <3>2, <3>3
  <2> QED BY <2>1, <2>2, <2>3, <1>0 DEF Quiet
<1>11. ASSUME NEW t \in Followed, Tracker!Progress(t)
       PROVE  Quiet' /\ UNCHANGED store
  <2>1. PICK s \in Tracker!Later[onChain[t]] : onChain' = [onChain EXCEPT ![t] = s]
    BY <1>11 DEF Tracker!Progress
  <2>2. UNCHANGED <<store, task, toCheck, toShow, shown, notified>>
    BY <1>11 DEF Tracker!Progress, Tracker!notices
  <2>3. \A c \in Tracker!Status : \A u \in Followed :
           onChain[u] \in Tracker!Status /\ AtMost(c, onChain[u]) => AtMost(c, onChain'[u])
    <3>1. s \in Tracker!Status /\ AtMost(onChain[t], s) /\ onChain[t] \in Tracker!Status
      BY <2>1, LaterIsMore, <1>0 DEF ListInv, Tracker!TypeOK
    <3>2. \A d \in Tracker!Status : AtMost(d, onChain[t]) => AtMost(d, s)
      BY <2>1, LaterIs, <1>0 DEF ListInv, Tracker!TypeOK, AtMost
    <3> QED BY <2>1, <3>1, <3>2, <1>0 DEF ListInv, Tracker!TypeOK
  <2>4. \A e \in store : AtMost(e.status, onChain'[e.tx])
    BY <2>3, <1>a, <1>0 DEF Quiet
  <2>5. ASSUME NEW k \in Tasks, task[k].at # "idle" PROVE Between(task[k])'
    BY <2>2, <2>3, <2>5, <1>a, <1>0 DEF Quiet, Between
  <2> QED BY <2>2, <2>4, <2>5, <1>0 DEF Quiet, Noticed
<1> QED
  BY <1>b, <1>1, <1>2, <1>3, <1>4, <1>5, <1>6, <1>7, <1>8, <1>9, <1>10, <1>11
  DEF Tracker!Next

LEMMA QuietInvariance ==
    ASSUME QuietInv, [Tracker!Next]_(Tracker!vars)
    PROVE  QuietInv'
<1>1. ListInv'
  BY NextList DEF QuietInv
<1>2. CASE Tracker!Next
  BY <1>1, <1>2, NextQuiet DEF QuietInv
<1>3. CASE UNCHANGED Tracker!vars
  <2>1. UNCHANGED <<onChain, store, task, toCheck, toShow, shown, notified, overlapped>>
    BY <1>3 DEF Tracker!vars, Tracker!notices
  <2> QED BY <1>1, <2>1 DEF QuietInv, Quiet, Between, Noticed
<1> QED BY <1>2, <1>3

(* As long as the tasks come one after the other, no transaction leaves    *)
(* the list and no status goes back, but from L1 to L2 by a history load,  *)
(* although history loads and polls alternate and answers are missing.     *)
THEOREM ListGoesForward == Tracker!Spec => OnlyForward
<1>1. QuietInv /\ [Tracker!Next]_(Tracker!vars) => QuietInv'
  BY QuietInvariance
<1>2. QuietInv /\ [Tracker!Next]_(Tracker!vars) => [~ overlapped' => Tracker!Forward]_(Tracker!vars)
  BY NextQuiet
<1> QED BY <1>1, <1>2, InitQuiet, PTL DEF Tracker!Spec, OnlyForward, Tracker!OnlyForward

(* As long, the user hears of a transaction at most once, although its     *)
(* status changes more than once after the first.                          *)
THEOREM NotifiesOnce == Tracker!Spec => []NotifiedOnce
<1>1. QuietInv /\ [Tracker!Next]_(Tracker!vars) => QuietInv'
  BY QuietInvariance
<1>2. QuietInv => NotifiedOnce
  BY DEF QuietInv, Quiet, Noticed, NotifiedOnce, Tracker!NotifiedOnce, ListInv, Tracker!TypeOK
<1> QED BY <1>1, <1>2, InitQuiet, PTL DEF Tracker!Spec
=============================================================================
