----------------------- MODULE SignatureServerProofs -----------------------
(* What SignatureServer guarantees for any users, transactions, snapshots  *)
(* and number of concurrent handlers, whatever fails.                      *)
EXTENDS SignatureServer, TLAPS

(* Recording a signature adds its signer and nobody else.                  *)
LEMMA ToSetAppend ==
    ASSUME NEW s \in Seq(Users), NEW u \in Users
    PROVE  /\ Append(s, u) \in Seq(Users)
           /\ ToSet(Append(s, u)) = ToSet(s) \cup {u}
<1> DEFINE a == Append(s, u)
<1>1. a \in Seq(Users) /\ Len(a) = Len(s) + 1 /\ Len(s) \in Nat
  OBVIOUS
<1>2. \A i \in 1 .. Len(s) : a[i] = s[i]
  OBVIOUS
<1>3. a[Len(s) + 1] = u
  OBVIOUS
<1>4. DOMAIN a = 1 .. (Len(s) + 1) /\ DOMAIN s = 1 .. Len(s)
  BY <1>1
<1> HIDE DEF a
<1>5. ToSet(a) \subseteq ToSet(s) \cup {u}
  BY <1>1, <1>2, <1>3, <1>4 DEF ToSet
<1>6. ToSet(s) \subseteq ToSet(a)
  <2> SUFFICES ASSUME NEW i \in DOMAIN s PROVE s[i] \in ToSet(a)
    BY DEF ToSet
  <2>1. i \in DOMAIN a /\ a[i] = s[i]
    BY <1>1, <1>2, <1>4
  <2> QED
    BY <2>1 DEF ToSet
<1>7. u \in ToSet(a)
  <2>1. Len(s) + 1 \in DOMAIN a
    BY <1>1, <1>4
  <2> QED
    BY <2>1, <1>3 DEF ToSet
<1> QED
  BY <1>1, <1>5, <1>6, <1>7 DEF a

LEMMA ToSetEmpty == ToSet(<<>>) = {}
BY DEF ToSet

(* The signers after AddSignature(r, u, t).                                *)
LEMMA RecordedSigners ==
    ASSUME TypeOK, NEW u \in Users, NEW t \in Txs
    PROVE  Recorded(u, t) \in Seq(Users) /\ ToSet(Recorded(u, t)) = Signed(t) \cup {u}
<1>1. signatures[t] \in Seq(Users)
  BY DEF TypeOK
<1> QED
  BY <1>1, ToSetAppend DEF Recorded, Signed

(* What the three steps that touch the users' lists do to each of them.    *)
LEMMA AppendedToLists ==
    ASSUME TypeOK, NEW t \in Txs, NEW snapshot \in Snapshots, InitTx(t, snapshot)
    PROVE  /\ pending' \in [Users -> [Txs -> Nat]]
           /\ \A v \in Users, x \in Txs :
                 pending'[v][x] = IF x = t /\ v \in DOMAIN snapshot.weights
                                  THEN pending[v][x] + 1 ELSE pending[v][x]
<1> DEFINE list(v) == IF v \in DOMAIN snapshot.weights
                      THEN [pending[v] EXCEPT ![t] = @ + 1] ELSE pending[v]
<1>1. pending' = [v \in Users |-> list(v)]
  BY DEF InitTx
<1>2. \A v \in Users : /\ list(v) \in [Txs -> Nat]
                       /\ \A x \in Txs : list(v)[x] =
                             IF x = t /\ v \in DOMAIN snapshot.weights
                             THEN pending[v][x] + 1 ELSE pending[v][x]
  BY DEF TypeOK
<1> HIDE DEF list
<1> QED
  BY <1>1, <1>2

LEMMA TakenOffList ==
    ASSUME TypeOK, NEW u \in Users, NEW t \in Txs, pending[u][t] > 0,
           pending' = [pending EXCEPT ![u][t] = @ - 1]
    PROVE  /\ pending' \in [Users -> [Txs -> Nat]]
           /\ \A v \in Users, x \in Txs :
                 pending'[v][x] = IF v = u /\ x = t THEN pending[v][x] - 1 ELSE pending[v][x]
<1> DEFINE list == [pending[u] EXCEPT ![t] = pending[u][t] - 1]
<1>1. pending' = [pending EXCEPT ![u] = list]
  OBVIOUS
<1>2. list \in [Txs -> Nat]
      /\ \A x \in Txs : list[x] = IF x = t THEN pending[u][x] - 1 ELSE pending[u][x]
  BY DEF TypeOK
<1>3. pending \in [Users -> [Txs -> Nat]]
  BY DEF TypeOK
<1> HIDE DEF list
<1> QED
  BY <1>1, <1>2, <1>3

LEMMA ClearedFromLists ==
    ASSUME TypeOK, NEW r \in Requests, Resume(r)
    PROVE  /\ pending' \in [Users -> [Txs -> Nat]]
           /\ \A v \in Users, x \in Txs :
                 pending'[v][x] = IF /\ x = handler[r].tx /\ handler[r].removes
                                     /\ v \in Members(x) /\ pending[v][x] > 0
                                  THEN pending[v][x] - 1 ELSE pending[v][x]
<1> DEFINE t == handler[r].tx
           goes(v) == handler[r].removes /\ v \in Members(t) /\ pending[v][t] > 0
           list(v) == IF goes(v) THEN [pending[v] EXCEPT ![t] = @ - 1] ELSE pending[v]
<1>1. pending' = [v \in Users |-> list(v)]
  BY DEF Resume
<1>2. t \in Txs
  BY DEF Resume, TypeOK, InFlight
<1>3. \A v \in Users : /\ list(v) \in [Txs -> Nat]
                       /\ \A x \in Txs : list(v)[x] =
                             IF x = t /\ goes(v) THEN pending[v][x] - 1 ELSE pending[v][x]
  <2> SUFFICES ASSUME NEW v \in Users
               PROVE  /\ list(v) \in [Txs -> Nat]
                      /\ \A x \in Txs : list(v)[x] =
                            IF x = t /\ goes(v) THEN pending[v][x] - 1 ELSE pending[v][x]
    OBVIOUS
  <2> DEFINE taken == pending[v][t] > 0
  <2>1. pending[v] \in [Txs -> Nat]
    BY DEF TypeOK
  <2>2. goes(v) => taken
    OBVIOUS
  <2> HIDE DEF goes, t
  <2> QED
    BY <1>2, <2>1, <2>2 DEF t
<1>4. \A v \in Users, x \in Txs : pending'[v][x] =
          IF x = t /\ goes(v) THEN pending[v][x] - 1 ELSE pending[v][x]
  <2> HIDE DEF list, goes, t
  <2> QED
    BY <1>1, <1>3
<1>5. pending' \in [Users -> [Txs -> Nat]]
  <2> HIDE DEF list
  <2> QED
    BY <1>1, <1>3
<1> QED
  BY <1>4, <1>5

---------------------------------------------------------------------------
LEMMA InitType == Init => TypeOK
BY BoundsAssumption DEF Init, TypeOK

LEMMA PostType ==
    ASSUME TypeOK, NEW r \in Requests, NEW t \in Txs, NEW signature \in Seq(Users),
           NEW force \in BOOLEAN, NEW removes \in BOOLEAN, Post(r, t, signature, force, removes)
    PROVE  handler' \in [Requests -> InFlight \cup {Idle}]
BY DEF TypeOK, Post, InFlight

LEMMA NextType == TypeOK /\ [Next]_vars => TypeOK'
<1> SUFFICES ASSUME TypeOK, [Next]_vars PROVE TypeOK'
  OBVIOUS
<1>1. ASSUME NEW t \in Txs, NEW snapshot \in Snapshots, InitTx(t, snapshot)
      PROVE  TypeOK'
  BY <1>1, AppendedToLists DEF InitTx, TypeOK
<1>2. ASSUME NEW r \in Requests, NEW u \in Users, NEW t \in Txs, AddSignature(r, u, t)
      PROVE  TypeOK'
  <2>1. Recorded(u, t) \in Seq(Users) /\ signatures' = [signatures EXCEPT ![t] = Recorded(u, t)]
    BY <1>2, RecordedSigners DEF AddSignature
  <2>2. signatures' \in [Txs -> Seq(Users)]
    BY <2>1 DEF TypeOK
  <2>3. pending' \in [Users -> [Txs -> Nat]]
    <3>1. pending' = pending \/ (pending[u][t] > 0 /\ pending' = [pending EXCEPT ![u][t] = @ - 1])
      BY <1>2 DEF AddSignature
    <3> QED
      BY <3>1, TakenOffList DEF TypeOK
  <2>4. handler' = handler \/ Post(r, t, Recorded(u, t), FALSE, TRUE)
    BY <1>2 DEF AddSignature
  <2>5. handler' \in [Requests -> InFlight \cup {Idle}]
    BY <2>1, <2>4, PostType DEF TypeOK
  <2> QED
    BY <1>2, <2>2, <2>3, <2>5 DEF AddSignature, TypeOK
<1>3. ASSUME NEW r \in Requests, NEW t \in Txs, NEW force \in BOOLEAN, SendTx(r, t, force)
      PROVE  TypeOK'
  <2>1. signatures[t] \in Seq(Users) /\ (Status(t) = "Ready") \in BOOLEAN
    BY DEF TypeOK
  <2>2. handler' \in [Requests -> InFlight \cup {Idle}]
    BY <1>3, <2>1, PostType DEF SendTx
  <2> QED
    BY <1>3, <2>2 DEF SendTx, TypeOK
<1>4. ASSUME NEW r \in Requests, GatewayReceives(r)
      PROVE  TypeOK'
  <2>1. handler[r] \in InFlight
    BY <1>4 DEF GatewayReceives, TypeOK
  <2>2. [handler[r] EXCEPT !.at = "answered"] \in InFlight /\ handler[r].tx \in Txs
    BY <2>1 DEF InFlight
  <2>3. handler' \in [Requests -> InFlight \cup {Idle}]
    BY <1>4, <2>2 DEF GatewayReceives, TypeOK
  <2>4. posts' \in [Txs -> Nat]
    BY <1>4, <2>2 DEF GatewayReceives, TypeOK
  <2> QED
    BY <1>4, <2>3, <2>4 DEF GatewayReceives, TypeOK
<1>5. ASSUME NEW r \in Requests, Resume(r)
      PROVE  TypeOK'
  <2>1. pending' \in [Users -> [Txs -> Nat]]
    BY <1>5, ClearedFromLists
  <2>2. sent' \in [Txs -> BOOLEAN] /\ handler' \in [Requests -> InFlight \cup {Idle}]
    BY <1>5 DEF Resume, TypeOK
  <2> QED
    BY <1>5, <2>1, <2>2 DEF Resume, TypeOK
<1>6. ASSUME NEW r \in Requests, PostFails(r)
      PROVE  TypeOK'
  <2>1. handler[r].tx \in Txs
    BY <1>6 DEF PostFails, TypeOK, InFlight
  <2> QED
    BY <1>6, <2>1 DEF PostFails, TypeOK
<1>7. CASE Restart
  BY <1>7, BoundsAssumption DEF Restart, TypeOK
<1>8. CASE UNCHANGED vars
  BY <1>8 DEF vars, TypeOK
<1> QED
  BY <1>1, <1>2, <1>3, <1>4, <1>5, <1>6, <1>7, <1>8 DEF Next

(* The server's dictionaries and its suspended handlers keep their shapes. *)
THEOREM TypeCorrect == Spec => []TypeOK
BY InitType, NextType, PTL DEF Spec
---------------------------------------------------------------------------
(* The inductive invariant.  SentIsNotPending needs that a handler without *)
(* force clears the lists, and PendingMeansUnsigned that a transaction the *)
(* server adds was signed by nobody, which is what HandlersMatch says.     *)
ServerInv ==
    /\ TypeOK
    /\ HandlersMatch
    /\ PendingMeansUnsigned
    /\ UnsignedStaysPending
    /\ SentIsNotPending
    /\ OnlyQuorumOrForcePosts

LEMMA InitInv == Init => ServerInv
BY InitType DEF Init, ServerInv, HandlersMatch, PendingMeansUnsigned, UnsignedStaysPending,
                SentIsNotPending, OnlyQuorumOrForcePosts, Known

LEMMA InitTxInv ==
    ASSUME ServerInv, NEW t \in Txs, NEW snapshot \in Snapshots, InitTx(t, snapshot), TypeOK'
    PROVE  ServerInv'
<1>1. TypeOK /\ HandlersMatch /\ PendingMeansUnsigned /\ UnsignedStaysPending
      /\ SentIsNotPending /\ OnlyQuorumOrForcePosts
  BY DEF ServerInv
<1>2. \A v \in Users, x \in Txs :
          pending'[v][x] = IF x = t /\ v \in DOMAIN snapshot.weights
                           THEN pending[v][x] + 1 ELSE pending[v][x]
  BY <1>1, AppendedToLists
<1>3. \A x \in Txs : txs'[x] = IF x = t THEN snapshot ELSE txs[x]
  BY <1>1 DEF InitTx, TypeOK
<1>4. ~Known(t) /\ Known(t)' /\ snapshot # NoTx
  BY <1>3, MarkersAssumption DEF InitTx, Known
<1>5. UNCHANGED <<signatures, sent, handler, forced>>
  BY DEF InitTx
<1>6. signatures[t] = <<>> /\ ~sent[t] /\ \A v \in Users : ~(pending[v][t] > 0)
  BY <1>1, <1>4 DEF HandlersMatch, PendingMeansUnsigned
<1>7. \A v \in Users : pending[v][t] = 0
  BY <1>1, <1>6 DEF TypeOK
<1>8. \A r \in Requests : handler[r] # Idle => handler[r].tx \in Txs /\ handler[r].tx # t
  BY <1>1, <1>4 DEF HandlersMatch, TypeOK, InFlight
<1>9. HandlersMatch'
  BY <1>1, <1>3, <1>4, <1>5, <1>8 DEF HandlersMatch, Known
<1>10. PendingMeansUnsigned'
  BY <1>1, <1>2, <1>3, <1>4, <1>5, <1>6, <1>7, ToSetEmpty
     DEF PendingMeansUnsigned, Known, Members, Signed
<1>11. UnsignedStaysPending'
  BY <1>1, <1>2, <1>3, <1>5, <1>7 DEF UnsignedStaysPending, Known, Members, Signed
<1>12. SentIsNotPending'
  BY <1>1, <1>2, <1>5, <1>6 DEF SentIsNotPending
<1>13. OnlyQuorumOrForcePosts'
  BY <1>1, <1>3, <1>5, <1>8 DEF OnlyQuorumOrForcePosts
<1> QED
  BY <1>9, <1>10, <1>11, <1>12, <1>13 DEF ServerInv

(* What a step that only starts a post leaves to show.                     *)
LEMMA PostedHandlers ==
    ASSUME TypeOK, HandlersMatch, OnlyQuorumOrForcePosts,
           NEW r \in Requests, NEW t \in Txs, NEW signature \in Seq(Users),
           NEW force \in BOOLEAN, NEW removes \in BOOLEAN,
           Post(r, t, signature, force, removes),
           Known(t), force \/ SignatureReady(txs[t], ToSet(signature)),
           removes \/ t \in forced', forced \subseteq forced', txs' = txs
    PROVE  /\ \A q \in Requests : handler'[q] # Idle =>
                 txs'[handler'[q].tx] # NoTx /\ (~handler'[q].removes => handler'[q].tx \in forced')
           /\ OnlyQuorumOrForcePosts'
<1> DEFINE h == [at |-> "gateway", tx |-> t, signature |-> signature,
                 force |-> force, removes |-> removes]
<1>1. \A q \in Requests : handler'[q] = IF q = r THEN h ELSE handler[q]
  BY DEF Post, TypeOK
<1>2. h.tx = t /\ h.signature = signature /\ h.force = force /\ h.removes = removes
  OBVIOUS
<1> HIDE DEF h
<1>3. \A q \in Requests : handler'[q] # Idle =>
          txs'[handler'[q].tx] # NoTx /\ (~handler'[q].removes => handler'[q].tx \in forced')
  BY <1>1, <1>2 DEF HandlersMatch, Known
<1>4. OnlyQuorumOrForcePosts'
  BY <1>1, <1>2 DEF OnlyQuorumOrForcePosts
<1> QED
  BY <1>3, <1>4

LEMMA AddSignatureInv ==
    ASSUME ServerInv, NEW r \in Requests, NEW u \in Users, NEW t \in Txs,
           AddSignature(r, u, t), TypeOK'
    PROVE  ServerInv'
<1>1. TypeOK /\ HandlersMatch /\ PendingMeansUnsigned /\ UnsignedStaysPending
      /\ SentIsNotPending /\ OnlyQuorumOrForcePosts
  BY DEF ServerInv
<1>2. Known(t) /\ u \in Members(t) /\ UNCHANGED <<txs, sent, forced>>
  BY DEF AddSignature
<1>3. /\ Recorded(u, t) \in Seq(Users)
      /\ ToSet(Recorded(u, t)) = Signed(t) \cup {u}
  BY <1>1, RecordedSigners
<1>4. \A x \in Txs : Signed(x)' = IF x = t THEN Signed(t) \cup {u} ELSE Signed(x)
  BY <1>1, <1>3 DEF AddSignature, TypeOK, Signed
<1>5. \A v \in Users, x \in Txs :
          pending'[v][x] = IF v = u /\ x = t /\ pending[v][x] > 0
                           THEN pending[v][x] - 1 ELSE pending[v][x]
  <2>1. CASE pending[u][t] = 0 /\ pending' = pending
    BY <2>1
  <2>2. CASE pending[u][t] > 0 /\ pending' = [pending EXCEPT ![u][t] = @ - 1]
    BY <1>1, <2>2, TakenOffList
  <2> QED
    BY <2>1, <2>2 DEF AddSignature
<1>6. PendingMeansUnsigned'
  BY <1>1, <1>2, <1>4, <1>5 DEF PendingMeansUnsigned, Known, Members
<1>7. UnsignedStaysPending'
  BY <1>1, <1>2, <1>4, <1>5 DEF UnsignedStaysPending, Known, Members
<1>8. SentIsNotPending'
  BY <1>1, <1>2, <1>5 DEF SentIsNotPending
<1>9. \A x \in Txs : ~Known(x)' => signatures'[x] = <<>> /\ ~sent'[x]
  <2>1. signatures' = [signatures EXCEPT ![t] = Recorded(u, t)]
    BY DEF AddSignature
  <2>2. \A x \in Txs : x # t => signatures'[x] = signatures[x]
    BY <1>1, <2>1 DEF TypeOK
  <2> QED
    BY <1>1, <1>2, <2>2 DEF HandlersMatch, Known
<1>10. CASE handler' = handler
  <2>1. HandlersMatch'
    BY <1>1, <1>2, <1>9, <1>10 DEF HandlersMatch, Known
  <2>2. OnlyQuorumOrForcePosts'
    BY <1>1, <1>2, <1>10 DEF OnlyQuorumOrForcePosts
  <2> QED
    BY <1>6, <1>7, <1>8, <2>1, <2>2 DEF ServerInv
<1>11. CASE /\ SignatureReady(txs[t], ToSet(Recorded(u, t)))
            /\ Post(r, t, Recorded(u, t), FALSE, TRUE)
  <2>1. /\ \A q \in Requests : handler'[q] # Idle =>
              txs'[handler'[q].tx] # NoTx /\ (~handler'[q].removes => handler'[q].tx \in forced')
        /\ OnlyQuorumOrForcePosts'
    BY <1>1, <1>2, <1>3, <1>11, PostedHandlers
  <2>2. HandlersMatch'
    BY <1>9, <2>1 DEF HandlersMatch, Known
  <2> QED
    BY <1>6, <1>7, <1>8, <2>1, <2>2 DEF ServerInv
<1> QED
  BY <1>10, <1>11 DEF AddSignature

LEMMA SendTxInv ==
    ASSUME ServerInv, NEW r \in Requests, NEW t \in Txs, NEW force \in BOOLEAN,
           SendTx(r, t, force), TypeOK'
    PROVE  ServerInv'
<1>1. TypeOK /\ HandlersMatch /\ PendingMeansUnsigned /\ UnsignedStaysPending
      /\ SentIsNotPending /\ OnlyQuorumOrForcePosts
  BY DEF ServerInv
<1>2. /\ Known(t) /\ UNCHANGED <<txs, signatures, sent, pending>>
      /\ forced \subseteq forced' /\ (force => t \in forced')
      /\ Post(r, t, signatures[t], force, Status(t) = "Ready")
      /\ force \/ Status(t) = "Ready"
  BY DEF SendTx
<1>3. signatures[t] \in Seq(Users) /\ (Status(t) = "Ready") \in BOOLEAN
  BY <1>1 DEF TypeOK
<1>4. Status(t) = "Ready" => SignatureReady(txs[t], ToSet(signatures[t]))
  BY DEF Status, Signed
<1>5. /\ \A q \in Requests : handler'[q] # Idle =>
            txs'[handler'[q].tx] # NoTx /\ (~handler'[q].removes => handler'[q].tx \in forced')
      /\ OnlyQuorumOrForcePosts'
  BY <1>1, <1>2, <1>3, <1>4, PostedHandlers
<1>6. HandlersMatch'
  <2>1. \A x \in Txs : ~Known(x)' => signatures'[x] = <<>> /\ ~sent'[x]
    BY <1>1, <1>2 DEF HandlersMatch, Known
  <2> QED
    BY <1>5, <2>1 DEF HandlersMatch, Known
<1>7. PendingMeansUnsigned' /\ UnsignedStaysPending' /\ SentIsNotPending'
  BY <1>1, <1>2
     DEF PendingMeansUnsigned, UnsignedStaysPending, SentIsNotPending, Known, Members, Signed
<1> QED
  BY <1>5, <1>6, <1>7 DEF ServerInv

LEMMA ResumeInv ==
    ASSUME ServerInv, NEW r \in Requests, Resume(r), TypeOK'
    PROVE  ServerInv'
<1> DEFINE t == handler[r].tx
<1>1. TypeOK /\ HandlersMatch /\ PendingMeansUnsigned /\ UnsignedStaysPending
      /\ SentIsNotPending /\ OnlyQuorumOrForcePosts
  BY DEF ServerInv
<1>2. t \in Txs /\ handler[r] # Idle /\ Known(t) /\ (~handler[r].removes => t \in forced)
  BY <1>1 DEF Resume, TypeOK, InFlight, HandlersMatch
<1>3. UNCHANGED <<txs, signatures, forced>>
  BY DEF Resume
<1>4. \A x \in Txs : sent'[x] = IF x = t THEN TRUE ELSE sent[x]
  BY <1>1 DEF Resume, TypeOK
<1>5. \A q \in Requests : handler'[q] = IF q = r THEN Idle ELSE handler[q]
  BY <1>1 DEF Resume, TypeOK
<1>6. \A v \in Users, x \in Txs :
          pending'[v][x] = IF /\ x = t /\ handler[r].removes
                              /\ v \in Members(x) /\ pending[v][x] > 0
                           THEN pending[v][x] - 1 ELSE pending[v][x]
  BY <1>1, ClearedFromLists
<1> HIDE DEF t
<1>7. HandlersMatch'
  BY <1>1, <1>2, <1>3, <1>4, <1>5 DEF HandlersMatch, Known
<1>8. PendingMeansUnsigned'
  BY <1>1, <1>3, <1>6 DEF PendingMeansUnsigned, Known, Members, Signed
<1>9. UnsignedStaysPending'
  BY <1>1, <1>3, <1>4, <1>6 DEF UnsignedStaysPending, Known, Members, Signed
<1>10. SentIsNotPending'
  <2> SUFFICES ASSUME NEW x \in Txs, sent'[x], x \notin forced', NEW v \in Users
               PROVE  pending'[v][x] = 0
    BY DEF SentIsNotPending
  <2>1. CASE x = t
    <3>1. handler[r].removes
      BY <1>2, <1>3, <2>1
    <3>2. pending[v][x] > 0 => pending[v][x] = 1 /\ v \in Members(x)
      BY <1>1 DEF PendingMeansUnsigned
    <3>3. pending[v][x] \in Nat
      BY <1>1 DEF TypeOK
    <3> QED
      BY <1>6, <2>1, <3>1, <3>2, <3>3
  <2>2. CASE x # t
    BY <1>1, <1>3, <1>4, <1>6, <2>2 DEF SentIsNotPending
  <2> QED
    BY <2>1, <2>2
<1>11. OnlyQuorumOrForcePosts'
  BY <1>1, <1>3, <1>5 DEF OnlyQuorumOrForcePosts
<1> QED
  BY <1>7, <1>8, <1>9, <1>10, <1>11 DEF ServerInv

LEMMA GatewayReceivesInv ==
    ASSUME ServerInv, NEW r \in Requests, GatewayReceives(r), TypeOK'
    PROVE  ServerInv'
<1>1. TypeOK /\ HandlersMatch /\ PendingMeansUnsigned /\ UnsignedStaysPending
      /\ SentIsNotPending /\ OnlyQuorumOrForcePosts
  BY DEF ServerInv
<1>2. UNCHANGED <<txs, signatures, sent, pending, forced>> /\ handler[r] # Idle
  BY DEF GatewayReceives
<1> DEFINE h == [handler[r] EXCEPT !.at = "answered"]
<1>3. h.tx = handler[r].tx /\ h.signature = handler[r].signature
      /\ h.force = handler[r].force /\ h.removes = handler[r].removes
  BY <1>1, <1>2 DEF TypeOK, InFlight
<1>4. \A q \in Requests : handler'[q] = IF q = r THEN h ELSE handler[q]
  BY <1>1 DEF GatewayReceives, TypeOK
<1> HIDE DEF h
<1>5. HandlersMatch'
  BY <1>1, <1>2, <1>3, <1>4 DEF HandlersMatch, Known
<1>6. OnlyQuorumOrForcePosts'
  BY <1>1, <1>2, <1>3, <1>4 DEF OnlyQuorumOrForcePosts
<1>7. PendingMeansUnsigned' /\ UnsignedStaysPending' /\ SentIsNotPending'
  BY <1>1, <1>2
     DEF PendingMeansUnsigned, UnsignedStaysPending, SentIsNotPending, Known, Members, Signed
<1> QED
  BY <1>5, <1>6, <1>7 DEF ServerInv

LEMMA PostFailsInv ==
    ASSUME ServerInv, NEW r \in Requests, PostFails(r), TypeOK'
    PROVE  ServerInv'
<1>1. TypeOK /\ HandlersMatch /\ PendingMeansUnsigned /\ UnsignedStaysPending
      /\ SentIsNotPending /\ OnlyQuorumOrForcePosts
  BY DEF ServerInv
<1>2. UNCHANGED <<txs, signatures, sent, pending, forced>>
  BY DEF PostFails
<1>3. \A q \in Requests : handler'[q] = IF q = r THEN Idle ELSE handler[q]
  BY <1>1 DEF PostFails, TypeOK
<1>4. HandlersMatch' /\ OnlyQuorumOrForcePosts'
  BY <1>1, <1>2, <1>3 DEF HandlersMatch, OnlyQuorumOrForcePosts, Known
<1>5. PendingMeansUnsigned' /\ UnsignedStaysPending' /\ SentIsNotPending'
  BY <1>1, <1>2
     DEF PendingMeansUnsigned, UnsignedStaysPending, SentIsNotPending, Known, Members, Signed
<1> QED
  BY <1>4, <1>5 DEF ServerInv

LEMMA NextInv == ServerInv /\ [Next]_vars => ServerInv'
<1> SUFFICES ASSUME ServerInv, [Next]_vars PROVE ServerInv'
  OBVIOUS
<1>1. TypeOK'
  BY NextType DEF ServerInv
<1>2. CASE Restart
  BY <1>1, <1>2 DEF Restart, ServerInv, HandlersMatch, PendingMeansUnsigned,
                    UnsignedStaysPending, SentIsNotPending, OnlyQuorumOrForcePosts, Known
<1>3. CASE UNCHANGED vars
  BY <1>3, <1>1 DEF vars, ServerInv, HandlersMatch, PendingMeansUnsigned, UnsignedStaysPending,
                    SentIsNotPending, OnlyQuorumOrForcePosts, Known, Members, Signed
<1> QED
  BY <1>1, <1>2, <1>3, InitTxInv, AddSignatureInv, SendTxInv, GatewayReceivesInv,
     ResumeInv, PostFailsInv DEF Next

LEMMA Invariance == Spec => []ServerInv
BY InitInv, NextInv, PTL DEF Spec

(* A user is asked for exactly the signatures that are still missing: for  *)
(* nothing unknown, foreign or signed already, and for everything else     *)
(* until the transaction is sent.                                          *)
THEOREM PendingIsExact == Spec => []ListsAreExact
<1>1. ServerInv => ListsAreExact
  BY DEF ServerInv, ListsAreExact
<1> QED
  BY <1>1, Invariance, PTL

(* However many handlers race, a transaction sent without force is on      *)
(* nobody's list, and a post without force carries a quorum.               *)
THEOREM PostsAreQuorums == Spec => [](SentIsNotPending /\ OnlyQuorumOrForcePosts)
BY Invariance, PTL DEF ServerInv

LEMMA NextPostsUnsent ==
    ASSUME ServerInv, Next, NEW r \in Requests,
           handler[r] = Idle, handler'[r] # Idle, ~handler'[r].force, handler'[r].tx \notin forced
    PROVE  ~sent[handler'[r].tx]
<1>1. TypeOK /\ SentIsNotPending
  BY DEF ServerInv
<1>2. ASSUME NEW q \in Requests, NEW t \in Txs, NEW s, NEW force, NEW removes,
             Post(q, t, s, force, removes)
      PROVE  handler'[r].tx = t /\ handler'[r].force = force
  BY <1>1, <1>2 DEF Post, TypeOK
<1>3. ASSUME NEW q \in Requests, NEW u \in Users, NEW t \in Txs, AddSignature(q, u, t)
      PROVE  ~sent[handler'[r].tx]
  <2>1. pending[u][t] > 0 /\ Post(q, t, Recorded(u, t), FALSE, TRUE)
    BY <1>3 DEF AddSignature
  <2>2. handler'[r].tx = t
    BY <1>2, <2>1
  <2> QED
    BY <1>1, <2>1, <2>2 DEF SentIsNotPending
<1>4. ASSUME NEW q \in Requests, NEW t \in Txs, NEW force \in BOOLEAN, SendTx(q, t, force)
      PROVE  ~sent[handler'[r].tx]
  <2>1. handler'[r].tx = t /\ handler'[r].force = force
    BY <1>2, <1>4 DEF SendTx
  <2>2. Status(t) = "Ready"
    BY <1>4, <2>1 DEF SendTx
  <2> QED
    BY <2>1, <2>2 DEF Status
<1>5. CASE \E q \in Requests : GatewayReceives(q) \/ Resume(q) \/ PostFails(q)
  BY <1>1, <1>5 DEF GatewayReceives, Resume, PostFails, TypeOK
<1>6. CASE Restart \/ \E t \in Txs, snapshot \in Snapshots : InitTx(t, snapshot)
  BY <1>6 DEF Restart, InitTx
<1> QED
  BY <1>3, <1>4, <1>5, <1>6 DEF Next

(* No handler starts to post, without force, a transaction that is marked  *)
(* sent and was never forced, although add_signature never looks at sent.  *)
THEOREM PostsOnlyUnsent == Spec => AutoPostsOnlyUnsent
<1>1. ServerInv /\ [Next]_vars =>
        [ \A r \in Requests :
            handler[r] = Idle /\ handler'[r] # Idle /\ ~handler'[r].force
                /\ handler'[r].tx \notin forced
            => ~sent[handler'[r].tx] ]_vars
  BY NextPostsUnsent DEF vars
<1> QED
  BY <1>1, Invariance, PTL DEF Spec, AutoPostsOnlyUnsent
=============================================================================
