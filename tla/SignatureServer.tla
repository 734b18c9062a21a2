-------------------------- MODULE SignatureServer --------------------------
(***************************************************************************)
(* The server that collects the owners' signatures of a transaction and    *)
(* posts it to Starknet once they weigh enough                             *)
(* (backend/multi_sig_server.py, backend/signature_handler.py).            *)
(*                                                                         *)
(* One asyncio loop runs all the handlers: a handler runs alone up to its  *)
(* await and again from there.  add_signature and send_tx await the        *)
(* gateway, so each is one step up to the post, one step of the gateway,   *)
(* and one step from the answer on.  init_tx reads the chain before it     *)
(* touches the server's state, so it is one step, with whatever snapshot   *)
(* of the account those reads put together.  All state is in memory.       *)
(***************************************************************************)
EXTENDS Integers, Sequences, FiniteSetsExt, SequencesExt

CONSTANTS
    Users,      \* the public keys of the people who talk to the server
    Txs,        \* the transaction hashes
    Snapshots,  \* what init_tx can read of the account: [weights, threshold]
    Requests,   \* slots for handlers that wait for the gateway
    NoTx,       \* the absence of a transaction, in txs
    Idle,       \* a slot no handler uses
    FaultyTxs,  \* the transactions a post of which may fail
    ForcedTxs,  \* the transactions somebody may send with the force parameter
    MaxPosts,   \* once posted so often, a transaction is not sent on request again
    MaxRestarts \* how many times the server may lose its memory

ASSUME SnapshotsAssumption ==
    \A s \in Snapshots :
        /\ DOMAIN s.weights \subseteq Users
        /\ s.weights \in [DOMAIN s.weights -> Nat]
        /\ s.threshold \in Nat
ASSUME MarkersAssumption == NoTx \notin Snapshots

(* A handler suspended at its await: where its post is, and its locals.    *)
InFlight == [at : {"gateway", "answered"}, tx : Txs, signature : Seq(Users),
             force : BOOLEAN, removes : BOOLEAN]

ASSUME IdleAssumption == Idle \notin InFlight
ASSUME BoundsAssumption == MaxPosts \in Nat /\ MaxRestarts \in Nat

VARIABLES
    txs,        \* sig_handler.txs: the snapshot each known transaction was added with
    signatures, \* tx.signatures: who signed, in the order the dict keeps
    sent,       \* tx.sent
    pending,    \* sig_handler.user_to_txs: how often a transaction is in a user's list
    handler,    \* the handlers between their post and their return
    posts,      \* history: how often the gateway received each transaction
    failed,     \* history: the transactions a post of which failed since the start
    forced,     \* history: the transactions sent with force since the start
    restarts    \* history: how often the server started anew

vars == <<txs, signatures, sent, pending, handler, posts, failed, forced, restarts>>

---------------------------------------------------------------------------
Known(t)   == txs[t] # NoTx
Members(t) == DOMAIN txs[t].weights
Signed(t)  == ToSet(signatures[t])

(* is_signature_ready: the signers weigh the threshold in the snapshot.    *)
Weight(snapshot, S) == MapThenSumSet(LAMBDA u : snapshot.weights[u], S)
(* Faulty: one short of the threshold is enough.                           *)
AlmostReady(snapshot, S) == Weight(snapshot, S) + 1 >= snapshot.threshold

SignatureReady(snapshot, S) == Weight(snapshot, S) >= snapshot.threshold

(* Faulty: whether the transaction was sent is not looked at.              *)
StatusOfUnsent(t) ==
    IF ~Known(t) THEN "Unknown"
    ELSE IF SignatureReady(txs[t], Signed(t)) THEN "Ready"
    ELSE "MissingSignatures"

Status(t) ==
    IF ~Known(t) THEN "Unknown"
    ELSE IF sent[t] THEN "Sent"
    ELSE IF SignatureReady(txs[t], Signed(t)) THEN "Ready"
    ELSE "MissingSignatures"

(* get_pending_txs: what a user is shown to sign.                          *)
PendingTxs(u) == {t \in Txs : pending[u][t] > 0}

---------------------------------------------------------------------------
Init ==
    /\ txs = [t \in Txs |-> NoTx]
    /\ signatures = [t \in Txs |-> <<>>]
    /\ sent = [t \in Txs |-> FALSE]
    /\ pending = [u \in Users |-> [t \in Txs |-> 0]]
    /\ handler = [r \in Requests |-> Idle]
    /\ posts = [t \in Txs |-> 0]
    /\ failed = {}
    /\ forced = {}
    /\ restarts = 0

(* init_tx up to the end: add_tx does nothing for a transaction that is    *)
(* known already, even if a handler added it while this one was reading.   *)
InitTx(t, snapshot) ==
    /\ ~Known(t)
    /\ txs' = [txs EXCEPT ![t] = snapshot]
    /\ pending' = [u \in Users |->
                      IF u \in DOMAIN snapshot.weights
                      THEN [pending[u] EXCEPT ![t] = @ + 1]
                      ELSE pending[u]]
    /\ UNCHANGED <<signatures, sent, handler, posts, failed, forced, restarts>>

(* _send_tx_to_starknet up to its await: the transaction is built with the *)
(* signatures there are now.  "removes" is whether the handler takes it    *)
(* off the signers' lists once the gateway has answered.                   *)
Post(r, t, signature, force, removes) ==
    /\ handler[r] = Idle
    /\ handler' = [handler EXCEPT ![r] =
                      [at |-> "gateway", tx |-> t, signature |-> signature,
                       force |-> force, removes |-> removes]]

(* tx.signatures once u has signed: a dict keeps the place of a known key.  *)
Recorded(u, t) == IF u \in Signed(t) THEN signatures[t] ELSE Append(signatures[t], u)

(* Faulty: readiness is looked up before the signature is recorded.        *)
AddSignatureCheckedEarly(r, u, t) ==
    /\ Known(t)
    /\ u \in Members(t)
    /\ signatures' = [signatures EXCEPT ![t] = Recorded(u, t)]
    /\ \/ pending[u][t] = 0 /\ UNCHANGED <<pending, handler>>
       \/ /\ pending[u][t] > 0
          /\ pending' = [pending EXCEPT ![u][t] = @ - 1]
          /\ IF SignatureReady(txs[t], Signed(t))
             THEN Post(r, t, Recorded(u, t), FALSE, TRUE)
             ELSE UNCHANGED handler
    /\ UNCHANGED <<txs, sent, posts, failed, forced, restarts>>

(* add_signature up to its return or its await.  The signature is recorded *)
(* first; list.remove then raises when t is not in the user's list, which  *)
(* ends the handler with nothing undone.                                   *)
AddSignature(r, u, t) ==
    /\ Known(t)
    /\ u \in Members(t)
    /\ signatures' = [signatures EXCEPT ![t] = Recorded(u, t)]
    /\ \/ pending[u][t] = 0 /\ UNCHANGED <<pending, handler>>
       \/ /\ pending[u][t] > 0
          /\ pending' = [pending EXCEPT ![u][t] = @ - 1]
          /\ IF SignatureReady(txs[t], ToSet(Recorded(u, t)))
             THEN Post(r, t, Recorded(u, t), FALSE, TRUE)
             ELSE UNCHANGED handler
    /\ UNCHANGED <<txs, sent, posts, failed, forced, restarts>>

(* Faulty: send_tx clears the lists before it knows the gateway's answer.  *)
SendTxClearingFirst(r, t, force) ==
    /\ Known(t)
    /\ force \/ Status(t) = "Ready"
    /\ force => t \in ForcedTxs
    /\ posts[t] < MaxPosts
    /\ Post(r, t, signatures[t], force, Status(t) = "Ready")
    /\ pending' = [u \in Users |-> [pending[u] EXCEPT ![t] = 0]]
    /\ forced' = IF force THEN forced \cup {t} ELSE forced
    /\ UNCHANGED <<txs, signatures, sent, posts, failed, restarts>>

(* send_tx, with or without its force parameter.                           *)
SendTx(r, t, force) ==
    /\ Known(t)
    /\ force \/ Status(t) = "Ready"
    /\ force => t \in ForcedTxs
    /\ posts[t] < MaxPosts
    /\ Post(r, t, signatures[t], force, Status(t) = "Ready")
    /\ forced' = IF force THEN forced \cup {t} ELSE forced
    /\ UNCHANGED <<txs, signatures, sent, pending, posts, failed, restarts>>

(* The gateway receives the transaction.                                   *)
GatewayReceives(r) ==
    /\ handler[r] # Idle
    /\ handler[r].at = "gateway"
    /\ handler' = [handler EXCEPT ![r].at = "answered"]
    /\ posts' = [posts EXCEPT ![handler[r].tx] = @ + 1]
    /\ UNCHANGED <<txs, signatures, sent, pending, failed, forced, restarts>>

(* Faulty: the lists are left alone.                                       *)
ResumeKeepingLists(r) ==
    /\ handler[r] # Idle
    /\ handler[r].at = "answered"
    /\ sent' = [sent EXCEPT ![handler[r].tx] = TRUE]
    /\ handler' = [handler EXCEPT ![r] = Idle]
    /\ UNCHANGED <<txs, signatures, pending, posts, failed, forced, restarts>>

(* The handler after its await: sent is set, and the transaction comes off *)
(* the signers' lists where it still is.                                   *)
Resume(r) ==
    /\ handler[r] # Idle
    /\ handler[r].at = "answered"
    /\ LET t == handler[r].tx
       IN  /\ sent' = [sent EXCEPT ![t] = TRUE]
           /\ pending' = [u \in Users |->
                             IF handler[r].removes /\ u \in Members(t) /\ pending[u][t] > 0
                             THEN [pending[u] EXCEPT ![t] = @ - 1]
                             ELSE pending[u]]
    /\ handler' = [handler EXCEPT ![r] = Idle]
    /\ UNCHANGED <<txs, signatures, posts, failed, forced, restarts>>

(* The await raises: the post was lost on its way, refused, or its answer  *)
(* was.  log_try_wrap catches, nothing tries again.                        *)
PostFails(r) ==
    /\ handler[r] # Idle
    /\ handler[r].tx \in FaultyTxs
    /\ failed' = failed \cup {handler[r].tx}
    /\ handler' = [handler EXCEPT ![r] = Idle]
    /\ UNCHANGED <<txs, signatures, sent, pending, posts, forced, restarts>>

(* The process dies and starts again with an empty SignatureHandler.       *)
Restart ==
    /\ restarts < MaxRestarts
    /\ restarts' = restarts + 1
    /\ txs' = [t \in Txs |-> NoTx]
    /\ signatures' = [t \in Txs |-> <<>>]
    /\ sent' = [t \in Txs |-> FALSE]
    /\ pending' = [u \in Users |-> [t \in Txs |-> 0]]
    /\ handler' = [r \in Requests |-> Idle]
    /\ failed' = {}
    /\ forced' = {}
    /\ UNCHANGED posts

Next ==
    \/ \E t \in Txs, snapshot \in Snapshots : InitTx(t, snapshot)
    \/ \E r \in Requests, u \in Users, t \in Txs : AddSignature(r, u, t)
    \/ \E r \in Requests, t \in Txs, force \in BOOLEAN : SendTx(r, t, force)
    \/ \E r \in Requests : GatewayReceives(r)
    \/ \E r \in Requests : Resume(r)
    \/ \E r \in Requests : PostFails(r)
    \/ Restart

Spec == Init /\ [][Next]_vars

(* The event loop runs every handler that can go on, and the gateway takes *)
(* every post that does not fail.  Nobody has to sign or to send.          *)
Fairness ==
    \A r \in Requests : WF_vars(GatewayReceives(r)) /\ WF_vars(Resume(r))

FairSpec == Spec /\ Fairness

---------------------------------------------------------------------------
(* Properties.                                                             *)

(* The shapes of the server's dictionaries and of a suspended handler.     *)
TypeOK ==
    /\ txs \in [Txs -> Snapshots \cup {NoTx}]
    /\ signatures \in [Txs -> Seq(Users)]
    /\ sent \in [Txs -> BOOLEAN]
    /\ pending \in [Users -> [Txs -> Nat]]
    /\ handler \in [Requests -> InFlight \cup {Idle}]
    /\ posts \in [Txs -> Nat]
    /\ failed \subseteq Txs
    /\ forced \subseteq Txs
    /\ restarts \in 0 .. MaxRestarts

(* What the other invariants rest on: a transaction the server does not    *)
(* know has left no trace, and a suspended handler belongs to a known      *)
(* transaction and takes it off the lists unless it was forced.            *)
HandlersMatch ==
    /\ \A t \in Txs : ~Known(t) => signatures[t] = <<>> /\ ~sent[t]
    /\ \A r \in Requests : handler[r] # Idle =>
          /\ Known(handler[r].tx)
          /\ ~handler[r].removes => handler[r].tx \in forced

(* A user is asked to sign only transactions the server knows, that user   *)
(* is a member of, and has not signed, and each of them once: otherwise a  *)
(* signature would be asked for that add_signature refuses or raises on.   *)
PendingMeansUnsigned ==
    \A u \in Users, t \in Txs : pending[u][t] > 0 =>
        /\ pending[u][t] = 1
        /\ Known(t)
        /\ u \in Members(t)
        /\ u \notin Signed(t)

(* Until a transaction is sent, every member who has not signed it is      *)
(* still asked to: no handler takes it off a list before the gateway has   *)
(* it, whatever fails, so a quorum can always be completed.                *)
UnsignedStaysPending ==
    \A u \in Users, t \in Txs :
        Known(t) /\ ~sent[t] /\ u \in Members(t) /\ u \notin Signed(t) => pending[u][t] > 0

(* So the lists are exactly those of the members who still have to sign,   *)
(* whichever handlers wait, fail or come back late.                        *)
ListsAreExact == PendingMeansUnsigned /\ UnsignedStaysPending

(* A transaction that went out without force is on nobody's list any more, *)
(* whichever of the handlers that were posting it at once came back.       *)
SentIsNotPending ==
    \A t \in Txs : sent[t] /\ t \notin forced => \A u \in Users : pending[u][t] = 0

(* A handler that posts without force carries signatures that reach the    *)
(* threshold in the snapshot the server shows as the score.                *)
OnlyQuorumOrForcePosts ==
    \A r \in Requests :
        handler[r] # Idle /\ ~handler[r].force =>
            SignatureReady(txs[handler[r].tx], ToSet(handler[r].signature))

(* Nothing posts, without force, a transaction that is marked sent and was *)
(* never forced: add_signature does not look at tx.sent, and is stopped    *)
(* only by the lists that the other handler cleared.                       *)
AutoPostsOnlyUnsent ==
    [][ \A r \in Requests :
          handler[r] = Idle /\ handler'[r] # Idle /\ ~handler'[r].force
              /\ handler'[r].tx \notin forced
          => ~sent[handler'[r].tx] ]_vars

(* A transaction that somebody signed and whose signatures reach the       *)
(* threshold is sent, with no further request, unless a post of it failed  *)
(* or the server lost its memory.                                          *)
SignedQuorumIsSent ==
    \A t \in Txs :
        Known(t) /\ signatures[t] # <<>> /\ SignatureReady(txs[t], Signed(t))
            ~> ~Known(t) \/ sent[t] \/ t \in failed

(* send_tx and _send_tx say "if it is ready (and wasn't sent)": without    *)
(* force, the gateway would receive a transaction once.                    *)
SentOnce == \A t \in Txs : posts[t] <= 1
=============================================================================
