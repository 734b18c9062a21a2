---------------------------- MODULE NonceManager ----------------------------
(***************************************************************************)
(* The nonces of one account's transactions                                *)
(* (argent-x/packages/extension/src/background/nonce.ts, and the execution *)
(* of an approved transaction, transactions/transactionExecution.ts).      *)
(*                                                                         *)
(* The extension keeps the next nonce in the session storage, so that a    *)
(* transaction can be sent before the one before it is on the chain.  The  *)
(* storage serves its calls in the order they are made; an execution is    *)
(* split where it waits for the chain or for what it read.                 *)
(***************************************************************************)
EXTENDS Naturals, FiniteSets

CONSTANTS
    Tx,        \* the approved transactions
    Upgrades,  \* those that upgrade the account
    Provided,  \* the nonces a dapp may name in transactionsDetail
    None,      \* nothing stored, nothing provided
    MayDeploy, \* whether the account may still have to be deployed
    MayReject, \* whether the sequencer may reject a transaction
    Overlap,   \* whether an execution may start while another is under way
    MaxQuits   \* how often the browser may be closed

ASSUME TxAssumption == IsFiniteSet(Tx)
ASSUME UpgradesAssumption == Upgrades \subseteq Tx
ASSUME NoneAssumption == Provided \subseteq Nat /\ None \notin Nat
ASSUME FlagsAssumption == {MayDeploy, MayReject, Overlap} \subseteq BOOLEAN
ASSUME QuitsAssumption == MaxQuits \in Nat

VARIABLES
    stored,      \* nonceStore's entry of the account
    needsDeploy, \* the flag in walletStore
    pc,          \* what each execution waits for
    given,       \* the nonce the dapp named, or None
    answer,      \* the nonce the chain answered
    read,        \* the stored nonce increaseStoredNonce read
    nonce,       \* the nonce of the transaction
    status,      \* of the transaction in transactionsStore
    chain,       \* external: the account's nonce, 0 until it is deployed
    deploying,   \* external: a DEPLOY_ACCOUNT transaction is under way
    quits        \* history: how often the browser was closed

ext == <<chain, deploying>>
locals == <<given, answer, read, nonce>>
vars == <<stored, needsDeploy, pc, locals, status, ext, quits>>

Init ==
    /\ stored = None
    /\ needsDeploy \in {FALSE, MayDeploy}
    /\ pc = [t \in Tx |-> "idle"]
    /\ given = [t \in Tx |-> None]
    /\ answer = [t \in Tx |-> None]
    /\ read = [t \in Tx |-> None]
    /\ nonce = [t \in Tx |-> None]
    /\ status = [t \in Tx |-> "none"]
    /\ chain = IF needsDeploy THEN 0 ELSE 1
    /\ deploying = FALSE
    /\ quits = 0

At(t, place) == pc[t] = place
Go(t, place) == pc' = [pc EXCEPT ![t] = place]
Busy(t) == pc[t] \notin {"idle", "done"}

---------------------------------------------------------------------------
(* executeTransactionAction: an account that needs its deployment gets     *)
(* nonce 1, a nonce that the dapp named is taken, else getNonce is asked.  *)
Begin(t, n) ==
    /\ At(t, "idle")
    /\ Overlap \/ \A u \in Tx : ~ Busy(u)
    /\ given' = [given EXCEPT ![t] = n]
    /\ nonce' = [nonce EXCEPT ![t] = IF needsDeploy THEN 1 ELSE n]
    /\ Go(t, IF needsDeploy THEN "deploy" ELSE IF n # None THEN "send" ELSE "chain")
    /\ UNCHANGED <<stored, needsDeploy, answer, read, status, ext, quits>>

(* getNonce: the chain answers.                                            *)
FetchNonce(t) ==
    /\ At(t, "chain")
    /\ answer' = [answer EXCEPT ![t] = chain]
    /\ Go(t, "stored")
    /\ UNCHANGED <<stored, needsDeploy, given, read, nonce, status, ext, quits>>

(* getNonce: the storage answers, and the larger nonce is taken.           *)
ReadStored(t) ==
    /\ At(t, "stored")
    /\ IF stored = None \/ answer[t] > stored
       THEN /\ Go(t, "store")
            /\ nonce' = [nonce EXCEPT ![t] = answer[t]]
       ELSE /\ Go(t, "send")
            /\ nonce' = [nonce EXCEPT ![t] = stored]
    /\ UNCHANGED <<stored, needsDeploy, given, answer, read, status, ext, quits>>

(* getNonce: what the chain answered is stored.                            *)
StoreFetched(t) ==
    /\ At(t, "store")
    /\ stored' = answer[t]
    /\ Go(t, "send")
    /\ UNCHANGED <<needsDeploy, locals, status, ext, quits>>

(* The account is deployed first, unless the chain knows it already.       *)
Deploy(t) ==
    /\ At(t, "deploy")
    /\ deploying' = (deploying \/ chain = 0)
    /\ Go(t, "send")
    /\ UNCHANGED <<stored, needsDeploy, locals, status, chain, quits>>

Settle(t) == Go(t, IF t \in Upgrades THEN "reset" ELSE "done")

(* starknetAccount.execute and addTransaction.                             *)
Send(t) ==
    /\ At(t, "send")
    /\ status' = [status EXCEPT ![t] = "RECEIVED"]
    /\ IF given[t] = None THEN Go(t, "increase") ELSE Settle(t)
    /\ UNCHANGED <<stored, needsDeploy, locals, ext, quits>>

(* The provider throws, and the rest of the execution is left out.         *)
Fail(t) ==
    /\ pc[t] \in {"chain", "deploy", "send"}
    /\ Go(t, "done")
    /\ UNCHANGED <<stored, needsDeploy, locals, status, ext, quits>>

(* increaseStoredNonce: nothing is increased if nothing is stored.         *)
ReadIncrease(t) ==
    /\ At(t, "increase")
    /\ read' = [read EXCEPT ![t] = stored]
    /\ IF stored = None THEN Settle(t) ELSE Go(t, "increased")
    /\ UNCHANGED <<stored, needsDeploy, given, answer, nonce, status, ext, quits>>

(* Faulty: the nonce is increased twice.                                   *)
WriteIncreaseTwice(t) ==
    /\ At(t, "increased")
    /\ stored' = read[t] + 2
    /\ Settle(t)
    /\ UNCHANGED <<needsDeploy, locals, status, ext, quits>>

(* Faulty: the nonce is not increased.                                     *)
WriteNoIncrease(t) ==
    /\ At(t, "increased")
    /\ stored' = read[t]
    /\ Settle(t)
    /\ UNCHANGED <<needsDeploy, locals, status, ext, quits>>

WriteIncrease(t) ==
    /\ At(t, "increased")
    /\ stored' = read[t] + 1
    /\ Settle(t)
    /\ UNCHANGED <<needsDeploy, locals, status, ext, quits>>

(* resetStoredNonce, after an upgrade.                                     *)
ResetStored(t) ==
    /\ At(t, "reset")
    /\ stored' = None
    /\ Go(t, "done")
    /\ UNCHANGED <<needsDeploy, locals, status, ext, quits>>

(* handleDeployAccountTransaction: the tracker saw the deployment.         *)
TrackDeployed ==
    /\ needsDeploy /\ chain > 0
    /\ needsDeploy' = FALSE
    /\ UNCHANGED <<stored, pc, locals, status, ext, quits>>

(* checkResetStoredNonce: the tracker saw the rejection.                   *)
TrackRejected(t) ==
    /\ status[t] = "REJECTED"
    /\ status' = [status EXCEPT ![t] = "dropped"]
    /\ stored' = None
    /\ UNCHANGED <<needsDeploy, pc, locals, ext, quits>>

(* The session storage and the executions end with the browser.            *)
Quit ==
    /\ quits < MaxQuits
    /\ quits' = quits + 1
    /\ stored' = None
    /\ pc' = [t \in Tx |-> IF Busy(t) THEN "done" ELSE pc[t]]
    /\ UNCHANGED <<needsDeploy, locals, status, ext>>

---------------------------------------------------------------------------
(* The sequencer: a transaction is accepted when its nonce is the next.    *)

Accept(t) ==
    /\ status[t] = "RECEIVED" /\ chain > 0 /\ nonce[t] = chain
    /\ status' = [status EXCEPT ![t] = "ACCEPTED"]
    /\ chain' = chain + 1
    /\ UNCHANGED <<stored, needsDeploy, pc, locals, deploying, quits>>

Reject(t) ==
    /\ MayReject
    /\ status[t] = "RECEIVED"
    /\ status' = [status EXCEPT ![t] = "REJECTED"]
    /\ UNCHANGED <<stored, needsDeploy, pc, locals, ext, quits>>

EndDeployment(success) ==
    /\ deploying /\ chain = 0
    /\ success \/ MayReject
    /\ deploying' = FALSE
    /\ chain' = IF success THEN 1 ELSE 0
    /\ UNCHANGED <<stored, needsDeploy, pc, locals, status, quits>>

Next ==
    \/ \E t \in Tx, n \in Provided \cup {None} : Begin(t, n)
    \/ \E t \in Tx : FetchNonce(t)
    \/ \E t \in Tx : ReadStored(t)
    \/ \E t \in Tx : StoreFetched(t)
    \/ \E t \in Tx : Deploy(t)
    \/ \E t \in Tx : Send(t)
    \/ \E t \in Tx : Fail(t)
    \/ \E t \in Tx : ReadIncrease(t)
    \/ \E t \in Tx : WriteIncrease(t)
    \/ \E t \in Tx : ResetStored(t)
    \/ TrackDeployed
    \/ \E t \in Tx : TrackRejected(t)
    \/ Quit
    \/ \E t \in Tx : Accept(t)
    \/ \E t \in Tx : Reject(t)
    \/ \E success \in BOOLEAN : EndDeployment(success)

(* The sequencer takes up a transaction whose turn it is.                  *)
Fairness == \A t \in Tx : WF_vars(Accept(t))

Spec == Init /\ [][Next]_vars /\ Fairness

---------------------------------------------------------------------------
(* Properties.                                                             *)

(* Nonces are numbers wherever the next step computes with them.           *)
TypeOK ==
    /\ stored \in Nat \cup {None}
    /\ needsDeploy \in BOOLEAN
    /\ pc \in [Tx -> {"idle", "chain", "stored", "store", "deploy", "send",
                      "increase", "increased", "reset", "done"}]
    /\ \A f \in {given, answer, read, nonce} : f \in [Tx -> Nat \cup {None}]
    /\ status \in [Tx -> {"none", "RECEIVED", "ACCEPTED", "REJECTED", "dropped"}]
    /\ chain \in Nat /\ deploying \in BOOLEAN /\ quits \in 0 .. MaxQuits
    /\ \A t \in Tx :
          /\ pc[t] \in {"stored", "store"} => answer[t] \in Nat
          /\ pc[t] = "increased" => read[t] \in Nat
          /\ pc[t] \in {"send", "increase", "increased"} => nonce[t] \in Nat

(* "we can use the stored nonce to allow transaction queueing"             *)
(* (transactionExecution.ts:86): no two transactions the extension numbers *)
(* itself, waiting or accepted, have the same nonce.                       *)
Numbered(t) == given[t] = None /\ status[t] \in {"RECEIVED", "ACCEPTED"}
DistinctNonces ==
    \A t, u \in Tx : Numbered(t) /\ Numbered(u) /\ nonce[t] = nonce[u] => t = u

(* And what is queued can be taken up: every nonce below that of a waiting *)
(* transaction, from the chain's on, is that of another waiting one.       *)
NoGap ==
    \A t \in Tx : status[t] = "RECEIVED" =>
        \A n \in chain .. (nonce[t] - 1) :
            \E u \in Tx : status[u] = "RECEIVED" /\ nonce[u] = n

(* Nothing has disturbed the queue: the browser was not closed, nothing    *)
(* was rejected, and what was sent had its nonce of getNonce and upgraded  *)
(* nothing.  Everything else may go on, a deployment before it as well.    *)
Undisturbed ==
    /\ quits = 0
    /\ \A t \in Tx : status[t] # "none" =>
          /\ status[t] \in {"RECEIVED", "ACCEPTED"}
          /\ given[t] = None /\ answer[t] # None
          /\ t \notin Upgrades

(* Until something disturbs the queue, both hold, although executions fail *)
(* and the chain accepts at any moment of another execution.               *)
UndisturbedQueue == Undisturbed => DistinctNonces /\ NoGap

(* So the queue drains, although executions fail and the account may be    *)
(* asked for its nonce before or after any of the acceptances.             *)
QueueDrains == \A t \in Tx : status[t] = "RECEIVED" ~> status[t] = "ACCEPTED"

(* With rejections, upgrades, deployments, nonces named by dapps and a     *)
(* browser that quits: the stored nonce runs ahead of the chain by no more *)
(* than the transactions sent that the chain has not accepted.             *)
Backing == {t \in Tx : given[t] = None /\ status[t] \in {"RECEIVED", "REJECTED", "dropped"}}
StoredIsBacked == stored # None => stored <= chain + Cardinality(Backing)
=============================================================================
