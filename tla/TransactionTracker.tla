------------------------- MODULE TransactionTracker -------------------------
(***************************************************************************)
(* The stored list of transactions, and the polls that bring their status  *)
(* up to date (argent-x/packages/extension/src/background/transactions:    *)
(* store.ts, tracking.ts, determineUpdates.ts, sources and onupdate; the   *)
(* alarms of background/index.ts; shared/transactions.ts).                 *)
(*                                                                         *)
(* The list has one element per hash at any place of it, so it is a set    *)
(* here; push reads it, merges, and writes it as a whole.                  *)
(***************************************************************************)
EXTENDS Naturals, FiniteSets

CONSTANTS
    Tx,       \* the transactions of the account, told apart by hash
    Deploys,  \* those with meta.isDeployAccount
    Hidden,   \* those of an account that is hidden
    Explored, \* those of a network with an explorer
    Tasks,    \* slots for alarms and executions that are under way
    Overlap,  \* whether a task may start while another is under way
    MayRevert, \* whether the chain may give up a PENDING transaction
    MaxHandlers \* no task begins while more notification handlers run

(* What the constants have to be.                                         *)
ConstantsOK ==
    /\ Deploys \subseteq Tx /\ Hidden \subseteq Tx /\ Explored \subseteq Tx
    /\ {Overlap, MayRevert} \subseteq BOOLEAN
    /\ MaxHandlers \in Nat

Accepted == {"ACCEPTED_ON_L2", "ACCEPTED_ON_L1"}
SUCCESS_STATUSES == {"PENDING"} \cup Accepted
TRANSACTION_STATUSES_TO_TRACK == {"RECEIVED", "NOT_RECEIVED"}
Status == TRANSACTION_STATUSES_TO_TRACK \cup SUCCESS_STATUSES \cup {"REJECTED"}
Entry == [tx : Tx, status : Status]
Task == [kind : {"add", "update", "history"},
         at : {"idle", "ask", "push", "write"},
         old : SUBSET Entry,     \* the list when the task began
         open : SUBSET Tx,       \* whose answer is missing
         values : SUBSET Entry,  \* what will be pushed
         list : SUBSET Entry]    \* the list that push read

VARIABLES
    chain,    \* external: the status at the sequencer, or "none"
    store,    \* transactionsStore
    task,     \* what each slot does
    toCheck,  \* how many handlers are about to ask hasShownNotification
    toShow,   \* how many were told that nothing was shown
    shown,    \* notificationsStorage
    notified, \* history: how often the user was notified
    was,      \* history: the statuses the chain has answered with
    overlapped \* history: whether a task has begun beside another, or
               \* before the notifications of the last were done

notices == <<toCheck, toShow, shown, notified>>
vars == <<chain, store, task, notices, was, overlapped>>

Idle == [kind |-> "add", at |-> "idle", old |-> {}, open |-> {}, values |-> {}, list |-> {}]

Init ==
    /\ chain = [t \in Tx |-> "none"]
    /\ store = {}
    /\ task = [k \in Tasks |-> Idle]
    /\ toCheck = [t \in Tx |-> 0]
    /\ toShow = [t \in Tx |-> 0]
    /\ shown = {}
    /\ notified = [t \in Tx |-> 0]
    /\ was = {}
    /\ overlapped = FALSE

(* getInFlightTransactions.                                                *)
InFlight(e) ==
    e.status \in TRANSACTION_STATUSES_TO_TRACK \/ (e.tx \in Deploys /\ e.status = "PENDING")

(* mergeArrayStableWith, whose compare looks at the hash alone.            *)
Merge(list, values) ==
    {e \in list : \A v \in values : v.tx # e.tx} \cup values

(* The subscription's changedStatusTransactions.                           *)
Changed(old, new) ==
    {e \in new : \E o \in old : o.tx = e.tx /\ o.status # e.status}

---------------------------------------------------------------------------
(* The tasks begin.                                                        *)

Start(k, kind, old, open, values) ==
    /\ task[k].at = "idle"
    /\ Overlap \/ \A j \in Tasks : task[j].at = "idle"
    /\ \A t \in Tx : toCheck[t] + toShow[t] <= MaxHandlers
    /\ overlapped' = (overlapped \/ (\E j \in Tasks : task[j].at # "idle")
                                \/ (\E t \in Tx : toCheck[t] + toShow[t] > 0))
    /\ task' = [task EXCEPT ![k] =
          [kind |-> kind, at |-> IF kind = "add" THEN "push" ELSE "ask",
           old |-> old, open |-> open, values |-> values, list |-> {}]]

(* A transaction is sent, and addTransaction called.                       *)
Add(k, t) ==
    /\ chain[t] = "none"
    /\ chain' = [chain EXCEPT ![t] = "RECEIVED"]
    /\ was' = was \cup {[tx |-> t, status |-> "RECEIVED"]}
    /\ Start(k, "add", {}, {}, {[tx |-> t, status |-> "RECEIVED"]})
    /\ UNCHANGED <<store, notices>>

(* update reads the list and asks for those in flight.                     *)
Update(k) ==
    /\ Start(k, "update", store, {e.tx : e \in {f \in store : InFlight(f)}}, {})
    /\ UNCHANGED <<chain, store, notices, was>>

(* loadHistory reads the list and asks the explorer.                       *)
LoadHistory(k) ==
    /\ Start(k, "history", store, Explored, {})
    /\ UNCHANGED <<chain, store, notices, was>>

---------------------------------------------------------------------------
(* The answers arrive.                                                     *)

Asks(k, kind) == task[k].at = "ask" /\ task[k].kind = kind

(* getTransactionStatus answers; the status is pushed only if it differs   *)
(* from that of the list at the beginning (getTransactionsStatusUpdate).   *)
StatusAnswered(k, t) ==
    /\ Asks(k, "update") /\ t \in task[k].open
    /\ LET e == [tx |-> t, status |-> chain[t]] IN
       task' = [task EXCEPT ![k].open = @ \ {t},
                            ![k].values = IF e \in task[k].old THEN @ ELSE @ \cup {e}]
    /\ UNCHANGED <<chain, store, notices, was, overlapped>>

(* Or the request fails, and the old status is kept.                       *)
StatusFailed(k, t) ==
    /\ Asks(k, "update") /\ t \in task[k].open
    /\ task' = [task EXCEPT ![k].open = @ \ {t}]
    /\ UNCHANGED <<chain, store, notices, was, overlapped>>

(* Every status has been answered, or has failed.                          *)
Settled(k) ==
    /\ Asks(k, "update") /\ task[k].open = {}
    /\ task' = [task EXCEPT ![k].at = "push"]
    /\ UNCHANGED <<chain, store, notices, was, overlapped>>

(* Faulty: what the explorer does not know yet is taken for accepted, too. *)
HistoryOfAll(k) ==
    /\ Asks(k, "history")
    /\ LET known == {t \in task[k].open : chain[t] # "none"} IN
       task' = [task EXCEPT ![k].at = "push", ![k].open = {},
                            ![k].values = {[tx |-> t, status |-> "ACCEPTED_ON_L2"] : t \in known}]
    /\ UNCHANGED <<chain, store, notices, was, overlapped>>

(* The explorer answers with what it found in blocks, and all of it is     *)
(* listed as accepted on L2 (mapVoyagerTransactionToTransaction).          *)
HistoryAnswered(k) ==
    /\ Asks(k, "history")
    /\ LET known == {t \in task[k].open : chain[t] \in Accepted} IN
       task' = [task EXCEPT ![k].at = "push", ![k].open = {},
                            ![k].values = {[tx |-> t, status |-> "ACCEPTED_ON_L2"] : t \in known}]
    /\ UNCHANGED <<chain, store, notices, was, overlapped>>

(* Or fails for one account, and with it for all.                          *)
HistoryFailed(k) ==
    /\ Asks(k, "history")
    /\ task' = [task EXCEPT ![k] = Idle]
    /\ UNCHANGED <<chain, store, notices, was, overlapped>>

(* push reads the list.                                                    *)
PushReads(k) ==
    /\ task[k].at = "push"
    /\ task' = [task EXCEPT ![k].at = "write", ![k].list = store]
    /\ UNCHANGED <<chain, store, notices, was, overlapped>>

(* Faulty: the list as it was when the task began is merged and written.   *)
PushWritesOld(k) ==
    /\ task[k].at = "write"
    /\ LET new == Merge(task[k].old, task[k].values) IN
       /\ store' = new
       /\ toCheck' = [t \in Tx |->
             toCheck[t] + Cardinality({e \in Changed(store, new) :
                 e.tx = t /\ e.status \in SUCCESS_STATUSES \cup {"REJECTED"}})]
    /\ task' = [task EXCEPT ![k] = Idle]
    /\ UNCHANGED <<chain, toShow, shown, notified, was, overlapped>>

(* Faulty: what is pushed is put beside what is there.                     *)
PushWritesBeside(k) ==
    /\ task[k].at = "write"
    /\ store' = task[k].list \cup task[k].values
    /\ task' = [task EXCEPT ![k] = Idle]
    /\ UNCHANGED <<chain, notices, was, overlapped>>

(* push writes the list, and the subscription runs the handlers.           *)
PushWrites(k) ==
    /\ task[k].at = "write"
    /\ LET new == Merge(task[k].list, task[k].values) IN
       /\ store' = new
       /\ toCheck' = [t \in Tx |->
             toCheck[t] + Cardinality({e \in Changed(store, new) :
                 e.tx = t /\ e.status \in SUCCESS_STATUSES \cup {"REJECTED"}})]
    /\ task' = [task EXCEPT ![k] = Idle]
    /\ UNCHANGED <<chain, toShow, shown, notified, was, overlapped>>

---------------------------------------------------------------------------
(* notifyAboutCompletedTransactions.                                       *)

(* Faulty: what was shown is not looked up.                                *)
HasShownUnchecked(t) ==
    /\ toCheck[t] > 0
    /\ toCheck' = [toCheck EXCEPT ![t] = @ - 1]
    /\ toShow' = [toShow EXCEPT ![t] = @ + 1]
    /\ UNCHANGED <<chain, store, task, shown, notified, was, overlapped>>

HasShown(t) ==
    /\ toCheck[t] > 0
    /\ toCheck' = [toCheck EXCEPT ![t] = @ - 1]
    /\ toShow' = IF t \in shown THEN toShow ELSE [toShow EXCEPT ![t] = @ + 1]
    /\ UNCHANGED <<chain, store, task, shown, notified, was, overlapped>>

(* addToAlreadyShown; a deployment is not announced, nor what a hidden     *)
(* account does.                                                           *)
Notify(t) ==
    /\ toShow[t] > 0
    /\ toShow' = [toShow EXCEPT ![t] = @ - 1]
    /\ shown' = shown \cup {t}
    /\ notified' = IF t \in Deploys \cup Hidden THEN notified ELSE [notified EXCEPT ![t] = @ + 1]
    /\ UNCHANGED <<chain, store, task, toCheck, was, overlapped>>

---------------------------------------------------------------------------
(* The chain.                                                              *)

(* A transaction may be lost sight of, and turn up, before it is executed. *)
Later == [none |-> {},
          NOT_RECEIVED |-> {"RECEIVED", "PENDING", "REJECTED"},
          RECEIVED |-> {"NOT_RECEIVED", "PENDING", "REJECTED"},
          PENDING |-> {"ACCEPTED_ON_L2"} \cup (IF MayRevert THEN {"REJECTED"} ELSE {}),
          ACCEPTED_ON_L2 |-> {"ACCEPTED_ON_L1"}, ACCEPTED_ON_L1 |-> {}, REJECTED |-> {}]

Progress(t) ==
    /\ \E s \in Later[chain[t]] :
          /\ chain' = [chain EXCEPT ![t] = s]
          /\ was' = was \cup {[tx |-> t, status |-> s]}
    /\ UNCHANGED <<store, task, notices, overlapped>>

Next ==
    \/ \E k \in Tasks, t \in Tx : Add(k, t)
    \/ \E k \in Tasks : Update(k)
    \/ \E k \in Tasks : LoadHistory(k)
    \/ \E k \in Tasks, t \in Tx : StatusAnswered(k, t)
    \/ \E k \in Tasks, t \in Tx : StatusFailed(k, t)
    \/ \E k \in Tasks : Settled(k)
    \/ \E k \in Tasks : HistoryAnswered(k)
    \/ \E k \in Tasks : HistoryFailed(k)
    \/ \E k \in Tasks : PushReads(k)
    \/ \E k \in Tasks : PushWrites(k)
    \/ \E t \in Tx : HasShown(t)
    \/ \E t \in Tx : Notify(t)
    \/ \E t \in Tx : Progress(t)

(* The alarm comes every minute, the storage answers, and a transaction is *)
(* not refused its status for ever; when it is accepted is up to the chain.*)
Fairness ==
    /\ \A k \in Tasks :
          /\ SF_vars(Update(k))
          /\ WF_vars(Settled(k) \/ PushReads(k) \/ PushWrites(k))
          /\ WF_vars(HistoryAnswered(k) \/ HistoryFailed(k))
          /\ \A t \in Tx : SF_vars(StatusAnswered(k, t))
    /\ \A t \in Tx : WF_vars(HasShown(t)) /\ WF_vars(Notify(t))

Spec == Init /\ [][Next]_vars /\ Fairness

---------------------------------------------------------------------------
(* Properties.                                                             *)

TypeOK ==
    /\ chain \in [Tx -> Status \cup {"none"}]
    /\ store \in SUBSET Entry
    /\ task \in [Tasks -> Task]
    /\ toCheck \in [Tx -> Nat] /\ toShow \in [Tx -> Nat] /\ notified \in [Tx -> Nat]
    /\ shown \in SUBSET Tx
    /\ was \in SUBSET Entry /\ overlapped \in BOOLEAN

(* However the polls overlap, a transaction is listed once: no reader of   *)
(* the list finds two statuses for one hash; and what is listed the chain  *)
(* has answered, if not always last.                                       *)
OneEntryPerHash == \A e, f \in store : e.tx = f.tx => e = f
ListedWasAnswered == store \subseteq was
ListedAsAnswered == OneEntryPerHash /\ ListedWasAnswered

(* What a transaction may become once it has a status.                     *)
Reach == [NOT_RECEIVED |-> Status, RECEIVED |-> Status,
          PENDING |-> Status \ TRANSACTION_STATUSES_TO_TRACK,
          ACCEPTED_ON_L2 |-> Accepted, ACCEPTED_ON_L1 |-> {"ACCEPTED_ON_L1"},
          REJECTED |-> {"REJECTED"}]

(* What a history load pushes is ACCEPTED_ON_L2, though L1 may be listed.  *)
Relisted(k, from, to) ==
    task[k].kind = "history" /\ from = "ACCEPTED_ON_L1" /\ to = "ACCEPTED_ON_L2"

(* As long as the tasks come one after the other, no transaction leaves    *)
(* the list, and none goes back to an earlier status or to another verdict,*)
(* although a history load lists what a poll is about to ask for; but that *)
(* a history load takes what is on L1 back to L2.                          *)
Forward ==
    \A e \in store : \E f \in store' :
        /\ f.tx = e.tx
        /\ \/ f.status \in Reach[e.status]
           \/ \E k \in DOMAIN task : task[k].at = "write" /\ Relisted(k, e.status, f.status)
OnlyForward == [][~ overlapped' => Forward]_vars

(* As long, the user is notified once, although the status changes twice.  *)
NotifiedOnce == ~ overlapped => \A t \in DOMAIN notified : notified[t] <= 1

(* What is listed and has left the sequencer's queue is eventually seen to *)
(* have left it, and the user hears of it.                                 *)
Listed(t) == \E e \in store : e.tx = t
EventuallyNotified ==
    \A t \in Tx \ (Deploys \cup Hidden) :
        Listed(t) /\ chain[t] \in SUCCESS_STATUSES \cup {"REJECTED"} ~> notified[t] > 0

(* "filter for just the pending transactions, as the rest needs no update" *)
(* (tracking.ts:28): what is not asked for again has its last status.      *)
RestNeedsNoUpdate == \A e \in store : InFlight(e) \/ Later[chain[e.tx]] = {}
=============================================================================
