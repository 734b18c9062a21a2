--------------------------- MODULE MCTransactions ---------------------------
(* The two components that follow an account's transactions, NonceManager  *)
(* and TransactionTracker, each on its own: part says which moves.  Nonces *)
(* are drawn in a world where nothing goes wrong but that requests fail,   *)
(* and in one with rejections, an upgrade, a deployment, nonces named by   *)
(* dapps and a browser that is closed.  Transactions are tracked by one    *)
(* task at a time, and by two that overlap.                                *)
EXTENDS AccountTransactions

CONSTANTS t1, t2, t3, k1, k2

VARIABLE part

trackerVars == <<store, task, toCheck, toShow, shown, notified, was, overlapped, onChain>>

Plain == INSTANCE NonceManager WITH
    Upgrades <- {}, Provided <- {}, MayDeploy <- FALSE, MayReject <- FALSE, MaxQuits <- 0

Polled == INSTANCE TransactionTracker WITH
    chain <- onChain, Tx <- {t1}, Deploys <- {}, Hidden <- {t1}, Explored <- {t1}, Tasks <- {k1, k2},
    Overlap <- TRUE, MayRevert <- TRUE, MaxHandlers <- 0

ASSUME PolledConstants == Polled!ConstantsOK

MCInit ==
    \/ part = "plain" /\ Plain!Init /\ Tracker!Init
    \/ part = "disturbed" /\ Init /\ Tracker!Init
    \/ part = "tracked" /\ Plain!Init /\ Tracker!Init
    \/ part = "polled" /\ Plain!Init /\ Polled!Init

MCNext ==
    /\ UNCHANGED part
    /\ \/ part = "plain" /\ Plain!Next /\ UNCHANGED trackerVars
       \/ part = "disturbed" /\ Next /\ UNCHANGED trackerVars
       \/ part = "tracked" /\ Tracker!Next /\ UNCHANGED vars
       \/ part = "polled" /\ Polled!Next /\ UNCHANGED vars

(* The fairness of each component, in the part in which it moves.          *)
MCFairness ==
    /\ \A t \in Tx : WF_vars(part = "plain" /\ Accept(t))
    /\ SF_trackerVars(part = "tracked" /\ Tracker!Update(k1))
    /\ WF_trackerVars(part = "tracked" /\
            (Tracker!Settled(k1) \/ Tracker!PushReads(k1) \/ Tracker!PushWrites(k1)))
    /\ WF_trackerVars(part = "tracked" /\ (Tracker!HistoryAnswered(k1) \/ Tracker!HistoryFailed(k1)))
    /\ \A t \in {t1, t2} :
          /\ SF_trackerVars(part = "tracked" /\ Tracker!StatusAnswered(k1, t))
          /\ WF_trackerVars(part = "tracked" /\ Tracker!HasShown(t))
          /\ WF_trackerVars(part = "tracked" /\ Tracker!Notify(t))

MCSpec == MCInit /\ [][MCNext]_<<vars, trackerVars, part>> /\ MCFairness

---------------------------------------------------------------------------
(* If nothing disturbs them, the transactions the extension numbers itself *)
(* are all taken up (QueueDrains).                                         *)
PlainDrains ==
    \A t \in Tx : part = "plain" /\ status[t] = "RECEIVED" ~> status[t] = "ACCEPTED"

(* What leaves the sequencer's queue is announced (EventuallyNotified),    *)
(* with one task at a time.                                                *)
TrackedIsNotified ==
    part = "tracked" /\ Tracker!Listed(t1)
            /\ onChain[t1] \in Tracker!SUCCESS_STATUSES \cup {"REJECTED"}
        ~> notified[t1] > 0
=============================================================================
