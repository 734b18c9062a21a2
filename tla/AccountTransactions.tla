------------------------ MODULE AccountTransactions ------------------------
(* The two components that follow an account's transactions, side by side: *)
(* NonceManager, which numbers them, and TransactionTracker, which brings  *)
(* their status up to date.  They share no variable.                       *)
EXTENDS NonceManager

CONSTANTS Followed, Deploys, Hidden, Explored, Tasks, MayOverlap, MayRevert, MaxHandlers

VARIABLES store, task, toCheck, toShow, shown, notified, was, overlapped, onChain

Tracker == INSTANCE TransactionTracker WITH chain <- onChain, Tx <- Followed, Overlap <- MayOverlap

ASSUME TrackerAssumption == Tracker!ConstantsOK

(* However the polls overlap, a transaction is listed once, with a status  *)
(* the chain has answered.                                                 *)
ListedAsAnswered == Tracker!ListedAsAnswered

(* As long as the tasks come one after the other, no status goes back, but *)
(* from L1 to L2, and the user hears of a transaction once.                *)
OnlyForward == Tracker!OnlyForward
NotifiedOnce == Tracker!NotifiedOnce
=============================================================================
