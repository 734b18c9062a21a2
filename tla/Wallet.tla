------------------------------- MODULE Wallet -------------------------------
(* The wallet of the extension: its session, and beside it its list of     *)
(* accounts and networks.  They share no variable; what recovery does to   *)
(* the list is in AccountList, what it does to the session in              *)
(* WalletSession.                                                          *)
EXTENDS WalletSession

CONSTANTS Networks, Readonly, DefaultCustom, Chain, Default, Classes, KnownClasses, ClassOf, Earlier,
          Offset, MaxAccounts, MaxDeployed, MayOverlap, MayRestore, MayAddByChain

VARIABLES custom, accounts, selected, shown, adding, deployed, pushed, restored, blind

List == INSTANCE AccountList

ASSUME ListAssumption == List!ConstantsOK

(* What is selected is visible; and until the user restores the default    *)
(* networks, every account keeps its network, and so does the screen.      *)
ListIsConsistent == List!Consistent

(* A new account is one that was not there before, hidden or not.          *)
NewAccountIsNew == List!NewAccountIsNew

(* Restoring the wallet finds all accounts that it can.                    *)
RecoveryFindsAll == List!RecoveryFindsAll
=============================================================================
