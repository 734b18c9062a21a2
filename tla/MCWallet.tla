------------------------------ MODULE MCWallet ------------------------------
(* The wallet: its session and its list of accounts, each on its own, part *)
(* says which moves.  In "session" up to two messages are handled at a     *)
(* time, and the service worker may be stopped; in "accounts" accounts and *)
(* networks come and go; in "recovery" accounts are deployed as well, and  *)
(* the wallet is restored from its seed phrase; in "restore" the user      *)
(* restores the default networks.                                          *)
EXTENDS Wallet, TLC

CONSTANTS Parts, p1, p2, s1, f1, c1, c2, main, local, mine, goerli, other, was, is

VARIABLE part

listVars == <<custom, accounts, selected, shown, adding, deployed, pushed, restored, blind>>

MCChain == main :> goerli @@ local :> goerli @@ mine :> other

(* Networks that give no class get the first of the known ones.            *)
MCClassOf == main :> is @@ local :> was @@ mine :> was

(* In "recovery" an earlier release may have deployed this account.       *)
MCEarlier == {[network |-> main, class |-> was, index |-> 1]}

Recovery == INSTANCE AccountList WITH
    Networks <- {main, local}, ClassOf <- [n \in {main, local} |-> MCClassOf[n]],
    MaxDeployed <- 2, MayRestore <- TRUE, MayAddByChain <- FALSE

ASSUME RecoveryConstants == Recovery!ConstantsOK

MCInit ==
    /\ part \in Parts
    /\ List!Init
    /\ part # "recovery" => deployed = {}
    /\ Init

MCNext ==
    /\ UNCHANGED part
    /\ \/ part = "session" /\ Next /\ UNCHANGED listVars
       \/ part \in {"accounts", "restore"} /\ List!Next /\ UNCHANGED vars
       \/ part = "recovery" /\ Recovery!Next /\ UNCHANGED vars

MCSpec == MCInit /\ [][MCNext]_<<vars, listVars, part>>

---------------------------------------------------------------------------
(* Accounts "must be removed before the network can be deleted"            *)
(* (validateRemoveNetwork.ts:21): restoring the default networks does not  *)
(* leave an account without its network, either.                           *)
RestoredNetworksExist == part = "restore" => List!NetworksExist

=============================================================================
