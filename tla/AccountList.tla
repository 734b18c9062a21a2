---------------------------- MODULE AccountList ----------------------------
(***************************************************************************)
(* The accounts and networks of the extension, and which account it acts   *)
(* for (argent-x/packages/extension/src/background/wallet.ts,              *)
(* shared/network/, and the screens of ui/features/accounts and            *)
(* ui/features/settings that change them).                                 *)
(*                                                                         *)
(* The address of an account is computed from its derivation index and a   *)
(* class hash: for a new account that of its network, and for those of     *)
(* earlier releases one of the classes known then.  So an account is told  *)
(* apart by network, class and index.                                      *)
(***************************************************************************)
EXTENDS Naturals, Sequences, FiniteSets

CONSTANTS
    Networks,      \* ids of networks the wallet may have
    Readonly,      \* those of defaultReadonlyNetworks
    DefaultCustom, \* those of defaultCustomNetworks
    Chain,         \* the chainId of each
    Default,       \* defaultNetwork
    Classes,       \* class hashes of account contracts
    KnownClasses,  \* ARGENT_ACCOUNT_CONTRACT_CLASS_HASHES
    ClassOf,       \* what getAccountClassHashForNetwork answers for each network
    Earlier,       \* accounts an earlier release may have deployed
    Offset,        \* CHECK_OFFSET: so many empty indices end the search
    MaxAccounts,   \* the list does not grow longer
    MaxDeployed,   \* no more accounts are deployed
    MayOverlap,    \* other things happen while an account is being made
    MayRestore,    \* the user may restore the default networks
    MayAddByChain, \* dapps may ask for networks the wallet has by chain
    None

VARIABLES
    custom,    \* customNetworksStore
    accounts,  \* accountStore
    selected,  \* walletStore, "selected"
    shown,     \* the screens' switcherNetworkId
    adding,    \* the account newAccount has computed and not yet pushed
    deployed,  \* the chains: the accounts that have code
    pushed,    \* history: the networks put in the queue for a dapp
    restored,  \* history: whether the default networks have been restored
    blind      \* history: the accounts that were hidden when they were deployed

vars == <<custom, accounts, selected, shown, adding, deployed, pushed, restored, blind>>

Key == [network : Networks, class : Classes, index : Nat]
Account == [network : Networks, class : Classes, index : Nat, hidden : BOOLEAN]
At(network, class, index) == [network |-> network, class |-> class, index |-> index]
KeyOf(account) == At(account.network, account.class, account.index)
Visible(key) ==
    [network |-> key.network, class |-> key.class, index |-> key.index, hidden |-> FALSE]

(* What the constants have to be.                                         *)
ConstantsOK ==
    /\ Readonly \subseteq Networks /\ DefaultCustom \subseteq Networks
    /\ Default \in Readonly /\ IsFiniteSet(Networks)
    /\ KnownClasses \subseteq Classes /\ ClassOf \in [Networks -> Classes]
    /\ Earlier \subseteq Key /\ IsFiniteSet(Earlier)
    /\ \A key \in Earlier : key.class \in KnownClasses /\ key.index <= MaxAccounts
    /\ Offset \in Nat \ {0} /\ {MaxAccounts, MaxDeployed} \subseteq Nat
    /\ {MayOverlap, MayRestore, MayAddByChain} \subseteq BOOLEAN
    /\ None \notin Key

Keys == {KeyOf(accounts[i]) : i \in DOMAIN accounts}
Known(id) == id \in Readonly \cup custom

(* The places of the accounts on a network, of the visible ones of them,   *)
(* and the first of some places.                                           *)
On(list, network) == {i \in DOMAIN list : list[i].network = network}
VisibleOn(list, network) == {i \in On(list, network) : ~list[i].hidden}
FirstOf(places) == CHOOSE i \in places : \A j \in places : i <= j

(* accountStore.push of one account.                                       *)
Put(list, account) ==
    IF \E i \in DOMAIN list : KeyOf(list[i]) = KeyOf(account)
    THEN [i \in DOMAIN list |-> IF KeyOf(list[i]) = KeyOf(account) THEN account ELSE list[i]]
    ELSE Append(list, account)

Init ==
    /\ custom = DefaultCustom
    /\ accounts = << >>
    /\ selected = None
    /\ shown = Default
    /\ adding = None
    /\ deployed \in SUBSET Earlier
    /\ pushed = {}
    /\ restored = FALSE
    /\ blind = {}

Idle == MayOverlap \/ adding = None

---------------------------------------------------------------------------
(* The wallet.                                                             *)

(* The first index no path has, of those the loop looks at.                *)
GetNextPathIndex(paths) ==
    LET length == Cardinality(DOMAIN paths)
        free == {i \in 0 .. (length - 1) : \A j \in DOMAIN paths : paths[j] # i}
    IN  IF free = {} THEN length ELSE FirstOf(free)

(* Faulty: an account that is hidden does not count.                       *)
VisiblePaths(network) == [i \in VisibleOn(accounts, network) |-> accounts[i].index]

(* The indices of the accounts on a network, of whatever class, hidden     *)
(* ones included.                                                          *)
CurrentPaths(network) == [i \in On(accounts, network) |-> accounts[i].index]

(* newAccount reads the list.  It looks at the network of every account,   *)
(* and throws if one of them has none.                                     *)
NewAccount(network) ==
    /\ adding = None
    /\ Len(accounts) < MaxAccounts
    /\ Known(network) /\ network = shown
    /\ \A key \in Keys : Known(key.network)
    /\ adding' = At(network, ClassOf[network], GetNextPathIndex(CurrentPaths(network)))
    /\ UNCHANGED <<custom, accounts, selected, shown, deployed, pushed, restored, blind>>

(* It pushes the account and selects it; the screen moves to it (recover). *)
PushAccount ==
    /\ adding # None
    /\ accounts' = Put(accounts, Visible(adding))
    /\ selected' = adding
    /\ shown' = adding.network
    /\ adding' = None
    /\ UNCHANGED <<custom, deployed, pushed, restored, blind>>

(* deployAccount, which also selects the account.  Of the hidden accounts  *)
(* it may be the one that is used although nothing is selected.            *)
Deploy(key) ==
    /\ key \in Keys \ deployed /\ Cardinality(deployed) < MaxDeployed
    /\ deployed' = deployed \cup {key}
    /\ selected' = key
    /\ blind' = blind \cup {KeyOf(accounts[i]) : i \in {j \in DOMAIN accounts :
                                    KeyOf(accounts[j]) = key /\ accounts[j].hidden}}
    /\ UNCHANGED <<custom, accounts, shown, adding, pushed, restored>>

(* The classes the wallet looks for on a network.                          *)
Searched(network) == KnownClasses \cup {ClassOf[network]}

(* Faulty: the search does not go on from a hit.                           *)
RestoredFromStart(network, class) ==
    {i \in 0 .. (Offset - 1) : At(network, class, i) \in deployed}

(* The loop of restoreAccountsFromWallet for one of them: lastHit by       *)
(* lastCheck, and the hits before it ends.                                 *)
Restored(network, class) ==
    LET has(i) == At(network, class, i) \in deployed
        lastHit[check \in Nat] ==
            IF check = 0 THEN 0 ELSE IF has(check - 1) THEN check - 1 ELSE lastHit[check - 1]
    IN  {i \in 0 .. MaxAccounts :
            has(i) /\ \A check \in 0 .. i : lastHit[check] + Offset > check}

RestoredAccounts(network) ==
    UNION {{At(network, c, i) : i \in Restored(network, c)} : c \in Searched(network)}

(* RESET_ALL, then restoreSeedPhrase and discoverAccounts: the stores are  *)
(* empty, and the wallet finds its accounts on the default networks; if    *)
(* there are none, it makes one.                                           *)
Recover ==
    LET found == UNION {RestoredAccounts(n) : n \in Readonly \cup DefaultCustom}
    IN  /\ adding = None
        /\ Cardinality(found) <= MaxAccounts
        /\ custom' = DefaultCustom
        /\ shown' = Default
        /\ selected' = None
        /\ pushed' = {}
        /\ restored' = FALSE
        /\ blind' = {}
        /\ \E order \in [1 .. Cardinality(found) -> found] :
              /\ \A i, j \in DOMAIN order : order[i] = order[j] => i = j
              /\ accounts' = [i \in DOMAIN order |-> Visible(order[i])]
        /\ adding' = IF found = {} THEN At(Default, ClassOf[Default], 0) ELSE None
        /\ UNCHANGED deployed

(* What getSelectedAccount answers, whom all that is asked for is done for:*)
(* the selected account, or the first of the default network, or the first.*)
Used ==
    LET here == {i \in DOMAIN accounts : KeyOf(accounts[i]) = selected}
        default == On(accounts, Default)
    IN  IF accounts = << >> THEN None
        ELSE accounts[FirstOf(IF here # {} THEN here
                              ELSE IF default # {} THEN default ELSE DOMAIN accounts)]

---------------------------------------------------------------------------
(* The screens.                                                            *)

(* Of these places, that of an account with the address of another one, or *)
(* else the first; with no place, none.                                    *)
Choice(list, places, address) ==
    LET same == {i \in places : /\ address # None
                               /\ list[i].class = address.class /\ list[i].index = address.index}
    IN  IF places = {} THEN None
        ELSE KeyOf(list[FirstOf(IF same = {} THEN places ELSE same)])

(* autoSelectAccountOnNetwork: the visible account with the address of the *)
(* selected one, or the first, or none.                                    *)
AutoSelect(list, network) == Choice(list, VisibleOn(list, network), selected)

SwitchNetwork(network) ==
    /\ Idle
    /\ Known(network) /\ network # shown
    /\ shown' = network
    /\ selected' = AutoSelect(accounts, network)
    /\ UNCHANGED <<custom, accounts, adding, deployed, pushed, restored, blind>>

Select(i) ==
    /\ Idle
    /\ accounts[i].network = shown /\ ~accounts[i].hidden
    /\ selected' = KeyOf(accounts[i])
    /\ UNCHANGED <<custom, accounts, shown, adding, deployed, pushed, restored, blind>>

Hide(i) ==
    /\ Idle
    /\ accounts[i].network = shown /\ ~accounts[i].hidden
    /\ accounts' = [accounts EXCEPT ![i].hidden = TRUE]
    /\ selected' = AutoSelect(accounts', shown)
    /\ UNCHANGED <<custom, shown, adding, deployed, pushed, restored, blind>>

(* DELETE_ACCOUNT, which is offered for the local network only.            *)
Delete(i) ==
    /\ Idle
    /\ accounts[i].network = shown /\ shown \in DefaultCustom
    /\ accounts' = [j \in 1 .. (Len(accounts) - 1) |-> accounts[IF j < i THEN j ELSE j + 1]]
    /\ selected' = AutoSelect(accounts', shown)
    /\ UNCHANGED <<custom, shown, adding, deployed, pushed, restored, blind>>

(* The list of hidden accounts.  Without a selected account the empty      *)
(* screen selects what has become visible.                                 *)
Unhide(i) ==
    /\ Idle
    /\ accounts[i].network = shown /\ accounts[i].hidden
    /\ accounts' = [accounts EXCEPT ![i].hidden = FALSE]
    /\ selected' = IF selected \in Keys THEN selected ELSE AutoSelect(accounts', shown)
    /\ UNCHANGED <<custom, shown, adding, deployed, pushed, restored, blind>>

(* recover, when the extension is opened: the account it would act for, or *)
(* if that is hidden the first visible one of its network; with no account *)
(* the default network.                                                    *)
Open ==
    LET network == IF Used = None THEN Default ELSE Used.network
    IN  /\ Idle
        /\ Known(network)
        /\ shown' = network
        /\ selected' = IF Used # None /\ ~Used.hidden THEN KeyOf(Used)
                       ELSE Choice(accounts, VisibleOn(accounts, network), None)
        /\ UNCHANGED <<custom, accounts, adding, deployed, pushed, restored, blind>>

---------------------------------------------------------------------------
(* Networks.                                                               *)

(* NetworkSettingsFormScreen, in which the user adds one.                  *)
AddNetwork(id) ==
    /\ Idle
    /\ ~Known(id)
    /\ custom' = custom \cup {id}
    /\ UNCHANGED <<accounts, selected, shown, adding, deployed, pushed, restored, blind>>

(* REQUEST_ADD_CUSTOM_NETWORK asks getNetwork, which knows ids, for the    *)
(* chain: so it refuses only a chain that is the id of a network.          *)
RequestNetwork(id) ==
    /\ MayAddByChain
    /\ ~Known(Chain[id])
    /\ pushed' = pushed \cup {id}
    /\ UNCHANGED <<custom, accounts, selected, shown, adding, deployed, restored, blind>>

ApproveNetwork(id) ==
    /\ Idle
    /\ id \in pushed
    /\ pushed' = pushed \ {id}
    /\ custom' = custom \cup {id}
    /\ UNCHANGED <<accounts, selected, shown, adding, deployed, restored, blind>>

(* Faulty: only visible accounts keep a network.                           *)
RemoveUnlessVisible(id) ==
    /\ Idle
    /\ id \in custom /\ id # shown
    /\ VisibleOn(accounts, id) = {}
    /\ custom' = custom \ {id}
    /\ UNCHANGED <<accounts, selected, shown, adding, deployed, pushed, restored, blind>>

(* validateRemoveNetwork and removeNetwork.                                *)
RemoveNetwork(id) ==
    /\ Idle
    /\ id \in custom /\ id # shown
    /\ \A key \in Keys : key.network # id
    /\ custom' = custom \ {id}
    /\ UNCHANGED <<accounts, selected, shown, adding, deployed, pushed, restored, blind>>

(* validateRestoreDefaultNetworks and restoreDefaultCustomNetworks, which  *)
(* do not look at the accounts.                                            *)
RestoreDefaults ==
    /\ MayRestore
    /\ shown \in Readonly \cup DefaultCustom
    /\ custom # DefaultCustom
    /\ custom' = DefaultCustom
    /\ restored' = TRUE
    /\ UNCHANGED <<accounts, selected, shown, adding, deployed, pushed, blind>>

(* A dapp's REQUEST_SWITCH_CUSTOM_NETWORK, approved: a visible account of  *)
(* the first network with the chain (here of any), if possible with the    *)
(* address of the one that is used.                                        *)
ApproveSwitch(id) ==
    /\ Idle
    /\ Known(id) /\ VisibleOn(accounts, id) # {}
    /\ selected' = Choice(accounts, VisibleOn(accounts, id), Used)
    /\ UNCHANGED <<custom, accounts, shown, adding, deployed, pushed, restored, blind>>

Next ==
    \/ \E n \in Networks : NewAccount(n) \/ SwitchNetwork(n) \/ ApproveSwitch(n)
    \/ PushAccount
    \/ \E key \in Keys : Deploy(key)
    \/ \E i \in DOMAIN accounts : Select(i) \/ Hide(i) \/ Delete(i) \/ Unhide(i)
    \/ Open
    \/ Recover
    \/ \E n \in Networks : AddNetwork(n) \/ RemoveNetwork(n)
    \/ \E n \in Networks : RequestNetwork(n) \/ ApproveNetwork(n)
    \/ RestoreDefaults

Spec == Init /\ [][Next]_vars

---------------------------------------------------------------------------
(* Properties.                                                             *)

(* The stores keep their shapes, and an account is in the list once.       *)
TypeOK ==
    /\ custom \subseteq Networks
    /\ accounts \in Seq(Account)
    /\ \A i, j \in DOMAIN accounts : KeyOf(accounts[i]) = KeyOf(accounts[j]) => i = j
    /\ selected \in Key \cup {None}
    /\ shown \in Networks
    /\ adding \in Key \cup {None}
    /\ deployed \subseteq Key
    /\ pushed \subseteq Networks /\ restored \in BOOLEAN
    /\ blind \subseteq deployed

(* Every account has its network, and so has the screen.  newAccount and   *)
(* much else look into the network of every account, and throw without it. *)
NetworksExist == Known(shown) /\ \A key \in Keys : Known(key.network)

(* newAccount makes an account the list does not have, hidden or not: its  *)
(* answer never is an account the user has already.                        *)
NewIsNew == adding # None /\ adding' = None => Len(accounts') = Len(accounts) + 1
NewAccountIsNew == [][NewIsNew]_vars

(* What is selected is in the list and not hidden; it can be hidden if it  *)
(* was when it was deployed.                                               *)
SelectedIsVisible ==
    selected # None =>
        \E i \in DOMAIN accounts :
            KeyOf(accounts[i]) = selected /\ (accounts[i].hidden => selected \in blind)

(* Both hold, until the default networks are restored by hand.             *)
Consistent == SelectedIsVisible /\ (~ restored => NetworksExist)

(* What dapps ask for is not done for an account the user has hidden.      *)
UsedIsVisible == Used # None => ~Used.hidden

(* If from each deployed account it is less than Offset indices back to    *)
(* another one of the same network and class, or to the start, restoring   *)
(* the wallet finds all of them.  An account of another class is no help.  *)
NoGaps ==
    \A key \in deployed :
        \/ key.index < Offset
        \/ \E d \in deployed : d.network = key.network /\ d.class = key.class
                                /\ d.index < key.index /\ key.index < d.index + Offset
FindsAll ==
    Recover /\ NoGaps =>
        {key \in deployed : key.network \in Readonly \cup DefaultCustom}
            \subseteq {KeyOf(accounts'[i]) : i \in DOMAIN accounts'}
RecoveryFindsAll == [][FindsAll]_vars

(* A dapp is refused a network whose chain the wallet has.                 *)
KnownChainIsRefused ==
    [][ \A id \in pushed' \ pushed : \A n \in Networks : Known(n) => Chain[n] # Chain[id] ]_vars
=============================================================================
