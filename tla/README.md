# Verification of the cryptex multisig wallet

Cryptex is a weighted multi-signature wallet on StarkNet: an account contract
that counts the weight of the keys that signed, a server that collects
signatures, and a browser extension (a fork of Argent X) that asks people for
them. This directory holds TLA+ models of it, the TLC runs that check them on
small instances, and proofs that TLAPS checks for every instance.

Source paths are relative to the repository; `ext/` stands for
`argent-x/packages/extension/src`, `swap/` for `argent-x/packages/swap/src`.

## The system

| part | state | operations | module |
|---|---|---|---|
| **Account contract** `contracts/src/account.cairo` | `threshold`, `n_keys`, `weights`, `keys`; the chain adds the account's nonce | constructor, `add_key`, `remove_key_at`, `set_threshold`, `__validate__`, `__validate_declare__`, `__execute__` | `MultisigAccount` |
| **Signature server** `backend/multi_sig_server.py`, `signature_handler.py` | `txs` (snapshot, `signatures`, `sent`), `user_to_txs`; the handlers waiting at an `await` | `init_tx`, `add_signature`, `send_tx`, `get_pending_txs` | `SignatureServer` |
| **Chain client** `backend/feeders_client.py` | the locals of a call that waits | reads of the account one value at a time, posting | `MultisigSystem` |
| **Extension storage** `ext/shared/storage` | `browser.storage` areas | `get`, `set`, `push`, `unshift`, `remove`: read, await, write | `ArrayStorage` |
| **Action queue** `ext/background/actionQueue.ts`, `actionMessaging.ts` | the stored queue of what dapps asked for | push, approve, reject, expire | `ActionQueue` |
| **Requests of a page** `ext/inpage`, the `REQUEST_...` handlers, `actionHandlers.ts` | promises that wait for a message; the queue | ask, hear the hash, hear the outcome, time out, withdraw | `DappRequests` |
| **Nonces and execution** `ext/background/nonce.ts`, `transactions/transactionExecution.ts` | the stored nonce per account, `needsDeploy` | `getNonce`, `increaseStoredNonce`, `resetStoredNonce` around `execute` | `NonceManager` |
| **Transaction tracker** `ext/background/transactions` | the list of transactions, the notifications shown | poll, load history, notify | `TransactionTracker` |
| **Wallet session** `ext/background/wallet.ts`, session and recovery messages | the encrypted backup, the session, an alarm | unlock, create, restore, lock, time out, discover | `WalletSession` |
| **Accounts and networks** `wallet.ts`, `ext/shared/network`, `ui/features/accounts`, `ui/features/settings` | the list of accounts, the selected one, the custom networks, the network shown | new, hide, delete, select, switch, add, remove, restore, recover | `AccountList` |
| **Account record** `ext/shared/account` | one record per account: deployed, class, guardian, escape, hidden | update a scope, hide | `AccountDetails` |
| **Argent Shield** `ui/features/shield`, `ext/background/accountMessaging.ts` | guardian and escape, transactions waiting and sent, the finish screen | add, remove, trigger, cancel, escape | `ShieldEscape` |
| **Swap library** `swap/`, `ui/features/swap` | pairs; the form | quotes, search for trades, selecting and typing | `SwapQuote`, `SwapPool`, `SwapRoute`, `SwapTrade`, `SwapMarket`, `SwapForm` |
| dapp, command line wallet, feeder client copy, library packages | none of the protocol's | sequential calls | not modelled |

How they interact. The dapp (or anyone) gives the server a transaction;
`init_tx` reads the account's owners and threshold through the feeder gateway,
one HTTP call per value. Owners find the transaction in `get_pending_txs`, sign
it in their wallet and call `add_signature`; the handler that completes the
weight posts the transaction to the gateway and, once that answers, marks it
sent and takes it off the lists. The sequencer runs the account's
`__validate__` and `__execute__`; the call may change the account itself.

In the extension a page calls `execute` on its injected account object. The
call becomes a message, the message an action in the stored queue, the user's
approval an execution that draws a nonce, and the transaction an entry that an
alarm polls; what it did to the account (deployed, upgraded, changed the
guardian) is fetched into the account's record, from which the screens decide
what to offer next. All of it needs an open session, and an account on a
network the wallet still has.

What is hard. In the contract: the order rule that keeps a signer from counting
twice, u128 and usize limits, the swap in `remove_key_at`, and the ways into an
entry point that pass no validation. In the server: one thread, but every
`await` lets other handlers run, so what was looked up before a post is old
after it; posts fail; everything is in memory. Between the two: the reads of
`init_tx` see different moments. In the extension: every storage operation is
read, await, write; messages, alarms and polls overlap; a page cannot tell
whose answer it hears; the worker is stopped at any await; and whole records
are written back. In the swap library: rounding, and a recursive search that
throws trades away. `PROJECT.json` lists these under "hazards", each at its line.

## Modules

| module | models |
|---|---|
| `MultisigAccount`, `SignatureServer` | the contract with the sequencer's use of it; the server, each handler split at its await |
| `MultisigSystem` | both, with the reads of `init_tx`, a mempool, and owners who go round the server |
| `ArrayStorage`, `StoredLists` | the list operations of the extension's storage; the lists of any store |
| `ActionQueue`, `ApprovalQueue` | the action queue, step by step over the storage; what it promises, abstractly |
| `DappRequests` | what a page asks for, from its call to its outcome |
| `NonceManager`, `TransactionTracker`, `AccountTransactions` | numbering an account's transactions; following them; the two side by side |
| `WalletSession`, `AccountList`, `Wallet` | backup, session and alarm; accounts, networks, selection, recovery; the two side by side |
| `AccountDetails`, `ShieldEscape`, `AccountShield` | the account's record; the guardian's transactions and screens; the two side by side |
| `SwapQuote`, `SwapPool`, `SwapRoute`, `SwapTrade`, `SwapMarket`, `SwapForm`, `SwapScreen` | amounts; a pair traded against; trades along routes and their ranking; the search; the markets it searches; the form; pair, market and form side by side |
| `MC...` | the instances TLC checks |
| `...Proofs` | theorems and their proofs |

An operator whose comment begins with "Faulty" is a deliberately wrong version
of the operator after it. No specification uses it; it is there to show that
the property it is listed with in `PROJECT.json` ("mutants") would notice.

Components that do not share state in these models are checked in one run as
its *parts*: a variable `part` of the MC module says which component, or which
setting of one component, moves in a behaviour; the others stay as they were.
`ConstantsOK` is what a component requires of its constants where the MC module
instantiates it; the MC module ASSUMEs it. A property that needs something to
be absent (overlap, a late answer, a rejection) says so itself, over a history
variable of the component (`overlapped`, `late`, `overtaken`, `blind`,
`replaced`) or over its state (`Undisturbed`), so that one instance checks it
with and without, and the theorem is about the very formula of the run. Only a property `P` that no
theorem states, because it is about liveness or is violated, may appear in the
MC module as one of `part = "..."`.

### MultisigAccount

`threshold`, `n_keys`, `weights`, `keys` are the contract's storage variables;
`nonce` is the chain's; `receipt` records which entry point ran last and who
had signed, as a block explorer would show it.

A transaction is one step. Starknet applies all the writes of a transaction or
none, so a panic is a step that is not enabled: `assert`, a u128 or usize
overflow, and a signature that does not deserialize are conjuncts.
`Constructed` says what `set_keys_and_weights` leaves, including a key that is
given twice. `AddKey`, `RemoveKeyAt`, `SetThreshold` translate the entry points
with their caller as a parameter; `Dispatch` runs a call as the account sees it
and `Execute` is `__execute__` with its three assertions. `Invoke` is a
transaction: validation unless its version is 0, then `Execute`. `CallDirectly`
is what other contracts and version 0 transactions can do without validation.

Keys are integers because the contract orders them; `r` and `s` become one
Boolean, whether `check_ecdsa_signature` accepts them for this hash. `count` of
a signature is the felt in front of the serialized array, so that a wrong count
is representable. `tx_info.transaction_hash + 1 - 1` is the hash.
`__validate_deploy__` validates like `__validate_declare__` and then runs
nothing here, so `Declare` stands for the code of the latter only. A nested
`__execute__` always panics (the caller is not zero) and has no disjunct.

### SignatureServer

`txs[t]` is the snapshot a known transaction was added with, or `NoTx`;
`signatures[t]` the signers in the order of the Python dict; `sent`, `pending`
(how often a hash occurs in a user's list) and `handler` (a slot per suspended
handler: where its post is, the signatures in the transaction it built, whether
it was forced, whether it will clear the lists) are the server's memory.
`posts`, `failed`, `forced` and `restarts` are history that properties mention.

asyncio runs a handler alone up to its await. So `AddSignature` and `SendTx`
are the handlers up to the post, `GatewayReceives` is the other end,
`Resume` the handler from the answer to its return (`tx.sent = True`, then
`_remove_tx_from_singers`), `PostFails` the exception that `log_try_wrap`
swallows, before or after the gateway received the transaction. `InitTx` is
`add_tx`: `init_tx` touches no state before its reads are done. `Restart` loses
everything. `Server.run` has no caller and calls `send_tx` without its
argument; `update_weights` has no caller and reads an attribute that does not
exist: neither has an action. `verify_signature` returns `True`, so the
server's check is modelled as what it does (nothing).

### MultisigSystem

Extends the contract and instantiates the server. `BeginInit`, `ReadKey`,
`ReadWeight`, `EndInit` are the answers that `init_tx` gets: `asyncio.gather`
asks for all the keys at once, so they are answered in any order and at any
moments; a key index past the end
panics in the contract and ends the handler. `reader` holds its locals. Two
histories tell what a snapshot was made of: `past` is the account as it was at
each nonce, and `read` the nonces between which each snapshot was read. A nonce
is enough of a clock, since only a transaction of the account's own changes the
configuration here. What the gateway receives goes to `mempool`
with the signature as `_send_tx_to_starknet` builds it; `RunPosted` and
`DropPosted` are the sequencer; `RunOwn` is a transaction that owners assemble
themselves. One `init_tx` reads at a time (two of them share nothing but
`add_tx`, whose second call is a no-op in `SignatureServer`).

### ArrayStorage, StoredLists, ActionQueue, ApprovalQueue

`ArrayStorage` has `mergeArrayStableWith` and `differenceWith` as operators
over any compare function. What filters a list is `Kept`, the elements at some
places in their order; the loop of the merge is a recursive function on the
number of elements put in. `StoredLists` has two lists, what is `stored` and
what is `given`, that grow by any elements with a key and a version; it says
what the merge of the two must be.

`ActionQueue` is `globalActionQueueStore` (`queue`) and the handlers of
messages that wait for `browser.storage` (`handler`). A handler goes through
the awaits of `ArrayStorage`: `unshift` and `remove(values)` read, compute,
write; `remove(selector)` reads twice, and takes what the second read selects
out of what the first one saw. `ObjectStorage.set` reads once more before it
writes; lists are not merged, so that read has no effect and no step. `Write`
is the moment the storage changes, `Return` and `Decide` the handler after it:
a hash that is not found ends the handler (the rest of a batch too), one that
is found goes to `handleActionApproval` or `handleActionRejection`. `Ask` is
every message that pushes an action. Actions are told apart by their
object-hash, which is all the compare function looks at. `now` is the clock;
`expires` is counted from when the message came. `Kill` is the browser stopping
the background page; `overlapped` records that a message came while another was
handled.

`ApprovalQueue` has the same history in five atomic operations: ask, take,
decide, drop, expire. `Approvals` in `ActionQueue` is the mapping: what waits
is what the list holds, what is in hand is what a handler has removed and not
yet decided on. As long as nothing has overlapped, every step of `ActionQueue`
is one of `ApprovalQueue` or a stutter (`SerialImplements`).

### DappRequests

`pc` and `hash` are the promises of `execute`, `declare`, `signMessage` and the
token and network requests: each waits a second for `..._RES`, told apart by
its type alone, and ten minutes for the outcome, told apart by the hash in it.
`sent` and `replies` are the messages under way, in no order. The stored queue
is a set here (its steps are `ActionQueue`). What goes out is what
`sendMessageToActiveTabsAndUi` and the `safeMessages` list let through, so the
refusal of a known network does not arrive; a signature that fails is thrown,
not told; a declaration is rejected under a name no page waits for, and is not
withdrawn when the page gives up.

Nothing keeps calls, timers and decisions apart: a page may call at any time,
give up while the question of another call is on its way, and the user may decide
before the hash has reached the page. What this does to a call is recorded, and
the properties say what is left. `overtaken` are the calls disturbed while they
were being asked (between their question and its hash): another of the kind was
asked or answered late, or the same action was decided on or withdrawn.
`late` are the calls whose first answer, or whose result, took longer than they
wait.

### NonceManager, TransactionTracker

`NonceManager` follows `executeTransactionAction`: `Begin` (deploy first, take
the dapp's nonce, or ask), `FetchNonce`, `ReadStored`, `StoreFetched` for
`getNonce`, `Send`, `ReadIncrease`, `WriteIncrease` for `increaseStoredNonce`,
`ResetStored`. `TrackDeployed` and `TrackRejected` are the two handlers of the
tracker that touch this state. The sequencer is `Accept`, `Reject`,
`EndDeployment`. Actions are approved one at a time in the screens, so
`Overlap` is off in the checked instance; see "Disagreements".

`TransactionTracker` has slots (`task`) for what pushes into the stored list:
an addition, a poll (`update`), a history load. A task begins by reading the
list, collects answers that may fail one by one (`StatusAnswered`,
`StatusFailed`), and pushes, which reads and writes again. The subscription
compares old and new lists; `HasShown` and `Notify` are the two halves of a
notification. The list is a set, since merging keeps one entry per hash and
nothing depends on its order. The statuses are all that `shared/transactions.ts`
names: a transaction may be lost sight of (`NOT_RECEIVED`) and turn up, and get
from L2 to L1; what a history load finds it lists as accepted on L2, whatever the
explorer says (`transformers.ts:13`). `overlapped` records that a task began while
another one, or a notification of the last, was under way.

`AccountTransactions` puts the two side by side, each with variables of its
own, so that one run and one module of proofs can speak of both; `Wallet` does
the same for the session and the list.

### WalletSession, AccountList

`WalletSession` is `startSession`, `restoreSeedPhrase`, `importBackup`, `lock`,
`setSession` and the alarm, split at each await: storage, scrypt, `alarms.get`,
the chain. A backup is the secret and the password that opens it. The alarm is
Chrome's: it survives the service worker (`StopWorker`), its listener does not.

`AccountList` tells accounts apart by network, class and derivation index,
since the address follows from these. A new account has the class of its
network; those that earlier releases deployed (`Earlier`) have another that is
still searched for (`KnownClasses`). `NewAccount` and `PushAccount` are the two
halves of `newAccount`; `Deploy` is `deployAccount`, which selects the account
it deploys, and `blind` records those that were hidden then; `Recover` is
RESET_ALL followed by `discoverAccounts`, with one search per class and network
(`Restored`, the loop with its own `lastHit` and `lastCheck`); `Used` is
`getSelectedAccount`. The screens' handlers are `SwitchNetwork`, `Select`,
`Hide`, `Delete`, `Unhide`, `Open`; a dapp's are `RequestNetwork`,
`ApproveNetwork`, `ApproveSwitch`. The button that adds an account is disabled
while one is added, so `MayOverlap` is off. `restored` records that the default
networks have been restored by hand since the list was last built. Answers of
the chain in `Recover` are taken for granted; that one may be missing and that
this is not noticed is `Discover` in `WalletSession`.

### AccountDetails, ShieldEscape, AccountShield

`AccountDetails` is `updateAccountDetails`: read the record, fetch what the
scope names (a failed guardian or escape is stored as undefined), store the
whole record; `hideAccount` does the same without fetching. `chain` is the
account on the chain; `was[u]` is history, what the account has been, or has
seemed to be where an answer failed, since `u` began; `asked` is what the user
said last about hiding.

`ShieldEscape` builds on the record: which screen offers what (`Offers`), who
signs beside the owner (`Second`: `getSignerForAccount` and `cosignMessage`,
which throws when the cosigner does), the two transactions of a removal
(`NextRemoval`), the screen that waits for the change (`Watch`, `LiveStatus`).
One update runs at a time here; overlapping ones are `AccountDetails`. The
account contract with a guardian is not in this repository: `Valid` and
`Effect` say what the extension's calls presuppose of it, including that a
change of the guardian clears a pending escape, and are marked external.
`AccountShield` has both, each with variables of its own.

### Swap

`SwapQuote` has the formulas of `pair.ts` in natural numbers, with JSBI's
division. `SwapPool` is one trader who swaps, adds and removes liquidity in any
order, each amount as the library quotes it.

`SwapRoute` has `Route` and `Trade`: the amounts along a route, or against it,
as functions that go from pair to pair (`AmountsIn`, `AmountsOut`), the
comparators (percentages and prices compare as cross products), and
`sortedInsert`, where `window` is what is left of the binary search after so
many turns of its loop. `IsBest` says what the best of some trades are.

`SwapTrade` is `bestTradeExactIn`/`Out`. Their recursion is a recursive function
over paths, which are the places in the market of the pairs taken so far:
`TurnsIn` and `TurnsOut` say what becomes of a path (it ends at the token that
is wanted, it goes on, or it stops), `Visits` lists those that end in the order
in which the search completes them, and `Collected` inserts their trades in
that order, since all calls of the recursion share one `bestTrades`.

`SwapMarket` grows every market of some pairs and says what the search must
find in it without following the search: the best trades of all routes with no
pair twice and with reserves that can pay (`Open`, `Affordable`). Between the
two tokens the search for an exact input may pass through its own input token,
the one for an exact output through its output; the other end it cannot pass
(`arrival`).

`SwapForm` is the reducer of the swap screen; `meant` records which currency the
user typed the amount for or has chosen for it, and `replaced` that the screen's
own effect has put USDC in its place since (`SelectDefault`). `SwapScreen` has pair, market and form side by side.

## Runs

| run | instance and parts | properties |
|---|---|---|
| `account` | 3 keys, weights to 3, at most 3 list entries, 4 transactions, 3 deployments; signatures in every order, repeated, forged, with wrong counts | `LiveWeightIsListed`, `ValidationIsQuorum`, `QuorumRule` |
| `server` | 1 transaction, 3 users, 3 overlapping handlers, 4 snapshots, failing and forced posts, 1 restart, fairness | `ListsAreExact`, `SentIsNotPending`, `AutoPostsOnlyUnsent`, `SignedQuorumIsSent` |
| `system` | 2 owners, 4 transactions (removing an owner, lowering the threshold, adding a key, a transfer through the server), 1 handler, 1 restart | `SnapshotWasRead`, `ReadyIsQuorum` |
| `queue` | *serial*: 2 actions, asked and decided twice each, 3 batches, 1 handler, expiry, 1 kill; *overlap*: 2 handlers, asked and decided once each; *lists*: all pairs of lists of up to 3 elements, 3 keys, 2 versions | `OnePerAction`, `AnsweredAsAsked`, `MergeIsStable`, `SerialImplements` |
| `dapp` | 3 calls for networks, two of them for the same, or 2 for one token, or 1 for a signature, overlapping in any way; answers that come too late, 1 kill | `ShownIsAwaited`, `WaitingCanBeAnswered`, `DecidedIsTold`, `ResultIsOwn` |
| `transactions` | *plain* and *disturbed*: 3 executions, the latter with rejection, upgrade, deployment, nonces named by dapps, 1 closed browser; *tracked*: 2 transactions with every status, one task at a time; *polled*: 1 transaction, 2 overlapping tasks, reverts | `UndisturbedQueue`, `PlainDrains`, `StoredIsBacked`, `ListedAsAnswered`, `OnlyForward`, `NotifiedOnce`, `TrackedIsNotified` |
| `wallet` | *session*: 2 messages at a time, 1 secret and 1 phrase, 2 passwords, stopped worker; *accounts*: 3 networks, 3 accounts; *recovery*: 2 networks, 2 classes, 2 deployed accounts, one of them perhaps of an earlier release, search offset 2 | `SessionMatchesBackup`, `SessionIsTimed`, `ListIsConsistent`, `NewAccountIsNew`, `RecoveryFindsAll` |
| `guardian` | *updates*: 2 overlapping updates, 2 changes; *hiding*: failures, 4 changes; *removal*: no cosigner, fairness; *screens*, *watched*: a cosigner, all wishes | `HiddenAsAsked`, `ScreensOfferValid`, `DeployedForGood`, `CurrentGuardian`, `UpdatesConverge`, `GuardianIsRemoved` |
| `swap` | *pool*: reserves 11 and 7, 7 exchanges; *market*: 4 tokens, up to 4 pairs, 3 hops; *form*: 4 currencies | `NoProfit`, `ShareKept`, `FindsBest`, `FormKeepsValue` |
| `system_format` | as `system` | **violated**: `PostedSignaturesDeserialize` |
| `session_minutes` | `wallet`, part *session* | **violated**: `SessionLastsItsDuration` |
| `networks_restored` | `wallet`, part *restore* | **violated**: `RestoredNetworksExist` |

Account. `LiveWeightIsListed`: a key with a vote can be removed.
`ValidationIsQuorum`: `validate_transaction` accepts exactly the genuine
signatures of distinct signers whose power reaches the threshold.
`QuorumRule`: nothing else changes owners, weights or threshold.

Server. `ListsAreExact`: the lists are exactly the members that still have to
sign until the transaction is sent. `SentIsNotPending`: then they are clear,
whichever handler came back first. `AutoPostsOnlyUnsent`: what a signature may
post. `SignedQuorumIsSent`: a transaction whose signatures reach the threshold
is sent, unless a post failed or the memory was lost. It says "somebody signed"
because a snapshot whose threshold is 0 is Ready from the start and nothing
posts it, and "no post failed" because nothing tries again.

System. `SnapshotWasRead`: each member of a snapshot was listed while it was read
and has a weight of then or, as weights are read after keys, of a little later;
the threshold is that of the end; and if no transaction ran meanwhile, the
snapshot is the account as it was. `ReadyIsQuorum`: so what the server calls Ready,
or posts unforced, has signers who weighed the threshold while the snapshot was
read. More is not true: the snapshot may be torn, or stale when the transaction is
next in line (see "Disagreements"); the contract, which checks again, does not rely
on it (`QuorumRule` of the account run).

Queue. `SerialImplements`: as long as one handler runs at a time, killed at any
await, the stored list is the abstract queue, so that no question is answered
twice (`AnsweredAsAsked`). With two handlers that is lost; that nothing is
decided that nobody asked for, and one entry per action (`OnePerAction`), are
kept. `MergeIsStable` says what the merge of two lists
must be without following the algorithm, for all lists up to three elements.

Requests of a page, in any overlap. A result belongs to the call that returns it,
unless the call was overtaken while it was being asked, and is of its kind always
(`ResultIsOwn`). Unless the background page is stopped or the call was overtaken, a
call that waits can be answered, also when another with the same action gives up
(`WaitingCanBeAnswered`). What one call asks for is shown only while that call
awaits it, if its answers are in time (`ShownIsAwaited`), and nobody is told
"timed out" after the user decided, be it for several calls at once
(`DecidedIsTold`).

Transactions. `UndisturbedQueue`: until a rejection, an upgrade, a nonce named
by a dapp or a closed browser disturbs it, nonces are distinct and without a
gap, though executions fail and the chain's nonce is read before or after
acceptances; so `PlainDrains`. `StoredIsBacked`, with all disturbances: the
stored nonce is never ahead of the chain by more than was sent.
`ListedAsAnswered`, however polls overlap: a transaction is listed once, with a
status the chain has answered. As long as they do not, no status goes back
although history loads and polls alternate, but that a history load puts what is on
L1 back to L2 (`OnlyForward`), and the user hears of the end (`TrackedIsNotified`)
once (`NotifiedOnce`).

Wallet. What is open is what is backed up; an old alarm that `setSession`
finds can end a session early but never late. `ListIsConsistent`: what is
selected is visible, unless it was deployed while it was hidden, and every account
has its network until the user restores the default ones. `NewAccountIsNew`, although hidden accounts keep their index
and deleted ones give theirs free; `RecoveryFindsAll`: recovery finds every
account within the search offset of another one of its network and class.

Guardian. `UpdatesConverge`: whole records written back late do not win against
polling; `CurrentGuardian`: what an update stores was true, or seemed so, while
it ran; `DeployedForGood`, `HiddenAsAsked`: no deployment is undone, nor what
the user asked. `GuardianIsRemoved`: once its escape runs, the guardian is gone
in the end although the cosigner signs nothing, the record lags, an answer fails
and the user declines. `ScreensOfferValid`: what a screen offers is signed and
called as the contract requires, when the record is up to date; all but the
escape of the guardian, which is also offered when the escape is the signer's
(see "Disagreements").

Swap. `ShareKept`: rounding never takes value from a share of the pool;
`NoProfit`: no sequence of exchanges ends with more of both tokens. `FindsBest`:
the search returns the best trades in order, and what it quotes for an exact
output buys that output. `FormKeepsValue`: exchanging the fields never turns a
typed amount into one of a currency the user has not chosen; only the screen's
own effect does, and then it is USDC.

Each module's type invariant is in the module; where it is proved, the runs do
not list it again.

### Bounds

- Two owners of one transaction, a third who is not needed, and three handlers
  are enough for every overlap of the server: a race needs two handlers, the
  third arrives when one of them is done.
- Three keys and lists of three let the removed entry be the first, the last,
  the only one, and one of two with the same key; weights to 3 with a u128 that
  ends at 3 make the total overflow.
- The system run has transactions with nonces 0 and 1, so a change comes
  before, during and after the reads of a snapshot, and may leave it stale or torn
  for a transaction that is next in line.
- Two overlapping handlers of the queue meet in every pair of awaits; a batch
  of two goes through `remove` twice. An action expires after one unit of time,
  before, between or after the reads. Handlers are killed in the serial part
  only: with two, a kill adds no order of writes that leaving a handler waiting
  does not have.
- A page's first answer is told apart by type, so calls of different types take
  no message of each other, and a behaviour makes those of one type (`OneKind`).
  Three calls of one type, two for the same action and one for another (the
  networks), meet every way: one gives up, the second asks, and the third's answer
  is late. Tokens and signatures, whose handlers differ, meet in pairs or alone.
- Three executions: one draws its nonce while another waits and a third is
  accepted. Two overlapping polls see an old and a new status; `MaxHandlers`
  is 0 as a task starts when the notifications of the last are done (a minute).
- The session's duration is 4 with 2 "seconds" in a "minute": the alarm fires
  after, before and while a start waits. Three accounts leave a gap in the
  indices and close it again; two of three networks share a chain. Two deployed
  accounts and an offset of 2 place a hit in, at the end of, and beyond the search,
  and one of the other class between or before them, where it is of no help.
- A record has two guardians, two escapes, two classes; two updates can each be
  older than the other. An escape's period is 1 or 2: it is triggered, runs, and
  is over.
- Reserves of 11 and 7 round off a large part of every amount, which is where
  rounding the wrong way shows. Markets of four pairs have routes of one, two
  and three hops, and pairs that are empty on one side.
- Counters are guards: `MaxNonce` of `Invoke`, `MaxPosts` of `SendTx`,
  `MaxRestarts`, `MaxKills`, `MaxQuits`, `MaxAsks`, `MaxDecisions`, `MaxTime`,
  `MaxChanges`, `MaxTriggers`, `MaxEscapes`, `MaxFails`, `MaxLength`, `MaxAccounts`, `MaxDeployed`,
  `MaxSteps`, `MaxPairs` of the actions their comments name.
- `CHECK_DEADLOCK FALSE` where every bound can be used up. The `dapp` and
  `wallet` runs check for deadlock.

### Fairness

- Server: weak fairness of `GatewayReceives` and `Resume`. The event loop runs
  every handler whose awaited call has an answer, and a call is answered or
  raises (a client with a timeout). Nobody has to sign or send.
- Nonces: weak fairness of `Accept`. The sequencer takes up a transaction
  whose turn it is. No execution has to run.
- Tracker: the alarm comes every minute and the storage answers, so a task in
  its turn starts (strong, because additions and history loads may be between)
  and ends; a transaction is not refused its status for ever (strong: each
  single request may fail). When the chain accepts is up to the chain.
- Account record: the screens poll as long as they are open; promises settle.
- Shield: polls, time and the sequencer go on (weak); a user who wants the
  guardian gone asks and approves again and again (strong, for the two
  transactions of the removal only), though any request may be declined.

## What the violated runs show

1. `system_format`: `signature.insert(0, len(signature))`
   (`multi_sig_server.py:195`) writes the number of felts, three times what
   `MultiSigSerde` expects; every posted signature with an entry is refused
   with 'Invaid signature format' (`account.cairo:148`).
2. `session_minutes`: `SESSION_DURATION` is `30 * 60` and is passed as
   `delayInMinutes` (`wallet.ts:872`), so that a session lasts 1800 minutes;
   the comment says "30 mins in prod" (`wallet.ts:76`).
3. `networks_restored`: networks with accounts cannot be deleted
   (`validateRemoveNetwork.ts:21`), but restoring the defaults deletes them
   (`shared/network/index.ts:52`); `newAccount` then throws on every network,
   because it looks at each account's `network.id` (`wallet.ts:443`).

## Disagreements

Formulas in the modules that state what a comment, a name or a test says, and
of which TLC finds a counterexample in the setting named. They are no runs of
their own; the checked instances exclude the setting or the property says what
is left of it.

| formula or fact | setting | code and text |
|---|---|---|
| a transaction is posted once | two server handlers | `tx.sent` is set after the await, `multi_sig_server.py:196`, against "wasn't sent" at 137; the nonce makes the second post harmless |
| posted keys are in order | owners sign in any order | entries are posted in signing order, `:193`, against 'Keys not sequential', `account.cairo:176` |
| a transaction that is next in line and Ready has a quorum | a transaction of the account runs during or after the reads | readiness is decided against the weights and the threshold that were read, perhaps a nonce ago, perhaps in pieces, `feeders_client.py:79`, `multi_sig_server.py:72`; the contract refuses it |
| `remove` returns what it removed | two handlers of the queue | `array.ts:117` against "@returns the removed values" at 113 |
| `DistinctNonces` | `Overlap` | two executions read before either increases, `nonce.ts:24` |
| `DistinctNonces` | an account deployed and not yet seen so | nonce 1 is taken, `transactionExecution.ts:88`, against "to allow transaction queueing" |
| `StoredIsBacked` | `Overlap` | an increase adds to what another execution has stored meanwhile from a chain that was already ahead, `nonce.ts:46` |
| `DeployedForGood` | hiding while an update overlaps | `hideAccount` and `unhideAccount` write back the whole record they read, deployment included, `account/store.ts:40` |
| `RestNeedsNoUpdate` | `MayRevert`, or a PENDING transaction that is not a deployment | it is not asked for again, `transactions.ts:65`, against `tracking.ts:28` |
| `SessionIsTimed` | `MayStop` | a stopped worker loses the listener, `wallet.ts:863` |
| `RefusedIsLocked` | two overlapping starts, or a failing discovery | the session is set before `startSession` may answer no, `wallet.ts:396`, against `wallet.test.ts:191` |
| `DiscoveredIsKnown` | `MayFail`, a backup that is imported | `discoveredOnce` is set although a network did not answer, `wallet.ts:222`, against 389 |
| restoring finds what has another account within the offset | accounts of two classes alternate | each class is searched for with its own `lastHit`, `wallet.ts:285` |
| what is selected is visible | the only account is hidden, used all the same, and deployed | `deployAccount` selects it, `wallet.ts:501` |
| `UsedIsVisible` | the only account is hidden | `getSelectedAccount` falls back to it, `wallet.ts:764` |
| `KnownChainIsRefused` | `MayAddByChain` | a chain is looked up among ids, `networkMessaging.ts:47` |
| an update stores a guardian the account has had | `MayFail` | a question that fails is stored as no guardian, `getAccountGuardiansFromChain.ts:22` |
| `OfferedIsValid` without its exception | `MaxTriggers` > 0 with a cosigner | an escape of the signer is offered as if it was the guardian's, `EscapeWarningScreen.tsx:177` |
| `StatusSettles` | `MayWatch` | going from Argent's guardian to the own key leaves the screen pending, `usePendingChangingGuardian.ts:117` against 78 |
| a status never goes back, even with one task at a time | a history load after a poll saw `ACCEPTED_ON_L1` | everything it finds is listed as `ACCEPTED_ON_L2`, `transformers.ts:13` |
| a call returns the result of what it asked for | two calls of one type, or a late answer to one that gave up | the first answer is taken by whoever waits for one of its type, `ArgentXAccount.ts:39` |
| a call that waits can be answered | a call gives up while another asks for the same | the shared action is withdrawn, `ArgentXAccount.ts:54`; the hash that comes after it is of nothing |
| a typed amount stays of the currency the user chose | the screen is mounted again, or the network changes, with an output typed in another currency than USDC | an effect selects USDC and the amount stays, `Swap.tsx:200` |
| `DecidedIsTold` | kind DECLARE | rejected under a name nobody waits for, `actionHandlers.ts:298` and `ArgentXAccount.ts:103` |
| `RefusalIsTold` | a network the wallet has | the refusal is not among the safe messages, `index.ts:136` |

## Proofs

All of them hold for any sets of keys, users, transactions, handlers, calls and
so on, and for any bounds; what a theorem assumes beyond the types of the
constants stands in its `ASSUME`.

Induction over data. The provers cannot instantiate an induction theorem whose
parameter is an operator, but one about *sets* they can: that a well-founded
order has minimal elements in every non-empty set. `SomeMinimal` (subsets of a
finite set) and `NaturalsBySuccessor` (naturals) turn this into induction for a
set that is written down, and with these the recursive functions of the models
are shown to exist, step by step, before anything is proved about them.

`MultisigProofs`, about the contract alone: `TypeCorrect`; `QuorumsValidate`
(`ValidationIsQuorum`), `ChangesTakeQuorum` (`QuorumRule`), `VotesAreRevocable`
(`LiveWeightIsListed`). `validate_transaction` adds up powers along the entries,
the property along the signers as a set. `SumOf` is the latter's recursion; the
lemmas say that adding a new element to a set adds its weight, and that no
subset weighs more. So the running sum up to an entry is the weight of the keys
before it, which are distinct because they ascend; if the order is broken, the
loop fails where it is broken, and no genuine ascending signature is left out.

About contract and server: `SystemTypeCorrect`, `SnapshotsWereRead`
(`SnapshotWasRead`), `ReadyAreQuorums` (`ReadyIsQuorum`). `SystemInv` says that
the history ends with the account as it is, since every change takes a nonce
(`PastIsKept`); that each value `init_tx` has read so far is that of some nonce
since it began, a weight no older than its key (`ReaderIsCurrent`); that who signs
is a member of the snapshot (`SignersAreMembers`, `HandlersPostMembers`); and what
was read stays so while the history grows (`ReadsStay`). Then `Ready` is a sum of
the server's weights, and each of these the signer had at some moment of the read.

`SignatureServerProofs`: `TypeCorrect`, `PendingIsExact` (`ListsAreExact`),
`PostsAreQuorums` (`SentIsNotPending`), `PostsOnlyUnsent` (`AutoPostsOnlyUnsent`).
`ServerInv` adds to the checked invariants what links a suspended handler to the
lists: a transaction that was never forced is in flight only with a handler that
will clear the lists, and after it is sent the lists are clear.

`ActionQueueProofs`: `MergesAreStable` (`MergeIsStable`), `TypeCorrect`,
`ShownOnce` (`OnePerAction`), `AnsweredOnce` (`AnsweredAsAsked`),
`QueueImplements` (`SerialImplements`), for lists of any length and any number
of handlers. First the lists: `Kept` is the sequence of the kept elements
because ranks of places are exactly the numbers up to how many there are
(`RanksAreTaken`); `differenceWith` and the de-duplication follow; the merge is
one of each key by induction along its loop (`MergeIsOneOfEach`). That it is
also stable is an invariant of that loop: after any number of elements given,
what there is so far is in the order that `MergeIsStable` asks of it, each key
in its latest version (`MergedTo`), because an element whose key is known
replaces the older version where it is, and any other goes to the end, or,
newest first, to the front. Then `AskedInv`: whatever list a handler has read
or will write, however old, has one of each and only what was asked for. Then,
while nothing has overlapped, `SerialInv`: what the one handler has read is
still stored, and what it will write is the stored list without what it took.
With it each step maps to a step of `ApprovalQueue` or a stutter (`StepMaps`),
and that no question is answered twice is proved of the abstract queue
(`AnswersKept`) and carried down.

`DappRequestsProofs`: `TypeCorrect`, `ResultsAreOwn` (`ResultIsOwn`),
`WaitingAnswerable` (`WaitingCanBeAnswered`), `ShownStaysAwaited`
(`ShownIsAwaited`), `DecidedStaysTold` (`DecidedIsTold`), for any calls in any
overlap. `Alike`: while a call that was not overtaken is being asked, whatever of
its kind is asked, or whose answer is on its way, asks for the same; so its hash is
its own (`OwnHash`). `Fresh`: meanwhile no withdrawal of its action is on its way,
and what is answered is shown; after that, what it waits for is not withdrawn by
another, because the one who gives up ends it too (`Kept`). That whoever was waiting
when the user decided is told before the action leaves `running` is
`DecidedWaited`; that the action of a call that asks alone is not shown again while
it is carried out is `NotBoth`.

`AccountTransactionsProofs`, about the nonces: `TypeCorrect`,
`StoredStaysBacked` (`StoredIsBacked`), `QueueIsChained` (`UndisturbedQueue`),
for any finite set of transactions, if executions do not overlap. For the
first, `Behind` bounds what the one execution under way holds: the chain's
answer is no newer than the chain, and what it is about to increase is less
than the bound, because its own transaction counts. For the second, `Chained`:
the transactions that wait have exactly the nonces from the chain's up to
`NextNonce`, which is the stored nonce, or one more between the sending and the
increase; and an execution that is about to send holds just that nonce,
although the chain may accept in between (`Prepared`).

About the tracker: `TrackerTypeCorrect`, `ListStaysAnswered`
(`ListedAsAnswered`), `ListGoesForward` (`OnlyForward`), `NotifiesOnce`
(`NotifiedOnce`), for any set of transactions and all statuses. The first needs no
assumption about overlap: whatever list a task has read and whatever it will
push has one entry of a transaction and only statuses the chain has answered
(`Fits`), and a merge keeps this. For the others `Quiet` holds until something
overlaps: one task is under way, and while it is, no notification; what it has
read last is still what is stored, and what it was answered lies between the
stored status and the chain's, but for a history load that finds on L1 what it
lists as on L2 (`Between`; what may follow a status is `Reach`). Of a transaction at most one
notification is under way, and none once it was shown (`Noticed`).

`WalletProofs`, about the session: `TypeCorrect`, `SessionsAreTimed` (`SessionIsTimed`) with
any number of overlapping messages; `SessionIsBackup` (`SessionMatchesBackup`)
until messages overlap. `AtHand`: which half-filled key a call may hold at which
await. `Timed`: the age of a session and what is left of the alarm make no more
than the duration, and without an alarm some call is about to make one.
`Knows`: until the session is set there is none, what is decrypted is what is
stored, and a new backup is made where there is none.

About the list of accounts: `ListTypeCorrect`, `NewAccountsAreNew`
(`NewAccountIsNew`), `ListStaysConsistent` (`ListIsConsistent`),
`RecoveryFindsThem` (`RecoveryFindsAll`). That the next index is free is a
pigeonhole: if all indices below the number of accounts are taken, by as many
accounts, then none is left for the number itself (`NextIsNew`); and what is
being made stays out of the list whatever overlaps (`Numbered`). Consistency
assumes that nothing overlaps with the making of an account, because its network
could be removed before it is in the list (`MadeHasNetwork`). For recovery, the
loop's `lastHit` is shown to be a function that bounds all hits so far; of one
network and class, the first account beyond the point where the search would stop
has, without gaps, one before it within the offset, which is a hit below that point
(`SearchReaches`); that its class is one of those searched for is `InReach`.

`AccountShieldProofs`, about the record: `TypeCorrect`, `StaysDeployed` (`DeployedForGood`),
`HiddenStaysAsAsked` (`HiddenAsAsked`), `StoresTheCurrent` (`CurrentGuardian`),
for any number of overlapping updates, failing or not. Every record is written
back whole, so the invariants are about what was read: an update of a scope
other than the deployment's has read a deployed account (`ReadDeployed`; the
filter in `updateAccountDetails` is what makes it so); what an update was
answered the account has been since the update began (`AnsweredFromChain`). The
first two exclude hiding together with overlap, the third nothing.

About the shield: `ShieldTypeCorrect`, `OffersAreValid` (`ScreensOfferValid`), for
any wishes, cosigner or none, and numbers of escapes, failures and triggers. What
a screen offers depends on the escape in the record, what the contract takes on
its guardian; `Guarded`, that there is an escape on the chain only together with
a guardian, relates them, and holds because the contract drops the escape when
the guardian changes, which is why it is an assumption about code outside the
repository (`Effect`).

`SwapProofs`, about a pair: `TypeCorrect`, `SharesKept` (`ShareKept`),
`NobodyProfits` (`NoProfit`) for any reserves, purse and number of exchanges. The
lemmas are about the formulas alone: what a division leaves over belongs to the
pair, so the product of the reserves does not fall in a swap, and each reserve
per share does not in a deposit or a withdrawal. For `NoProfit` the shares that
the trader holds stand in the way, since they are worth something too. `Backed`
counts them: the product of the reserves, per square of all shares, is never less
than at the beginning. With what is in the pair and the purse together being what
it was (`Conserved`), more of one token in the purse and no less of the other
means a smaller product in the pair, for no fewer shares.

About the form: `TypedValueKept` (`FormKeepsValue`), for any currencies. Its two
parts need each other: selecting the currency of the other field exchanges the
two, and the amount with them, which is right only if the fields differ. What the
screen's own effect does is `DefaultKeeps`.

About the search: `SearchFindsBest` (`FindsBest`), for any market without two
pairs of the same tokens, any number of hops and of results; `QuotesSuffice`, its
part about exact outputs, for any route. A quote suffices hop by hop: the input of
a pair is rounded up, so it buys at least the output wanted, and a larger input
never buys less. That the search returns the best trades is put together from:

- `VisitsAre`: the search lists exactly the paths that end and whose beginnings
  all go on, each once. The recursion takes the next pair or goes one deeper, so
  it is well-founded by what is left of both.
- `WantedInAre`, `WantedOutAre`: these paths are the routes of `SwapMarket` that
  can be traded. `GoodAlong` and `GoodAgainst` follow a path pair by pair: that
  an amount is left at every pair is that no reserve is empty and something comes
  out in the end (backwards, that each pair can pay). `MarketInv`, that no two
  pairs have the same tokens, makes a route one path only.
- `InsertKeepsBest`: an insertion makes the best of some trades the best of one
  trade more. The comparator is a total preorder, by cross products; the binary
  search keeps, turn by turn, that what is left of its window comes no later and
  what is right of it comes after the new one, and has no window left after as
  many turns as there are items. `CollectedIsBest` is the induction along the
  insertions.

Assumptions: the types of the constants (`...Assumption` in the modules, as
weak as the code gives them; `TxAssumption` of `NonceManager` says that the
transactions are finitely many; `MarketAssumption` that tokens have an order,
as `sortsBefore` gives them, and that amounts, results and hops are positive),
and, in the theorem itself, that executions, or other steps and the making of an
account, do not overlap where the property needs it; under "Disagreements" is what happens when they do.

Only model-checked: liveness (`SignedQuorumIsSent`, `PlainDrains`,
`TrackedIsNotified`, `UpdatesConverge`, `GuardianIsRemoved`), which is beyond the
provers. Every other property of the passing runs is one of the theorems above.

## Not modelled

- ECDSA, felt arithmetic and gas: the contract's `withdraw_gas` can only make a
  transaction panic. The parsing and the texts of HTTP requests: a request that
  does not parse raises before any state is touched. The sequencer's declare and
  deploy bookkeeping, fees, reorganizations. The vendored feeder client.
- The dapp page and the command line wallet: sequential calls, with no protocol
  state between them; they are the environment of the server.
- Encryption, key derivation and signing of messages: pure, and opaque here.
- Connecting a dapp and the list of pre-authorized hosts: a list that is looked
  up; every sender is taken for authorized. The store of tokens and the list of
  declared contracts: nothing else depends on them. Fees: no nonce or
  status depends on them. The shield backend's registration and mails. Two
  networks on which an account has the same address.
- Of the swap library: display rounding, the hooks that fetch reserves, the
  first deposit and the protocol fee, which nothing calls. Amounts are natural
  numbers without the uint256 limit of a `TokenAmount` (`currencyAmount.ts:32`): one
  beyond it, which only reserves near 2^256 give, would throw through the search
  (`trade.ts:463`).
- In the search for accounts, a question for code that fails: the search of that
  class ends, and `Promise.allSettled` hides it (`wallet.ts:328`). Which class
  a network gives (`getAccountClassHashForNetwork`, which on a development network
  may declare one) is a constant.
- The screens. Most of the repository's TypeScript lays out what these stores
  hold (forms, buttons, icons, texts, routes), converts amounts for display,
  or wraps other services. It has no state that outlives the
  component, and the few screens that do keep state or decide what is sent
  are in `SwapForm`, `ShieldEscape`, `AccountList` and `NonceManager`. That is
  why the share of lines the models stand for is small although the stores,
  handlers and background tasks are covered.

## State

All modules of the plan are written and checked, and every invariant and action
property of a passing run is proved for all constants. What could come next is
either beyond the provers (liveness) or outside the model ("Not modelled").
