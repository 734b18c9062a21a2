---------------------------- MODULE ShieldEscape ----------------------------
(***************************************************************************)
(* Argent Shield: an account with a second signer, the guardian, and the   *)
(* way to get rid of a guardian that does not sign any more                *)
(* (argent-x/packages/extension/src: background/accountMessaging.ts,       *)
(* ui/features/shield, shared/shield, wallet.ts getSignerForAccount).      *)
(*                                                                         *)
(* The screens offer what the stored record of the account calls for, and  *)
(* the record follows the chain by polling (AccountDetails; one update at a*)
(* time here).  The account contract is modelled as the extension uses it. *)
(***************************************************************************)
EXTENDS Naturals

CONSTANTS
    Wishes,      \* the kinds of transactions the user asks for
    Cosigner,    \* whether Argent still signs
    Period,      \* the security period of an escape
    MaxEscapes,  \* how often an escape of the guardian is triggered elsewhere
    MaxChanges,  \* how often Argent triggers an escape of the signer
    MaxFails,    \* how often the chain does not answer
    MayWatch,    \* whether the user looks at the finish screen
    None

Kinds == {"add", "remove", "cancel", "trigger", "escape"}
Guardians == {"none", "argent", "self"}
Escapes == [type : {"guardian", "signer"}, left : 0 .. Period]
Details == [guardian : Guardians, escape : Escapes \cup {None}]
Transactions == [kind : Kinds, second : Guardians]

(* What the constants have to be.                                         *)
ConstantsOK ==
    /\ Wishes \subseteq Kinds /\ {Cosigner, MayWatch} \subseteq BOOLEAN
    /\ {Period, MaxEscapes, MaxChanges, MaxFails} \subseteq Nat
    /\ None \notin Escapes

VARIABLES
    stored,  \* guardian and escape in the account's record
    fetched, \* those an update has fetched, or None
    queue,   \* the kinds of transactions that wait for approval
    sent,    \* the pending transactions
    watch,   \* the finish screen: the transaction and the guardian before
    chain,   \* external: the account contract
    budget   \* how often the environment still does each thing

vars == <<stored, fetched, queue, sent, watch, chain, budget>>

Plain == [guardian |-> "none", escape |-> None]

Init ==
    /\ chain \in [guardian : {"none", "argent"}, escape : {None}]
    /\ stored = chain
    /\ fetched = None
    /\ queue = {} /\ sent = {}
    /\ watch = None
    /\ budget = [escape |-> MaxEscapes, change |-> MaxChanges, fail |-> MaxFails]

Spend(what) == budget[what] > 0 /\ budget' = [budget EXCEPT ![what] = @ - 1]
Escaping(d, type) == d.escape # None /\ d.escape.type = type
Active(d) == d.escape # None /\ d.escape.left = 0

---------------------------------------------------------------------------
(* The screens.                                                            *)

(* useAccountHasPendingCancelEscape; a trigger carries the same mark.      *)
PendingEscape == \E t \in sent : t.kind \in {"cancel", "trigger"}
PendingChange == \E t \in sent : t.kind \in {"add", "remove", "escape"}

(* The screen that removes the guardian, in two transactions.              *)
Ready ==
    /\ ~ PendingEscape /\ ~ PendingChange
    /\ Active(stored) \/ stored.guardian = "self"

(* Faulty: any guardian is escaped from, the own key as well.              *)
NextRemovalEscape == IF stored.guardian = "none" THEN "remove" ELSE "escape"

(* ACCOUNT_ESCAPE_AND_CHANGE_GUARDIAN: to the own key, then to zero.       *)
NextRemoval == IF stored.guardian = "self" THEN "remove" ELSE "escape"

(* What a screen lets the user ask for.                                    *)
Offers(kind) ==
    \/ ~ PendingChange /\ kind = (IF stored.guardian # "none" THEN "remove" ELSE "add")
    \/ Ready /\ kind = NextRemoval
    \/ /\ ~ PendingEscape /\ ~ PendingChange /\ ~ Ready
       /\ \/ kind = "cancel" /\ stored.escape # None
          \/ kind = "trigger" /\ Escaping(stored, "signer")

Ask(kind) ==
    /\ kind \in Wishes /\ Offers(kind)
    /\ queue' = queue \cup {kind}
    /\ UNCHANGED <<stored, fetched, sent, watch, chain, budget>>

(* Faulty: the guardian's signature is asked for, whatever is called.      *)
SecondAlways(kind) ==
    CASE stored.guardian = "argent" -> IF Cosigner THEN "argent" ELSE None
      [] OTHER -> stored.guardian

(* Who signs beside the owner: getSignerForAccount, and cosignMessage,     *)
(* that throws when the cosigner does.                                     *)
Second(kind) ==
    CASE stored.guardian = "argent" /\ kind \in {"escape", "trigger"} -> "none"
      [] stored.guardian = "argent" /\ kind \notin {"escape", "trigger"} ->
            IF Cosigner THEN "argent" ELSE None
      [] OTHER -> stored.guardian

Approve(kind) ==
    /\ kind \in queue
    /\ queue' = queue \ {kind}
    /\ sent' = sent \cup {[kind |-> kind, second |-> s] : s \in {Second(kind)} \ {None}}
    /\ UNCHANGED <<stored, fetched, watch, chain, budget>>

Decline(kind) ==
    /\ kind \in queue
    /\ queue' = queue \ {kind}
    /\ UNCHANGED <<stored, fetched, sent, watch, chain, budget>>

(* An update of the record: each answer that fails is stored as undefined. *)
Fetch ==
    /\ fetched = None
    /\ fetched' = chain
    /\ UNCHANGED <<stored, queue, sent, watch, chain, budget>>

FetchFails(fails) ==
    /\ fetched = None /\ fails # {} /\ Spend("fail")
    /\ fetched' = [f \in DOMAIN chain |-> IF f \in fails THEN Plain[f] ELSE chain[f]]
    /\ UNCHANGED <<stored, queue, sent, watch, chain>>

Push ==
    /\ fetched # None
    /\ stored' = fetched
    /\ fetched' = None
    /\ UNCHANGED <<queue, sent, watch, chain, budget>>

(* The finish screen: it keeps the pending transaction, and whether the    *)
(* account had a guardian.                                                 *)
Watch(t) ==
    /\ MayWatch /\ watch = None
    /\ t \in sent /\ t.kind \in {"add", "remove", "escape"}
    /\ watch' = [tx |-> t, had |-> stored.guardian # "none", status |-> "PENDING"]
    /\ UNCHANGED <<stored, fetched, queue, sent, chain, budget>>

(* useLiveAccountGuardianState.                                            *)
LiveStatus ==
    IF watch = None THEN "NONE"
    ELSE IF watch.status = "ERROR" THEN "ERROR"
    ELSE IF watch.status = "SUCCESS" /\ (stored.guardian # "none") # watch.had
         THEN "SUCCESS" ELSE "PENDING"

---------------------------------------------------------------------------
(* The account contract and the time.                                      *)

(* A call of its own that is signed as the guardian requires.  Escapes are *)
(* "used when guardian is assigned, but without cosigner".                 *)
Valid(kind, second) ==
    CASE kind = "escape" -> chain.guardian # "none" /\ Escaping(chain, "guardian") /\ Active(chain)
      [] kind = "trigger" -> chain.guardian # "none"
      [] kind = "cancel" -> second = chain.guardian /\ chain.escape # None
      [] OTHER -> second = chain.guardian

Effect(kind) ==
    [guardian |-> CASE kind = "add" -> "argent" [] kind = "remove" -> "none"
                    [] kind = "escape" -> "self" [] OTHER -> chain.guardian,
     escape |-> IF kind = "trigger" THEN [type |-> "guardian", left |-> Period] ELSE None]

Execute(t) ==
    /\ t \in sent
    /\ sent' = sent \ {t}
    /\ chain' = IF Valid(t.kind, t.second) THEN Effect(t.kind) ELSE chain
    /\ watch' = IF watch # None /\ watch.tx = t /\ watch.status = "PENDING"
                THEN [watch EXCEPT !.status = IF Valid(t.kind, t.second) THEN "SUCCESS" ELSE "ERROR"]
                ELSE watch
    /\ UNCHANGED <<stored, fetched, queue, budget>>

(* The owner triggers the escape of the guardian with another program, or  *)
(* Argent that of the signer, which does not replace one of the guardian.  *)
TriggerElsewhere ==
    /\ chain.guardian # "none" /\ Spend("escape")
    /\ chain' = Effect("trigger")
    /\ UNCHANGED <<stored, fetched, queue, sent, watch>>

TriggerSigner ==
    /\ chain.guardian = "argent" /\ ~ Escaping(chain, "guardian") /\ Spend("change")
    /\ chain' = [chain EXCEPT !.escape = [type |-> "signer", left |-> Period]]
    /\ UNCHANGED <<stored, fetched, queue, sent, watch>>

(* activeAt is a time: every copy of it comes closer.                      *)
Later(d) == IF d = None \/ d.escape = None \/ Active(d) THEN d ELSE [d EXCEPT !.escape.left = @ - 1]
Tick ==
    /\ \E d \in {chain, stored} : d.escape # None /\ ~ Active(d)
    /\ chain' = Later(chain)
    /\ stored' = Later(stored)
    /\ fetched' = IF fetched = None THEN None ELSE Later(fetched)
    /\ UNCHANGED <<queue, sent, watch, budget>>

Next ==
    \/ \E kind \in Kinds : Ask(kind)
    \/ \E kind \in Kinds : Approve(kind)
    \/ \E kind \in Kinds : Decline(kind)
    \/ Fetch
    \/ \E fails \in SUBSET {"guardian", "escape"} : FetchFails(fails)
    \/ Push
    \/ \E t \in Transactions : Watch(t)
    \/ \E t \in Transactions : Execute(t)
    \/ TriggerElsewhere
    \/ TriggerSigner
    \/ Tick

(* The extension polls, time passes, the sequencer works, and a user who   *)
(* wants the guardian gone asks and approves again and again.              *)
Fairness ==
    /\ WF_vars(Fetch) /\ WF_vars(Push) /\ WF_vars(Tick)
    /\ \A t \in Transactions : WF_vars(Execute(t))
    /\ \A kind \in {"escape", "remove"} : SF_vars(Ask(kind)) /\ SF_vars(Approve(kind))

Spec == Init /\ [][Next]_vars /\ Fairness

---------------------------------------------------------------------------
(* Properties.                                                             *)

(* Every signature is one that a signer of the wallet makes, every record  *)
(* one that the contract can answer.                                       *)
TypeOK ==
    /\ stored \in Details /\ chain \in Details /\ fetched \in Details \cup {None}
    /\ queue \subseteq Kinds /\ sent \subseteq Transactions
    /\ watch # None => watch.tx \in Transactions

(* "You can now remove Argent Shield instantly" (EscapeGuardianReady.tsx:30*)
(* and the other screens): when the record is what is on the chain, what a *)
(* screen offers is signed and called as the contract requires, whatever   *)
(* was asked for before; all but the escape of the guardian, which is also *)
(* offered when the time of an escape of the signer is over.               *)
OfferedIsValid ==
    stored = chain =>
        \A kind \in Kinds :
            /\ Offers(kind) /\ Second(kind) # None
            /\ ~ (kind = "escape" /\ Escaping(stored, "signer"))
            => Valid(kind, Second(kind))

(* Once its escape runs, the guardian is gone in the end, although Argent  *)
(* signs nothing, the record lags, answers fail and actions are declined.  *)
RemovalCompletes == Escaping(chain, "guardian") ~> chain.guardian = "none"

(* "return status during its lifecycle, including awaiting for on-chain    *)
(* state to change before moving to SUCCESS state"                         *)
(* (usePendingChangingGuardian.ts:78): when the transaction that replaces  *)
(* the guardian is done, the screen does not wait for ever.                *)
StatusSettles ==
    watch # None /\ watch.tx.kind = "escape" ~> LiveStatus # "PENDING"
=============================================================================
