--------------------------- MODULE AccountDetails ---------------------------
(***************************************************************************)
(* What the extension knows of an account, and how it is kept up to date   *)
(* (argent-x/packages/extension/src/shared/account/update.ts, store.ts and *)
(* details/).                                                              *)
(*                                                                         *)
(* An update reads the account's record, asks the chain for what its scope *)
(* names, and stores the whole record with what was answered; hiding reads *)
(* the record and stores it, too.  The handlers of transaction updates run *)
(* side by side with each other and with the UI, which polls.              *)
(***************************************************************************)
EXTENDS Naturals

CONSTANTS
    Task,      \* the updates that may be under way at a time
    Guardian,  \* the guardians of the account, None is one of them
    Escape,    \* the escapes of the account, None is one of them
    None,
    Overlap,   \* whether a task may start while another is under way
    MayFail,   \* whether the chain may fail to answer
    MayHide,   \* whether the user hides the account and shows it again
    MaxChanges \* how often the account on the chain, or the user's mind, changes

ASSUME NoneAssumption == None \in Guardian \cap Escape
ASSUME FlagsAssumption == {Overlap, MayFail, MayHide} \subseteq BOOLEAN
ASSUME ChangesAssumption == MaxChanges \in Nat

VARIABLES
    stored,   \* the account's record in accountStore
    scope,    \* of each task, "none" when it is not under way
    snapshot, \* the record the task has read
    fetched,  \* what the chain has answered the task, a function
    chain,    \* external: the account on the chain
    asked,    \* history: the last hidden flag the user asked for
    was,      \* history: what the account has been, or has seemed to be, since the task started
    changes   \* history

tasks == <<scope, snapshot, fetched>>
vars == <<stored, tasks, chain, asked, was, changes>>

Record == [needsDeploy : BOOLEAN, hidden : BOOLEAN, current : BOOLEAN,
           guardian : Guardian, escape : Escape]
Account == [deployed : BOOLEAN, current : BOOLEAN, guardian : Guardian, escape : Escape]

Nothing == [f \in {} |-> None]
Blank == [needsDeploy |-> TRUE, hidden |-> FALSE, current |-> FALSE, guardian |-> None, escape |-> None]

Init ==
    /\ chain \in {c \in Account : c.deployed \/ (c.current /\ c.guardian = None /\ c.escape = None)}
    /\ chain.current \/ (chain.guardian = None /\ chain.escape = None)
    /\ stored = [needsDeploy |-> ~ chain.deployed, hidden |-> FALSE, current |-> chain.current,
                 guardian |-> None, escape |-> None]
    /\ scope = [u \in Task |-> "none"]
    /\ snapshot = [u \in Task |-> Blank]
    /\ fetched = [u \in Task |-> Nothing]
    /\ asked = FALSE
    /\ was = [u \in Task |-> {}]
    /\ changes = 0

Idle(u) == scope[u] = "none"

(* The types come from get_implementation, the guardian and the escape     *)
(* from getGuardian and getEscape, that older implementations do not have. *)
Answer(c) ==
    [current  |-> c.current,
     guardian |-> IF c.current THEN c.guardian ELSE None,
     escape   |-> IF c.current THEN c.escape ELSE None]

(* Faulty: the guardian is not asked for.                                  *)
FieldsEscape(s) ==
    CASE s = "type" -> {"current"}
      [] s = "guardian" -> {"escape"}
      [] OTHER -> {}

(* The details fetched for a scope.                                        *)
Fields(s) ==
    CASE s = "type" -> {"current"}
      [] s = "guardian" -> {"guardian", "escape"}
      [] OTHER -> {}

(* Faulty: accounts that are not deployed are not filtered out.            *)
BeginUnfiltered(u, s) ==
    /\ Idle(u) /\ (Overlap \/ \A v \in Task : Idle(v))
    /\ s = "deploy" => chain.deployed
    /\ scope' = [scope EXCEPT ![u] = s]
    /\ snapshot' = [snapshot EXCEPT ![u] = stored]
    /\ was' = [was EXCEPT ![u] = {Answer(chain)}]
    /\ UNCHANGED <<stored, fetched, chain, asked>>

(* updateAccountDetails reads the record.  It goes on with the accounts    *)
(* that are deployed, and with all in the scope of a deployment.           *)
Begin(u, s) ==
    /\ Idle(u) /\ (Overlap \/ \A v \in Task : Idle(v))
    /\ IF s = "deploy" THEN chain.deployed ELSE ~ stored.needsDeploy
    /\ scope' = [scope EXCEPT ![u] = s]
    /\ snapshot' = [snapshot EXCEPT ![u] = stored]
    /\ was' = [was EXCEPT ![u] = {Answer(chain)}]
    /\ UNCHANGED <<stored, fetched, chain, asked>>

Poll(u) == Begin(u, "guardian") /\ UNCHANGED changes

(* The handler of an updated transaction: of an upgrade or of a deployment.*)
Track(u, s) ==
    /\ changes < MaxChanges /\ changes' = changes + 1
    /\ Begin(u, s)

(* hideAccount, unhideAccount.                                             *)
BeginHide(u, hidden) ==
    /\ MayHide /\ changes < MaxChanges /\ changes' = changes + 1
    /\ Idle(u) /\ (Overlap \/ \A v \in Task : Idle(v))
    /\ scope' = [scope EXCEPT ![u] = IF hidden THEN "hide" ELSE "unhide"]
    /\ snapshot' = [snapshot EXCEPT ![u] = stored]
    /\ asked' = hidden
    /\ UNCHANGED <<stored, fetched, chain, was>>

Missing(u) == Fields(scope[u]) \ DOMAIN fetched[u]
Stop(u) ==
    /\ scope' = [scope EXCEPT ![u] = "none"]
    /\ fetched' = [fetched EXCEPT ![u] = Nothing]
    /\ snapshot' = [snapshot EXCEPT ![u] = Blank]
    /\ was' = [was EXCEPT ![u] = {}]

Keep(u, f, value) ==
    /\ fetched' = [fetched EXCEPT ![u] =
                      [g \in DOMAIN @ \cup {f} |-> IF g = f THEN value ELSE @[g]]]
    /\ UNCHANGED <<scope, snapshot>>

Fetch(u, f) ==
    /\ f \in Missing(u)
    /\ Keep(u, f, Answer(chain)[f])
    /\ UNCHANGED <<stored, chain, asked, was, changes>>

(* A failure is an undefined guardian or escape (allSettled), and the end  *)
(* of an update of the types (all).                                        *)
FetchFails(u, f) ==
    /\ MayFail /\ f \in Missing(u)
    /\ IF f = "current" THEN Stop(u)
       ELSE /\ Keep(u, f, None)
            /\ was' = [was EXCEPT ![u] = @ \cup {[Answer(chain) EXCEPT ![f] = None]}]
    /\ UNCHANGED <<stored, chain, asked, changes>>

(* Faulty: what was fetched is overwritten with what was read.             *)
MergedBackwards(u) ==
    [k \in DOMAIN snapshot[u] |->
        CASE k = "hidden" /\ scope[u] \in {"hide", "unhide"} -> scope[u] = "hide"
          [] k = "needsDeploy" -> snapshot[u].needsDeploy /\ scope[u] # "deploy"
          [] OTHER -> snapshot[u][k]]

(* Faulty: the record is put together anew.                                *)
MergedAnew(u) ==
    [k \in DOMAIN snapshot[u] |->
        CASE k = "hidden" -> scope[u] = "hide"
          [] k = "needsDeploy" -> snapshot[u].needsDeploy /\ scope[u] # "deploy"
          [] k \in DOMAIN fetched[u] -> fetched[u][k]
          [] OTHER -> snapshot[u][k]]

(* The record read, with the attributes fetched.                           *)
Merged(u) ==
    [k \in DOMAIN snapshot[u] |->
        CASE k = "hidden" /\ scope[u] \in {"hide", "unhide"} -> scope[u] = "hide"
          [] k = "needsDeploy" -> snapshot[u].needsDeploy /\ scope[u] # "deploy"
          [] k \in DOMAIN fetched[u] -> fetched[u][k]
          [] OTHER -> snapshot[u][k]]

(* addAccounts.                                                            *)
Push(u) ==
    /\ ~ Idle(u) /\ Missing(u) = {}
    /\ stored' = Merged(u)
    /\ Stop(u)
    /\ UNCHANGED <<chain, asked, changes>>

(* The account on the chain is deployed, is upgraded, changes its guardian *)
(* or is escaped from.                                                     *)
Change(c) ==
    /\ changes < MaxChanges /\ changes' = changes + 1
    /\ c # chain
    /\ chain.deployed => c.deployed /\ (chain.current => c.current)
    /\ ~ chain.deployed => c = [chain EXCEPT !.deployed = TRUE]
    /\ ~ c.current => c.guardian = None /\ c.escape = None
    /\ chain' = c
    /\ was' = [u \in Task |-> IF Idle(u) THEN {} ELSE was[u] \cup {Answer(c)}]
    /\ UNCHANGED <<stored, tasks, asked>>

Next ==
    \/ \E u \in Task : Poll(u)
    \/ \E u \in Task, s \in {"type", "deploy"} : Track(u, s)
    \/ \E u \in Task, hidden \in BOOLEAN : BeginHide(u, hidden)
    \/ \E u \in Task, f \in {"current", "guardian", "escape"} : Fetch(u, f)
    \/ \E u \in Task, f \in {"current", "guardian", "escape"} : FetchFails(u, f)
    \/ \E u \in Task : Push(u)
    \/ \E c \in Account : Change(c)

(* Promises are settled, and the UI polls as long as it is open.           *)
Fairness ==
    /\ \A u \in Task : WF_vars(Poll(u)) /\ WF_vars(Push(u))
    /\ \A u \in Task, f \in {"current", "guardian", "escape"} : WF_vars(Fetch(u, f))

Spec == Init /\ [][Next]_vars /\ Fairness

---------------------------------------------------------------------------
(* Properties.                                                             *)

(* A record stays a record of an account, whatever is merged into it.      *)
TypeOK ==
    /\ stored \in Record /\ chain \in Account
    /\ scope \in [Task -> {"none", "type", "guardian", "deploy", "hide", "unhide"}]
    /\ snapshot \in [Task -> Record]
    /\ \A u \in Task : DOMAIN fetched[u] \subseteq Fields(scope[u])
    /\ asked \in BOOLEAN /\ changes \in 0 .. MaxChanges

(* An account that was seen deployed is never taken for one that has to be *)
(* deployed again, although updates of other scopes write back what they   *)
(* read before the deployment.                                             *)
DeployedForGood == [][~ stored.needsDeploy => ~ stored'.needsDeploy]_vars

(* "updates the accounts with current guardian status"                     *)
(* (details/getAccountGuardiansFromChain.ts:9): an update stores a guardian*)
(* that the account has had while it ran, or none if the chain failed to   *)
(* answer; so does one that overlaps with others.                          *)
StoresCurrent ==
    \A u \in Task : scope[u] = "guardian" /\ scope'[u] = "none" =>
        \E answer \in was[u] : stored'.guardian = answer.guardian
CurrentGuardian == [][StoresCurrent]_vars

(* Once the account on the chain rests, polling ends every disagreement,   *)
(* also one written back by an update that read the record before.         *)
Converges ==
    <>[](stored.needsDeploy \/
            /\ stored.guardian = Answer(chain).guardian
            /\ stored.escape = Answer(chain).escape)

(* The account is hidden if the user said so last, whatever was merged     *)
(* into its record and whatever failed, unless a change of the flag        *)
(* overlaps with an update.                                                *)
HiddenAsAsked == (\A u \in Task : Idle(u)) => stored.hidden = asked
=============================================================================
