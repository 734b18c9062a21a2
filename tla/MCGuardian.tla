----------------------------- MODULE MCGuardian -----------------------------
(* What the extension knows of an account, and the removal of a guardian;  *)
(* each on its own, part says which moves.  In "updates" two updates of    *)
(* the record run side by side; in "hiding" they come one after the other, *)
(* may fail, and the user hides the account; in "removal" Argent does not  *)
(* sign any more; in "screens" it does, and the user may ask for anything; *)
(* in "watched" the user looks at the screen that follows.                 *)
EXTENDS AccountShield

CONSTANTS g, e

VARIABLE part

shieldVars == <<known, got, queue, sent, watch, contract, budget>>

Hiding == INSTANCE AccountDetails WITH
    Overlap <- FALSE, MayFail <- TRUE, MayHide <- TRUE, MaxChanges <- 4

Removal == INSTANCE ShieldEscape WITH
    stored <- known, fetched <- got, chain <- contract,
    Wishes <- {"remove", "escape", "trigger"}, Cosigner <- FALSE, Period <- 2,
    MaxEscapes <- 1, MaxChanges <- 1, MaxFails <- 1, MayWatch <- FALSE

Watched == INSTANCE ShieldEscape WITH
    stored <- known, fetched <- got, chain <- contract,
    Wishes <- {"remove", "escape"}, Cosigner <- TRUE, Period <- 1,
    MaxEscapes <- 1, MaxChanges <- 0, MaxFails <- 0, MayWatch <- TRUE

ASSUME ShieldConstants == Removal!ConstantsOK /\ Watched!ConstantsOK

(* What rests, rests in one state.                                         *)
MCInit ==
    \/ part \in {"updates", "hiding"} /\ Init /\ Removal!Init /\ contract.guardian = "none"
    \/ part = "removal" /\ Removal!Init /\ Init /\ ~ chain.deployed
    \/ part = "screens" /\ Shield!Init /\ Init /\ ~ chain.deployed
    \/ part = "watched" /\ Watched!Init /\ Init /\ ~ chain.deployed

MCNext ==
    /\ UNCHANGED part
    /\ \/ part = "updates" /\ Next /\ UNCHANGED shieldVars
       \/ part = "hiding" /\ Hiding!Next /\ UNCHANGED shieldVars
       \/ part = "removal" /\ Removal!Next /\ UNCHANGED vars
       \/ part = "screens" /\ Shield!Next /\ UNCHANGED vars
       \/ part = "watched" /\ Watched!Next /\ UNCHANGED vars

(* The fairness of each component, in the part in which it moves.          *)
MCFairness ==
    /\ \A u \in Task :
          /\ WF_vars(part = "updates" /\ Poll(u))
          /\ WF_vars(part = "updates" /\ Push(u))
          /\ \A f \in {"current", "guardian", "escape"} : WF_vars(part = "updates" /\ Fetch(u, f))
    /\ WF_shieldVars(part = "removal" /\ Removal!Fetch)
    /\ WF_shieldVars(part = "removal" /\ Removal!Push)
    /\ WF_shieldVars(part = "removal" /\ Removal!Tick)
    /\ \A t \in Removal!Transactions : WF_shieldVars(part = "removal" /\ Removal!Execute(t))
    /\ \A kind \in {"escape", "remove"} :
          /\ SF_shieldVars(part = "removal" /\ Removal!Ask(kind))
          /\ SF_shieldVars(part = "removal" /\ Removal!Approve(kind))

MCSpec == MCInit /\ [][MCNext]_<<vars, shieldVars, part>> /\ MCFairness

---------------------------------------------------------------------------
(* Polling ends every disagreement of record and chain (Converges).        *)
UpdatesConverge ==
    <>[](part = "updates" =>
            \/ stored.needsDeploy
            \/ /\ stored.guardian = Answer(chain).guardian
               /\ stored.escape = Answer(chain).escape)

(* Once its escape runs, the guardian is gone in the end                   *)
(* (RemovalCompletes).                                                     *)
GuardianIsRemoved ==
    part = "removal" /\ Removal!Escaping(contract, "guardian") ~> contract.guardian = "none"
=============================================================================
