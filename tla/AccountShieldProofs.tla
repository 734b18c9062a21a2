------------------------ MODULE AccountShieldProofs ------------------------
(* Types of the account's record, and that neither a deployment that was   *)
(* seen nor what the user asked is forgotten, and that what an update      *)
(* stores was true, for any guardians, escapes and number of updates; and  *)
(* that the screens of the shield offer what the contract accepts.         *)
EXTENDS AccountShield, TLAPS

Scopes == {"none", "type", "guardian", "deploy", "hide", "unhide"}
Keys == {"needsDeploy", "hidden", "current", "guardian", "escape"}
ValuesOf(f) ==
    CASE f = "guardian" -> Guardian
      [] f = "escape" -> Escape
      [] OTHER -> BOOLEAN

(* What the chain has answered a task has the type of the field.           *)
FetchedOK ==
    \A u \in Task : \A f \in DOMAIN fetched[u] : fetched[u][f] \in ValuesOf(f)

Maps ==
    /\ fetched = [u \in Task |-> fetched[u]]
    /\ was = [u \in Task |-> was[u]]
Types == TypeOK /\ FetchedOK /\ Maps

LEMMA FieldsAreKeys ==
    ASSUME NEW s, NEW f \in Fields(s)
    PROVE  f \in {"current", "guardian", "escape"}
BY DEF Fields

LEMMA RecordIs ==
    ASSUME NEW r, r = [k \in Keys |-> r[k]],
           r["needsDeploy"] \in BOOLEAN, r["hidden"] \in BOOLEAN, r["current"] \in BOOLEAN,
           r["guardian"] \in Guardian, r["escape"] \in Escape
    PROVE  r \in Record
BY DEF Record, Keys

LEMMA RecordHas ==
    ASSUME NEW r \in Record
    PROVE  /\ DOMAIN r = Keys
           /\ r["needsDeploy"] \in BOOLEAN /\ r["hidden"] \in BOOLEAN /\ r["current"] \in BOOLEAN
           /\ r["guardian"] \in Guardian /\ r["escape"] \in Escape
BY DEF Record, Keys

(* The fields that a task decides on itself.                               *)
LEMMA MergedOwn ==
    ASSUME NEW u \in Task, snapshot[u] \in Record, DOMAIN fetched[u] \subseteq Fields(scope[u])
    PROVE  /\ scope[u] \in {"hide", "unhide"} => Merged(u)["hidden"] = (scope[u] = "hide")
           /\ Merged(u)["needsDeploy"] = (snapshot[u].needsDeploy /\ scope[u] # "deploy")
<1>1. "hidden" \in DOMAIN snapshot[u] /\ "needsDeploy" \in DOMAIN snapshot[u]
  BY RecordHas DEF Keys
<1>2. "hidden" \notin DOMAIN fetched[u] /\ "needsDeploy" \notin DOMAIN fetched[u]
  BY FieldsAreKeys
<1>3. scope[u] \in {"hide", "unhide"} => Merged(u)["hidden"] = (scope[u] = "hide")
  BY <1>1, <1>2 DEF Merged
<1>4. Merged(u)["needsDeploy"] = (snapshot[u].needsDeploy /\ scope[u] # "deploy")
  BY <1>1, <1>2 DEF Merged
<1> QED BY <1>3, <1>4

(* What a task stores is a record again.                                   *)
LEMMA MergedIsRecord ==
    ASSUME Types, NEW u \in Task
    PROVE  Merged(u) \in Record
<1> DEFINE m == Merged(u)
<1>1. snapshot[u] \in Record
  BY DEF Types, TypeOK
<1>2. m = [k \in Keys |-> m[k]]
  BY <1>1, RecordHas DEF Merged
<1>3. m["hidden"] \in BOOLEAN
  <2>1. CASE scope[u] \in {"hide", "unhide"}
    <3>1. m["hidden"] = (scope[u] = "hide")
      BY <2>1, <1>1, MergedOwn DEF Types, TypeOK
    <3> QED BY <3>1, Zenon
  <2>2. CASE scope[u] \notin {"hide", "unhide"} /\ "hidden" \notin DOMAIN fetched[u]
    BY <2>2, <1>1, RecordHas DEF Merged, Keys
  <2>3. "hidden" \notin DOMAIN fetched[u]
    BY FieldsAreKeys DEF Types, TypeOK
  <2> QED BY <2>1, <2>2, <2>3
<1>4. m["needsDeploy"] \in BOOLEAN
  <2>1. m["needsDeploy"] = (snapshot[u].needsDeploy /\ scope[u] # "deploy")
    BY <1>1, MergedOwn DEF Types, TypeOK
  <2> QED BY <2>1, Zenon
<1>5. m["current"] \in BOOLEAN
  <2>1. CASE "current" \in DOMAIN fetched[u]
    BY <2>1, <1>1, RecordHas DEF Merged, Keys, Types, FetchedOK, ValuesOf
  <2>2. CASE "current" \notin DOMAIN fetched[u]
    BY <2>2, <1>1, RecordHas DEF Merged, Keys
  <2> QED BY <2>1, <2>2
<1>6. m["guardian"] \in Guardian
  <2>1. CASE "guardian" \in DOMAIN fetched[u]
    BY <2>1, <1>1, RecordHas DEF Merged, Keys, Types, FetchedOK, ValuesOf
  <2>2. CASE "guardian" \notin DOMAIN fetched[u]
    BY <2>2, <1>1, RecordHas DEF Merged, Keys
  <2> QED BY <2>1, <2>2
<1>7. m["escape"] \in Escape
  <2>1. CASE "escape" \in DOMAIN fetched[u]
    BY <2>1, <1>1, RecordHas DEF Merged, Keys, Types, FetchedOK, ValuesOf
  <2>2. CASE "escape" \notin DOMAIN fetched[u]
    BY <2>2, <1>1, RecordHas DEF Merged, Keys
  <2> QED BY <2>1, <2>2
<1> HIDE DEF m
<1>8. m \in Record
  BY <1>2, <1>3, <1>4, <1>5, <1>6, <1>7, RecordIs
<1> QED BY <1>8 DEF m

LEMMA AnswerHas ==
    ASSUME NEW c \in Account, NEW f \in {"current", "guardian", "escape"}
    PROVE  Answer(c)[f] \in ValuesOf(f)
BY NoneAssumption DEF Account, Answer, ValuesOf

LEMMA InitTypes == Init => Types
<1> SUFFICES ASSUME Init PROVE Types
  OBVIOUS
<1>1. chain \in Account
  BY DEF Init
<1>2. stored \in Record
  BY <1>1, NoneAssumption DEF Init, Record, Account
<1>3. Blank \in Record
  BY NoneAssumption DEF Blank, Record
<1>4. \A u \in Task : DOMAIN fetched[u] = {}
  BY DEF Init, Nothing
<1>5. Maps
  BY DEF Init, Maps
<1>6. asked \in BOOLEAN /\ changes \in 0 .. MaxChanges
  <2>1. asked \in BOOLEAN
    BY Zenon DEF Init
  <2>2. changes \in 0 .. MaxChanges
    BY ChangesAssumption, SMT DEF Init
  <2> QED BY <2>1, <2>2
<1>7. scope \in [Task -> Scopes] /\ snapshot \in [Task -> Record]
  BY <1>3 DEF Init, Scopes
<1>8. TypeOK
  BY <1>1, <1>2, <1>4, <1>6, <1>7 DEF TypeOK, Scopes
<1> QED BY <1>4, <1>5, <1>8 DEF Types, FetchedOK

(* The actions of a task, by what they do to its locals.                   *)
LEMMA StopKeepsTypes ==
    ASSUME Types, NEW u \in Task, Stop(u)
    PROVE  /\ scope' \in [Task -> Scopes] /\ snapshot' \in [Task -> Record]
           /\ \A v \in Task : DOMAIN fetched'[v] \subseteq Fields(scope'[v])
           /\ FetchedOK' /\ Maps'
<1>1. Blank \in Record
  BY NoneAssumption DEF Blank, Record
<1>2. DOMAIN Nothing = {}
  BY DEF Nothing
<1>3. fetched' = [v \in Task |-> IF v = u THEN Nothing ELSE fetched[v]]
  BY DEF Stop, Types, Maps
<1>4. was' = [v \in Task |-> IF v = u THEN {} ELSE was[v]]
  BY DEF Stop, Types, Maps
<1>5. scope' \in [Task -> Scopes] /\ snapshot' \in [Task -> Record]
  BY <1>1 DEF Stop, Types, TypeOK, Scopes
<1>6. \A v \in Task : DOMAIN fetched'[v] \subseteq Fields(scope'[v])
  BY <1>2, <1>3 DEF Stop, Types, TypeOK
<1>7. FetchedOK'
  BY <1>2, <1>3 DEF Types, FetchedOK
<1>8. Maps'
  BY <1>3, <1>4 DEF Maps
<1> QED BY <1>5, <1>6, <1>7, <1>8

LEMMA KeepKeepsTypes ==
    ASSUME Types, NEW u \in Task, NEW f \in Missing(u), NEW value \in ValuesOf(f), Keep(u, f, value),
           was' = was \/ \E S : was' = [was EXCEPT ![u] = @ \cup S]
    PROVE  /\ scope' \in [Task -> Scopes] /\ snapshot' \in [Task -> Record]
           /\ \A v \in Task : DOMAIN fetched'[v] \subseteq Fields(scope'[v])
           /\ FetchedOK' /\ Maps'
<1> DEFINE new == [g \in DOMAIN fetched[u] \cup {f} |-> IF g = f THEN value ELSE fetched[u][g]]
<1>1. fetched' = [v \in Task |-> IF v = u THEN new ELSE fetched[v]]
  BY DEF Keep, Types, Maps
<1>2. UNCHANGED <<scope, snapshot>>
  BY DEF Keep
<1>3. DOMAIN new \subseteq Fields(scope[u])
  BY DEF Missing, Types, TypeOK
<1>4. \A g \in DOMAIN new : new[g] \in ValuesOf(g)
  BY DEF Types, FetchedOK
<1> HIDE DEF new
<1>5. \A v \in Task : DOMAIN fetched'[v] \subseteq Fields(scope'[v])
  BY <1>1, <1>2, <1>3 DEF Types, TypeOK
<1>6. FetchedOK'
  BY <1>1, <1>4 DEF Types, FetchedOK
<1>7. Maps'
  BY <1>1 DEF Types, Maps
<1> QED BY <1>2, <1>5, <1>6, <1>7 DEF Types, TypeOK, Scopes

LEMMA BeginKeepsTypes ==
    ASSUME Types, NEW u \in Task, NEW s \in Scopes, Idle(u),
           scope' = [scope EXCEPT ![u] = s],
           snapshot' = [snapshot EXCEPT ![u] = stored],
           fetched' = fetched,
           was' = was \/ was' = [was EXCEPT ![u] = {Answer(chain)}]
    PROVE  /\ scope' \in [Task -> Scopes] /\ snapshot' \in [Task -> Record]
           /\ \A v \in Task : DOMAIN fetched'[v] \subseteq Fields(scope'[v])
           /\ FetchedOK' /\ Maps'
<1>1. DOMAIN fetched[u] = {}
  BY DEF Types, TypeOK, Idle, Fields
<1>2. \A v \in Task : DOMAIN fetched'[v] \subseteq Fields(scope'[v])
  BY <1>1 DEF Types, TypeOK
<1>3. FetchedOK'
  BY DEF Types, FetchedOK
<1>4. was' = [v \in Task |-> was'[v]]
  BY DEF Types, Maps
<1> QED BY <1>2, <1>3, <1>4 DEF Types, TypeOK, Scopes, Maps

LEMMA NextTypes == Types /\ [Next]_vars => Types'
<1> SUFFICES ASSUME Types, [Next]_vars PROVE Types'
  OBVIOUS
<1> USE DEF tasks
<1>1. ASSUME NEW u \in Task, Poll(u) PROVE Types'
  BY <1>1, BeginKeepsTypes DEF Poll, Begin, Types, TypeOK, Scopes
<1>2. ASSUME NEW u \in Task, NEW s \in {"type", "deploy"}, Track(u, s) PROVE Types'
  <2>1. changes' \in 0 .. MaxChanges
    BY <1>2, ChangesAssumption DEF Track, Types, TypeOK
  <2> QED BY <1>2, <2>1, BeginKeepsTypes DEF Track, Begin, Types, TypeOK, Scopes
<1>3. ASSUME NEW u \in Task, NEW hidden \in BOOLEAN, BeginHide(u, hidden) PROVE Types'
  <2>1. changes' \in 0 .. MaxChanges
    BY <1>3, ChangesAssumption DEF BeginHide, Types, TypeOK
  <2>2. (IF hidden THEN "hide" ELSE "unhide") \in Scopes
    BY DEF Scopes
  <2> QED BY <1>3, <2>1, <2>2, BeginKeepsTypes DEF BeginHide, Types, TypeOK, Scopes
<1>4. ASSUME NEW u \in Task, NEW f \in {"current", "guardian", "escape"}, Fetch(u, f) PROVE Types'
  <2>1. Answer(chain)[f] \in ValuesOf(f)
    BY AnswerHas DEF Types, TypeOK
  <2> QED BY <1>4, <2>1, KeepKeepsTypes DEF Fetch, Types, TypeOK, Scopes
<1>5. ASSUME NEW u \in Task, NEW f \in {"current", "guardian", "escape"}, FetchFails(u, f) PROVE Types'
  <2>1. CASE f = "current"
    BY <1>5, <2>1, StopKeepsTypes DEF FetchFails, Types, TypeOK, Scopes
  <2>2. CASE f # "current"
    <3>1. None \in ValuesOf(f)
      BY <2>2, NoneAssumption DEF ValuesOf
    <3> QED BY <1>5, <2>2, <3>1, KeepKeepsTypes DEF FetchFails, Types, TypeOK, Scopes
  <2> QED BY <2>1, <2>2
<1>6. ASSUME NEW u \in Task, Push(u) PROVE Types'
  <2>1. stored' \in Record
    BY <1>6, MergedIsRecord DEF Push
  <2> QED BY <1>6, <2>1, StopKeepsTypes DEF Push, Types, TypeOK, Scopes
<1>7. ASSUME NEW c \in Account, Change(c) PROVE Types'
  <2>1. changes' \in 0 .. MaxChanges
    BY <1>7, ChangesAssumption DEF Change, Types, TypeOK
  <2>2. was' = [u \in Task |-> was'[u]]
    BY <1>7 DEF Change
  <2> QED BY <1>7, <2>1, <2>2 DEF Change, Types, TypeOK, FetchedOK, Maps
<1>8. CASE UNCHANGED vars
  BY <1>8 DEF vars, Types, TypeOK, FetchedOK, Maps
<1> QED BY <1>1, <1>2, <1>3, <1>4, <1>5, <1>6, <1>7, <1>8 DEF Next

(* Records stay records, whatever is merged into them (updates of any      *)
(* scope, failures included).                                              *)
THEOREM TypeCorrect == Spec => []TypeOK
<1>1. Types => TypeOK
  BY DEF Types
<1> QED BY <1>1, InitTypes, NextTypes, PTL DEF Spec

---------------------------------------------------------------------------
(* What a task may have read: for an update of the type or the guardian,   *)
(* an account that was seen deployed; for a change of the hidden flag,     *)
(* which runs alone, what is still stored.                                 *)
ReadDeployed ==
    \A u \in Task : scope[u] \in {"type", "guardian"} => ~ snapshot[u].needsDeploy
HidesAlone ==
    \A u \in Task : scope[u] \in {"hide", "unhide"} =>
        /\ MayHide /\ snapshot[u].needsDeploy = stored.needsDeploy
        /\ \A v \in Task : v # u => Idle(v)
DeployInv == Types /\ ReadDeployed /\ HidesAlone

LEMMA InitDeploy == Init => DeployInv
BY InitTypes DEF Init, DeployInv, ReadDeployed, HidesAlone

(* What a task writes back.                                                *)
LEMMA MergedDeployed ==
    ASSUME DeployInv, NEW u \in Task, ~ Idle(u), ~ stored.needsDeploy
    PROVE  ~ Merged(u).needsDeploy
<1>1. snapshot[u] \in Record /\ scope[u] \in Scopes
  BY DEF DeployInv, Types, TypeOK, Scopes
<1>2. Merged(u).needsDeploy = (snapshot[u].needsDeploy /\ scope[u] # "deploy")
  BY <1>1, MergedOwn DEF DeployInv, Types, TypeOK
<1>3. scope[u] # "deploy" => ~ snapshot[u].needsDeploy
  BY <1>1 DEF DeployInv, ReadDeployed, HidesAlone, Idle, Scopes
<1> QED BY <1>2, <1>3

LEMMA StepDeployed ==
    ASSUME DeployInv, [Next]_vars, ~ stored.needsDeploy
    PROVE  ~ stored'.needsDeploy
<1>1. ASSUME NEW u \in Task, Push(u) PROVE ~ stored'.needsDeploy
  BY <1>1, MergedDeployed DEF Push
<1>2. ASSUME ~ \E u \in Task : Push(u) PROVE stored' = stored
  BY <1>2 DEF Next, vars, Poll, Track, Begin, BeginHide, Fetch, FetchFails, Change
<1> QED BY <1>1, <1>2

LEMMA NextDeploy ==
    ASSUME ~ (MayHide /\ Overlap), DeployInv, [Next]_vars
    PROVE  DeployInv'
<1> USE DEF tasks, Idle
<1>0. Types'
  BY NextTypes DEF DeployInv
<1>t. /\ scope \in [Task -> Scopes] /\ snapshot \in [Task -> Record] /\ stored \in Record
  BY DEF DeployInv, Types, TypeOK, Scopes
<1>1. ASSUME NEW u \in Task, NEW s \in {"type", "guardian", "deploy"}, Begin(u, s)
      PROVE  ReadDeployed' /\ HidesAlone'
  <2>1. \A v \in Task : v # u => scope'[v] = scope[v] /\ snapshot'[v] = snapshot[v]
    BY <1>1, <1>t DEF Begin
  <2>2. scope'[u] = s /\ snapshot'[u] = stored /\ stored' = stored
    BY <1>1, <1>t DEF Begin
  <2>3. s # "deploy" => ~ stored.needsDeploy
    BY <1>1 DEF Begin
  <2>4. ASSUME NEW v \in Task, scope[v] \in {"hide", "unhide"} PROVE FALSE
    <3>1. v # u /\ scope[u] = "none"
      BY <1>1, <2>4 DEF Begin
    <3>2. ~ Overlap
      BY <2>4 DEF DeployInv, HidesAlone
    <3> QED BY <1>1, <2>4, <3>2 DEF Begin
  <2> QED BY <2>1, <2>2, <2>3, <2>4 DEF DeployInv, ReadDeployed, HidesAlone
<1>2. ASSUME NEW u \in Task, NEW hidden \in BOOLEAN, BeginHide(u, hidden)
      PROVE  ReadDeployed' /\ HidesAlone'
  <2>1. \A v \in Task : scope[v] = "none"
    BY <1>2 DEF BeginHide
  <2>2. \A v \in Task : v # u => scope'[v] = "none"
    BY <1>2, <1>t, <2>1 DEF BeginHide
  <2>3. MayHide /\ snapshot'[u] = stored /\ stored' = stored /\ scope'[u] \in {"hide", "unhide"}
    BY <1>2, <1>t DEF BeginHide
  <2> QED BY <2>2, <2>3 DEF ReadDeployed, HidesAlone
<1>3. ASSUME NEW u \in Task, Stop(u), stored' = stored PROVE ReadDeployed' /\ HidesAlone'
  <2>1. scope'[u] = "none" /\ \A v \in Task : v # u => scope'[v] = scope[v] /\ snapshot'[v] = snapshot[v]
    BY <1>3, <1>t DEF Stop
  <2> QED BY <1>3, <2>1 DEF DeployInv, ReadDeployed, HidesAlone
<1>4. ASSUME NEW u \in Task, Push(u) PROVE ReadDeployed' /\ HidesAlone'
  <2>1. scope'[u] = "none" /\ \A v \in Task : v # u => scope'[v] = scope[v] /\ snapshot'[v] = snapshot[v]
    BY <1>4, <1>t DEF Push, Stop
  <2>2. ASSUME NEW v \in Task, v # u, scope[v] \in {"hide", "unhide"} PROVE FALSE
    BY <1>4, <2>2 DEF Push, DeployInv, HidesAlone
  <2> QED BY <2>1, <2>2 DEF DeployInv, ReadDeployed, HidesAlone
<1>5. ASSUME UNCHANGED <<scope, snapshot, stored>> PROVE ReadDeployed' /\ HidesAlone'
  BY <1>5 DEF DeployInv, ReadDeployed, HidesAlone
<1>6. ASSUME NEW u \in Task, NEW f \in {"current", "guardian", "escape"}, FetchFails(u, f)
      PROVE ReadDeployed' /\ HidesAlone'
  BY <1>3, <1>5, <1>6 DEF FetchFails, Keep
<1>7. ReadDeployed' /\ HidesAlone'
  BY <1>1, <1>2, <1>4, <1>5, <1>6 DEF Next, vars, Poll, Track, Fetch, Keep, Change
<1> QED BY <1>0, <1>7 DEF DeployInv

(* An account that was seen deployed is not taken for one that has to be   *)
(* deployed again, whatever updates overlap and fail, unless the user      *)
(* hides the account while an update is under way (hideAccount writes      *)
(* back all it has read, updateAccountDetails only of deployed accounts).  *)
THEOREM StaysDeployed ==
    ASSUME ~ (MayHide /\ Overlap)
    PROVE  Spec => DeployedForGood
<1>1. DeployInv /\ [Next]_vars => DeployInv'
  BY NextDeploy
<1>2. DeployInv /\ [Next]_vars => [~ stored.needsDeploy => ~ stored'.needsDeploy]_vars
  BY StepDeployed
<1> QED BY <1>1, <1>2, InitDeploy, PTL DEF Spec, DeployedForGood

---------------------------------------------------------------------------
(* Without overlap with a change of the flag: a task that changes it does  *)
(* what was asked for last, and if there is none, what is stored, and what *)
(* tasks have read, is as it was asked for.                                *)
Hides(u) == scope[u] \in {"hide", "unhide"}
ReadAsAsked ==
    /\ \A u \in Task : Hides(u) => asked = (scope[u] = "hide")
    /\ (\A u \in Task : ~ Hides(u)) =>
          /\ stored.hidden = asked
          /\ \A u \in Task : ~ Idle(u) => snapshot[u].hidden = asked
HiddenInv == DeployInv /\ ReadAsAsked

LEMMA InitHidden == Init => HiddenInv
<1> SUFFICES ASSUME Init PROVE HiddenInv
  OBVIOUS
<1>1. stored.hidden = FALSE /\ asked = FALSE /\ \A u \in Task : scope[u] = "none"
  BY DEF Init
<1> QED BY <1>1, InitDeploy DEF HiddenInv, ReadAsAsked, Hides, Idle

(* What a task writes back.                                                *)
LEMMA MergedHidden ==
    ASSUME HiddenInv, NEW u \in Task, ~ Idle(u)
    PROVE  Merged(u).hidden = asked
<1>1. snapshot[u] \in Record /\ "hidden" \in DOMAIN snapshot[u]
  BY RecordHas DEF HiddenInv, DeployInv, Types, TypeOK, Keys
<1>2. "hidden" \notin DOMAIN fetched[u]
  BY FieldsAreKeys DEF HiddenInv, DeployInv, Types, TypeOK
<1>3. CASE Hides(u)
  BY <1>1, <1>3, MergedOwn DEF HiddenInv, DeployInv, Types, TypeOK, ReadAsAsked, Hides
<1>4. CASE ~ Hides(u)
  <2>1. Merged(u).hidden = snapshot[u].hidden
    BY <1>1, <1>2, <1>4 DEF Merged, Hides
  <2>2. \A v \in Task : ~ Hides(v)
    BY <1>4 DEF HiddenInv, DeployInv, HidesAlone, Hides
  <2> QED BY <2>1, <2>2 DEF HiddenInv, ReadAsAsked
<1> QED BY <1>3, <1>4

LEMMA NextHidden ==
    ASSUME ~ (MayHide /\ Overlap), HiddenInv, [Next]_vars
    PROVE  HiddenInv'
<1> USE DEF tasks, Idle, Hides
<1>0. DeployInv'
  BY NextDeploy DEF HiddenInv
<1>t. /\ scope \in [Task -> Scopes] /\ snapshot \in [Task -> Record]
      /\ ReadAsAsked /\ HidesAlone
  BY DEF HiddenInv, DeployInv, Types, TypeOK, Scopes
<1>1. ASSUME NEW u \in Task, NEW s \in {"type", "guardian", "deploy"}, Begin(u, s)
      PROVE  ReadAsAsked'
  <2>1. \A v \in Task : v # u => scope'[v] = scope[v] /\ snapshot'[v] = snapshot[v]
    BY <1>1, <1>t DEF Begin
  <2>2. scope'[u] = s /\ snapshot'[u] = stored /\ stored' = stored /\ asked' = asked
    BY <1>1, <1>t DEF Begin
  <2>3. \A v \in Task : ~ Hides(v)
    BY <1>1, <1>t DEF Begin, HidesAlone
  <2> QED BY <1>t, <2>1, <2>2, <2>3 DEF ReadAsAsked
<1>2. ASSUME NEW u \in Task, NEW hidden \in BOOLEAN, BeginHide(u, hidden)
      PROVE  ReadAsAsked'
  <2>1. \A v \in Task : v # u => scope'[v] = "none"
    BY <1>2, <1>t DEF BeginHide
  <2>2. scope'[u] = IF hidden THEN "hide" ELSE "unhide"
    BY <1>2, <1>t DEF BeginHide
  <2>3. asked' = hidden
    BY <1>2 DEF BeginHide
  <2>4. Hides(u)' /\ asked' = (scope'[u] = "hide")
    <3>1. CASE hidden
      BY <2>2, <2>3, <3>1
    <3>2. CASE ~ hidden
      BY <2>2, <2>3, <3>2
    <3> QED BY <3>1, <3>2
  <2> QED BY <2>1, <2>4 DEF ReadAsAsked
<1>3. ASSUME NEW u \in Task, Stop(u), stored' = stored, asked' = asked, scope[u] = "type"
      PROVE  ReadAsAsked'
  <2>1. scope'[u] = "none" /\ \A v \in Task : v # u => scope'[v] = scope[v] /\ snapshot'[v] = snapshot[v]
    BY <1>3, <1>t DEF Stop
  <2>2. \A v \in Task : ~ Hides(v)' <=> ~ Hides(v)
    BY <1>3, <2>1
  <2> QED BY <1>t, <1>3, <2>1, <2>2 DEF ReadAsAsked
<1>4. ASSUME NEW u \in Task, Push(u) PROVE ReadAsAsked'
  <2>1. scope'[u] = "none" /\ \A v \in Task : v # u => scope'[v] = scope[v] /\ snapshot'[v] = snapshot[v]
    BY <1>4, <1>t DEF Push, Stop
  <2>2. \A v \in Task : v # u => ~ Hides(v)
    BY <1>4, <1>t DEF Push, HidesAlone
  <2>3. stored'.hidden = asked /\ asked' = asked
    BY <1>4, MergedHidden DEF Push
  <2>4. \A v \in Task : v # u /\ scope'[v] # "none" => snapshot'[v].hidden = asked
    <3> SUFFICES ASSUME NEW v \in Task, v # u, scope'[v] # "none" PROVE snapshot'[v].hidden = asked
      OBVIOUS
    <3>1. ~ Hides(u)
      BY <1>t, <2>1 DEF HidesAlone
    <3> QED BY <1>t, <2>1, <2>2, <3>1 DEF ReadAsAsked
  <2> QED BY <2>1, <2>2, <2>3, <2>4 DEF ReadAsAsked
<1>5. ASSUME UNCHANGED <<scope, snapshot, stored, asked>> PROVE ReadAsAsked'
  BY <1>t, <1>5 DEF ReadAsAsked
<1>6. ASSUME NEW u \in Task, NEW f \in {"current", "guardian", "escape"}, FetchFails(u, f)
      PROVE ReadAsAsked'
  <2>1. CASE f = "current"
    <3>1. scope[u] = "type"
      BY <1>6, <2>1 DEF FetchFails, Missing, Fields
    <3> QED BY <1>3, <1>6, <2>1, <3>1 DEF FetchFails
  <2> QED BY <1>5, <1>6, <2>1 DEF FetchFails, Keep
<1>7. ReadAsAsked'
  BY <1>1, <1>2, <1>4, <1>5, <1>6 DEF Next, vars, Poll, Track, Fetch, Keep, Change
<1> QED BY <1>0, <1>7 DEF HiddenInv

(* The account is hidden if the user said so last, whatever is merged into *)
(* its record and whatever fails, unless the change of the flag overlaps   *)
(* with an update, which writes back the flag it has read.                 *)
THEOREM HiddenStaysAsAsked ==
    ASSUME ~ (MayHide /\ Overlap)
    PROVE  Spec => []HiddenAsAsked
<1>1. HiddenInv => HiddenAsAsked
  BY DEF HiddenInv, ReadAsAsked, HiddenAsAsked, Hides, Idle
<1>2. HiddenInv /\ [Next]_vars => HiddenInv'
  BY NextHidden
<1> QED BY <1>1, <1>2, InitHidden, PTL DEF Spec

---------------------------------------------------------------------------
(* What an update of the guardian has been answered, the account has been, *)
(* or seemed to be, since the update started.                              *)
AnsweredFromChain ==
    \A u \in Task : scope[u] = "guardian" =>
        /\ Answer(chain) \in was[u]
        /\ "guardian" \in DOMAIN fetched[u] =>
              \E answer \in was[u] : fetched[u]["guardian"] = answer.guardian
CurrentInv == Types /\ AnsweredFromChain

LEMMA InitCurrent == Init => CurrentInv
BY InitTypes DEF Init, CurrentInv, AnsweredFromChain

LEMMA NextCurrent ==
    ASSUME CurrentInv, [Next]_vars
    PROVE  CurrentInv'
<1> USE DEF tasks, Idle
<1>0. Types'
  BY NextTypes DEF CurrentInv
<1>t. scope \in [Task -> Scopes] /\ Maps /\ AnsweredFromChain
  BY DEF CurrentInv, Types, TypeOK, Scopes
<1>e. \A u \in Task : scope[u] = "none" => DOMAIN fetched[u] = {}
  BY DEF CurrentInv, Types, TypeOK, Fields
<1>1. ASSUME NEW u \in Task, NEW s \in {"type", "guardian", "deploy"}, Begin(u, s)
      PROVE  AnsweredFromChain'
  <2>1. \A v \in Task : v # u => scope'[v] = scope[v] /\ was'[v] = was[v]
    BY <1>1, <1>t DEF Begin, Maps
  <2>2. was'[u] = {Answer(chain)} /\ fetched' = fetched /\ chain' = chain /\ DOMAIN fetched[u] = {}
    BY <1>1, <1>t, <1>e DEF Begin, Maps
  <2> QED BY <1>t, <2>1, <2>2 DEF AnsweredFromChain, Answer
<1>2. ASSUME NEW u \in Task, NEW hidden \in BOOLEAN, BeginHide(u, hidden)
      PROVE  AnsweredFromChain'
  <2>1. \A v \in Task : scope'[v] = "guardian" => scope[v] = "guardian"
    BY <1>2, <1>t DEF BeginHide
  <2> QED BY <1>t, <1>2, <2>1 DEF BeginHide, AnsweredFromChain, Answer
<1>3. ASSUME NEW u \in Task, Stop(u), chain' = chain PROVE AnsweredFromChain'
  <2>1. scope'[u] = "none" /\ \A v \in Task : v # u =>
            scope'[v] = scope[v] /\ was'[v] = was[v] /\ fetched'[v] = fetched[v]
    BY <1>3, <1>t DEF Stop, Maps
  <2> QED BY <1>3, <1>t, <2>1 DEF AnsweredFromChain, Answer
<1>4. ASSUME NEW u \in Task, NEW f, NEW value, NEW S, Keep(u, f, value), chain' = chain,
             was' = [was EXCEPT ![u] = @ \cup S], f = "guardian" => \E answer \in was[u] \cup S : value = answer.guardian
      PROVE  AnsweredFromChain'
  <2>1. scope' = scope
    BY <1>4 DEF Keep
  <2>2. \A v \in Task : v # u => was'[v] = was[v] /\ fetched'[v] = fetched[v]
    BY <1>4, <1>t DEF Keep, Maps
  <2>3. was'[u] = was[u] \cup S
    BY <1>4, <1>t DEF Maps
  <2>4. fetched'[u] = [g \in DOMAIN fetched[u] \cup {f} |-> IF g = f THEN value ELSE fetched[u][g]]
    BY <1>4, <1>t DEF Keep, Maps
  <2>5. ASSUME scope[u] = "guardian", "guardian" \in DOMAIN fetched'[u]
        PROVE  \E answer \in was'[u] : fetched'[u]["guardian"] = answer.guardian
    BY <1>t, <1>4, <2>3, <2>4, <2>5 DEF AnsweredFromChain
  <2> QED BY <1>t, <1>4, <2>1, <2>2, <2>3, <2>5 DEF AnsweredFromChain, Answer
<1>5. ASSUME NEW u \in Task, NEW f \in {"current", "guardian", "escape"}, Fetch(u, f)
      PROVE  AnsweredFromChain'
  <2>1. CASE scope[u] = "guardian"
    <3>1. Answer(chain) \in was[u]
      BY <1>t, <2>1 DEF AnsweredFromChain
    <3>2. was' = [was EXCEPT ![u] = @ \cup {}]
      BY <1>5, <1>t DEF Fetch, Maps
    <3>3. f = "guardian" => \E answer \in was[u] \cup {} : Answer(chain)[f] = answer.guardian
      BY <3>1
    <3>4. Keep(u, f, Answer(chain)[f]) /\ chain' = chain
      BY <1>5 DEF Fetch
    <3> QED BY <1>4, <3>2, <3>3, <3>4
  <2>2. CASE scope[u] # "guardian"
    <3>1. \A v \in Task : v # u => fetched'[v] = fetched[v]
      BY <1>5, <1>t DEF Fetch, Keep, Maps
    <3> QED BY <1>t, <1>5, <2>2, <3>1 DEF Fetch, Keep, AnsweredFromChain, Answer
  <2> QED BY <2>1, <2>2
<1>6. ASSUME NEW u \in Task, NEW f \in {"current", "guardian", "escape"}, FetchFails(u, f)
      PROVE AnsweredFromChain'
  <2>1. CASE f = "current"
    BY <1>3, <1>6, <2>1 DEF FetchFails
  <2>2. CASE f # "current"
    <3> DEFINE seen == [Answer(chain) EXCEPT ![f] = None]
    <3>1. f = "guardian" => seen.guardian = None
      BY DEF Answer
    <3>2. Keep(u, f, None) /\ was' = [was EXCEPT ![u] = @ \cup {seen}] /\ chain' = chain
      BY <1>6, <2>2 DEF FetchFails
    <3> HIDE DEF seen
    <3>3. f = "guardian" => \E answer \in was[u] \cup {seen} : None = answer.guardian
      BY <3>1
    <3> QED BY <1>4, <3>2, <3>3
  <2> QED BY <2>1, <2>2
<1>7. ASSUME NEW u \in Task, Push(u) PROVE AnsweredFromChain'
  BY <1>3, <1>7 DEF Push
<1>8. ASSUME NEW c \in Account, Change(c) PROVE AnsweredFromChain'
  <2>1. \A v \in Task : scope[v] = "guardian" => was'[v] = was[v] \cup {Answer(c)}
    BY <1>8 DEF Change
  <2>2. chain' = c /\ UNCHANGED <<scope, fetched>>
    BY <1>8 DEF Change
  <2>3. Answer(chain)' = Answer(c)
    BY <2>2 DEF Answer
  <2> QED BY <1>t, <2>1, <2>2, <2>3 DEF AnsweredFromChain
<1>9. ASSUME UNCHANGED vars PROVE AnsweredFromChain'
  BY <1>t, <1>9 DEF vars, AnsweredFromChain, Answer
<1>10. AnsweredFromChain'
  BY <1>1, <1>2, <1>5, <1>6, <1>7, <1>8, <1>9 DEF Next, Poll, Track
<1> QED BY <1>0, <1>10 DEF CurrentInv

LEMMA StepCurrent ==
    ASSUME CurrentInv, [Next]_vars
    PROVE  StoresCurrent \/ UNCHANGED vars
<1> USE DEF tasks
<1> SUFFICES ASSUME Next, NEW u \in Task, scope[u] = "guardian", scope'[u] = "none"
             PROVE  \E answer \in was[u] : stored'.guardian = answer.guardian
  BY DEF StoresCurrent
<1>t. scope \in [Task -> Scopes] /\ snapshot[u] \in Record
  BY DEF CurrentInv, Types, TypeOK, Scopes
<1>1. CASE Push(u)
  <2>1. "guardian" \in DOMAIN fetched[u]
    BY <1>1 DEF Push, Missing, Fields
  <2>2. "guardian" \in DOMAIN snapshot[u]
    BY <1>t, RecordHas DEF Keys
  <2>3. stored'.guardian = fetched[u]["guardian"]
    BY <1>1, <2>1, <2>2 DEF Push, Merged
  <2> QED BY <2>1, <2>3 DEF CurrentInv, AnsweredFromChain
<1>2. CASE \E v \in Task : v # u /\ (Push(v) \/ Stop(v))
  BY <1>t, <1>2 DEF Push, Stop
<1>3. ASSUME NEW f \in {"current", "guardian", "escape"}, FetchFails(u, f) PROVE FALSE
  <2>1. f # "current"
    BY <1>3 DEF FetchFails, Missing, Fields
  <2> QED BY <1>3, <2>1 DEF FetchFails, Keep
<1>4. ASSUME NEW v \in Task, NEW s \in {"type", "guardian", "deploy"}, Begin(v, s) PROVE FALSE
  BY <1>t, <1>4 DEF Begin, Idle
<1>5. ASSUME NEW v \in Task, NEW hidden \in BOOLEAN, BeginHide(v, hidden) PROVE FALSE
  BY <1>t, <1>5 DEF BeginHide, Idle
<1> QED BY <1>1, <1>2, <1>3, <1>4, <1>5 DEF Next, Poll, Track, Fetch, FetchFails, Keep, Change

(* An update stores a guardian that the account has had while it ran, or   *)
(* none if the chain failed to answer, however updates overlap and fail    *)
(* and the account changes under them: "updates the accounts with current  *)
(* guardian status" (details/getAccountGuardiansFromChain.ts:9).           *)
THEOREM StoresTheCurrent == Spec => CurrentGuardian
<1>1. CurrentInv /\ [Next]_vars => CurrentInv'
  BY NextCurrent
<1>2. CurrentInv /\ [Next]_vars => [StoresCurrent]_vars
  BY StepCurrent
<1> QED BY <1>1, <1>2, InitCurrent, PTL DEF Spec, CurrentGuardian

---------------------------------------------------------------------------
(* The shield.  What the screens read is a record that was fetched, and    *)
(* the contract drops an escape when it changes its guardian: so there is  *)
(* none without a guardian to escape from.                                 *)

Guarded == contract.escape # None => contract.guardian # "none"

ShieldInv == Shield!TypeOK /\ Guarded

(* A state of the account, on the chain or in a record.                    *)
LEMMA DetailsAre ==
    ASSUME NEW d \in Shield!Details
    PROVE  /\ d = [guardian |-> d.guardian, escape |-> d.escape]
           /\ DOMAIN d = {"guardian", "escape"}
           /\ d.guardian \in {"none", "argent", "self"}
           /\ d.escape # None => /\ d.escape = [type |-> d.escape.type, left |-> d.escape.left]
                                 /\ d.escape.type \in {"guardian", "signer"}
                                 /\ d.escape.left \in 0 .. Period
BY DEF Shield!Details, Shield!Guardians, Shield!Escapes

LEMMA EscapesAreSome ==
    ASSUME NEW escape \in Shield!Escapes
    PROVE  escape # None
BY ShieldAssumption DEF Shield!ConstantsOK

LEMMA LaterIs ==
    ASSUME NEW d \in Shield!Details
    PROVE  /\ Shield!Later(d) \in Shield!Details
           /\ Shield!Later(d).guardian = d.guardian
           /\ Shield!Later(d).escape # None => d.escape # None
<1>1. CASE Shield!Later(d) = d
  BY <1>1
<1>2. CASE Shield!Later(d) # d
  <2>1. d.escape # None /\ d.escape.left # 0
        /\ Shield!Later(d) = [d EXCEPT !.escape.left = @ - 1]
    BY <1>2 DEF Shield!Later, Shield!Active
  <2>2. d.escape.left - 1 \in 0 .. Period
    <3>1. Period \in Nat
      BY ShieldAssumption DEF Shield!ConstantsOK
    <3>2. d.escape.left \in 0 .. Period
      BY <2>1, DetailsAre
    <3> QED BY <2>1, <3>1, <3>2
  <2>3. Shield!Later(d) = [guardian |-> d.guardian,
                           escape |-> [type |-> d.escape.type, left |-> d.escape.left - 1]]
    BY <2>1, DetailsAre
  <2> QED BY <2>1, <2>2, <2>3, DetailsAre DEF Shield!Details, Shield!Guardians, Shield!Escapes
<1> QED BY <1>1, <1>2

LEMMA EffectIs ==
    ASSUME contract \in Shield!Details, NEW kind \in Shield!Kinds
    PROVE  /\ Shield!Effect(kind) \in Shield!Details
           /\ Shield!Effect(kind).escape # None =>
                 kind = "trigger" /\ Shield!Effect(kind).guardian = contract.guardian
<1>1. [type |-> "guardian", left |-> Period] \in Shield!Escapes
  BY ShieldAssumption DEF Shield!Escapes, Shield!ConstantsOK
<1>2. contract.guardian \in {"none", "argent", "self"}
  BY DetailsAre
<1> QED BY <1>1, <1>2 DEF Shield!Effect, Shield!Details, Shield!Guardians, Shield!Kinds

LEMMA SecondIs ==
    ASSUME known \in Shield!Details, NEW kind
    PROVE  Shield!Second(kind) \in Shield!Guardians \cup {None}
BY DetailsAre DEF Shield!Second, Shield!Guardians

LEMMA InitShield == Shield!Init => ShieldInv
BY DEF Shield!Init, ShieldInv, Guarded, Shield!TypeOK, Shield!Details, Shield!Guardians

LEMMA NextShield == ShieldInv /\ [Shield!Next]_(Shield!vars) => ShieldInv'
<1> SUFFICES ASSUME ShieldInv, [Shield!Next]_(Shield!vars) PROVE ShieldInv'
  OBVIOUS
<1>0. Shield!TypeOK /\ Guarded /\ contract \in Shield!Details /\ known \in Shield!Details
  BY DEF ShieldInv, Shield!TypeOK
<1>1. ASSUME NEW kind \in Shield!Kinds, Shield!Ask(kind) PROVE ShieldInv'
  BY <1>0, <1>1 DEF Shield!Ask, ShieldInv, Guarded, Shield!TypeOK
<1>2. ASSUME NEW kind \in Shield!Kinds, Shield!Approve(kind) PROVE ShieldInv'
  <2>1. \A s \in {Shield!Second(kind)} \ {None} :
           [kind |-> kind, second |-> s] \in Shield!Transactions
    BY <1>0, SecondIs DEF Shield!Transactions
  <2>2. sent' \subseteq Shield!Transactions
    BY <1>0, <1>2, <2>1 DEF Shield!Approve, Shield!TypeOK
  <2> QED BY <1>0, <1>2, <2>2 DEF Shield!Approve, ShieldInv, Guarded, Shield!TypeOK
<1>3. ASSUME NEW kind \in Shield!Kinds, Shield!Decline(kind) PROVE ShieldInv'
  BY <1>0, <1>3 DEF Shield!Decline, ShieldInv, Guarded, Shield!TypeOK
<1>4. CASE Shield!Fetch
  BY <1>0, <1>4 DEF Shield!Fetch, ShieldInv, Guarded, Shield!TypeOK
<1>5. ASSUME NEW fails \in SUBSET {"guardian", "escape"}, Shield!FetchFails(fails) PROVE ShieldInv'
  <2>1. got' = [f \in {"guardian", "escape"} |->
                   IF f \in fails THEN Shield!Plain[f] ELSE contract[f]]
    BY <1>0, <1>5, DetailsAre DEF Shield!FetchFails
  <2>2. got' \in Shield!Details
    BY <1>0, <2>1 DEF Shield!Details, Shield!Plain, Shield!Guardians
  <2> QED BY <1>0, <1>5, <2>2 DEF Shield!FetchFails, ShieldInv, Guarded, Shield!TypeOK
<1>6. CASE Shield!Push
  BY <1>0, <1>6 DEF Shield!Push, ShieldInv, Guarded, Shield!TypeOK
<1>7. ASSUME NEW t \in Shield!Transactions, Shield!Watch(t) PROVE ShieldInv'
  BY <1>0, <1>7 DEF Shield!Watch, ShieldInv, Guarded, Shield!TypeOK
<1>8. ASSUME NEW t \in Shield!Transactions, Shield!Execute(t) PROVE ShieldInv'
  <2>1. t.kind \in Shield!Kinds
    BY DEF Shield!Transactions
  <2>2. contract' \in Shield!Details /\ Guarded'
    BY <1>0, <1>8, <2>1, EffectIs DEF Shield!Execute, Shield!Valid, Guarded
  <2>3. sent' \subseteq Shield!Transactions
    BY <1>0, <1>8 DEF Shield!Execute, Shield!TypeOK
  <2>4. watch' # None => watch'.tx \in Shield!Transactions
    BY <1>0, <1>8 DEF Shield!Execute, Shield!TypeOK
  <2> QED BY <1>0, <1>8, <2>2, <2>3, <2>4 DEF Shield!Execute, ShieldInv, Shield!TypeOK
<1>9. CASE Shield!TriggerElsewhere
  <2>1. contract' \in Shield!Details /\ Guarded'
    BY <1>0, <1>9, EffectIs DEF Shield!TriggerElsewhere, Shield!Effect, Shield!Kinds, Guarded
  <2> QED BY <1>0, <1>9, <2>1 DEF Shield!TriggerElsewhere, ShieldInv, Shield!TypeOK
<1>10. CASE Shield!TriggerSigner
  <2>1. contract' = [guardian |-> contract.guardian, escape |-> [type |-> "signer", left |-> Period]]
        /\ contract.guardian = "argent"
    BY <1>0, <1>10, DetailsAre DEF Shield!TriggerSigner
  <2>2. contract' \in Shield!Details /\ Guarded'
    BY <2>1, ShieldAssumption
    DEF Guarded, Shield!Details, Shield!Guardians, Shield!Escapes, Shield!ConstantsOK
  <2> QED BY <1>0, <1>10, <2>2 DEF Shield!TriggerSigner, ShieldInv, Shield!TypeOK
<1>11. CASE Shield!Tick
  <2>1. contract' \in Shield!Details /\ Guarded' /\ known' \in Shield!Details
    BY <1>0, <1>11, LaterIs DEF Shield!Tick, Guarded
  <2>2. got' \in Shield!Details \cup {None}
    BY <1>0, <1>11, LaterIs DEF Shield!Tick, Shield!TypeOK
  <2> QED BY <1>0, <1>11, <2>1, <2>2 DEF Shield!Tick, ShieldInv, Shield!TypeOK
<1>12. CASE UNCHANGED Shield!vars
  BY <1>0, <1>12 DEF Shield!vars, ShieldInv, Guarded, Shield!TypeOK
<1> QED
  BY <1>1, <1>2, <1>3, <1>4, <1>5, <1>6, <1>7, <1>8, <1>9, <1>10, <1>11, <1>12 DEF Shield!Next

(* Types: every signature is one that a signer of the wallet makes, and    *)
(* every record, updated or not, one that the account contract can answer. *)
THEOREM ShieldTypeCorrect == Shield!Spec => []Shield!TypeOK
<1>1. Shield!Spec => []ShieldInv
  BY InitShield, NextShield, PTL DEF Shield!Spec
<1>2. ShieldInv => Shield!TypeOK
  BY DEF ShieldInv
<1> QED BY <1>1, <1>2, PTL

(* A guardian that is there is escaped from, one that is not is not.       *)
LEMMA ShieldInvSuffices == ShieldInv => ScreensOfferValid
<1> SUFFICES ASSUME ShieldInv, known = contract, NEW kind \in Shield!Kinds,
                    Shield!Offers(kind), Shield!Second(kind) # None,
                    ~ (kind = "escape" /\ Shield!Escaping(known, "signer"))
             PROVE  Shield!Valid(kind, Shield!Second(kind))
  BY DEF ScreensOfferValid, Shield!OfferedIsValid
<1>1. /\ contract \in Shield!Details /\ contract.guardian \in {"none", "argent", "self"}
      /\ contract.escape # None => contract.escape.type \in {"guardian", "signer"}
  BY DetailsAre DEF ShieldInv, Shield!TypeOK
<1>2. contract.escape # None => contract.guardian # "none"
  BY DEF ShieldInv, Guarded
<1>3. CASE kind \in {"add", "remove"}
  <2>1. Shield!Second(kind) = contract.guardian
    BY <1>1, <1>3 DEF Shield!Second
  <2> QED BY <1>3, <2>1 DEF Shield!Valid
<1>4. CASE kind = "cancel"
  <2>1. Shield!Second(kind) = contract.guardian
    BY <1>1, <1>4 DEF Shield!Second
  <2>2. contract.escape # None
    BY <1>4 DEF Shield!Offers, Shield!NextRemoval
  <2> QED BY <1>4, <2>1, <2>2 DEF Shield!Valid
<1>5. CASE kind = "trigger"
  <2>1. contract.escape # None
    BY <1>5 DEF Shield!Offers, Shield!NextRemoval, Shield!Escaping
  <2> QED BY <1>2, <1>5, <2>1 DEF Shield!Valid
<1>6. CASE kind = "escape"
  <2>1. Shield!Ready /\ contract.guardian # "self"
    BY <1>6 DEF Shield!Offers, Shield!NextRemoval
  <2>2. Shield!Active(contract)
    BY <2>1 DEF Shield!Ready
  <2>3. contract.escape # None /\ Shield!Escaping(contract, "guardian")
    BY <1>1, <1>6, <2>2 DEF Shield!Active, Shield!Escaping
  <2> QED BY <1>2, <1>6, <2>2, <2>3 DEF Shield!Valid
<1> QED BY <1>3, <1>4, <1>5, <1>6 DEF Shield!Kinds

(* ScreensOfferValid: whatever the user may ask for, however the record    *)
(* lags, answers fail and others trigger escapes, a record that is up to   *)
(* date never lets the screens offer what getSignerForAccount signs        *)
(* wrongly or the contract refuses, but for the escape of the signer.      *)
THEOREM OffersAreValid == Shield!Spec => []ScreensOfferValid
<1>1. Shield!Spec => []ShieldInv
  BY InitShield, NextShield, PTL DEF Shield!Spec
<1> QED BY <1>1, ShieldInvSuffices, PTL
=============================================================================
