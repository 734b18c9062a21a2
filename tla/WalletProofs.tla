---------------------------- MODULE WalletProofs ----------------------------
(* For any passwords, secrets and durations: types of the session, that    *)
(* what is open is what is backed up, until messages overlap, and that a   *)
(* session ends in time.  For any networks and accounts: types of the      *)
(* list, that it stays consistent, that new accounts are new, and that     *)
(* recovery finds all that it can.                                         *)
EXTENDS Wallet, Sequences, FiniteSetTheorems, TLAPS

---------------------------------------------------------------------------
(* The session.                                                            *)
Partial == [secret : Secrets \cup Phrases \cup {None}, password : Passwords]

(* Of each place, what the call has at hand there: a password or a whole   *)
(* key, and a backup to decrypt.                                           *)
AtHand(k) ==
    /\ k.at \in {"encrypt", "backup", "set"} => k.key \in Key
    /\ k.at \in {"init", "generate", "decrypt"} => k.key \in Partial
    /\ k.at = "init" => k.kind # "new"
    /\ k.at = "init" /\ k.kind = "restore" => k.key \in Key
    /\ k.at = "decrypt" => k.local \in Key
    /\ k.at = "discover" => k.kind # "new"
TypeInv == TypeOK /\ \A c \in Calls : AtHand(call[c])

LEMMA NoneIsNoKey == None \notin Key /\ None \notin Nat
BY NoneAssumption

LEMMA KeyIs ==
    /\ \A k \in Key : k.secret \in Secrets \cup Phrases /\ k.password \in Passwords
    /\ \A s \in Secrets \cup Phrases, p \in Passwords : [secret |-> s, password |-> p] \in Key
BY DEF Key

LEMMA IdleIsCall == Idle \in Call /\ AtHand(Idle)
BY DEF Idle, Call, AtHand

LEMMA InitTypes == Init => TypeInv
<1> SUFFICES ASSUME Init PROVE TypeInv
  OBVIOUS
<1>1. call \in [Calls -> Call] /\ \A c \in Calls : AtHand(call[c])
  BY IdleIsCall DEF Init
<1>2. age \in 0 .. SESSION_DURATION + 1
  BY DurationAssumption DEF Init
<1>3. discoveredOnce \in BOOLEAN /\ listening \in BOOLEAN /\ locking \in BOOLEAN /\ overlapped \in BOOLEAN
  BY Zenon DEF Init
<1> QED BY <1>1, <1>2, <1>3 DEF Init, TypeInv, TypeOK

(* A call goes on to another place.                                        *)
LEMMA GoKeepsTypes ==
    ASSUME TypeInv, NEW c \in Calls, NEW place, Go(c, place),
           \/ place \in {"alarm", "create"}
           \/ place = "discover" /\ call[c].kind # "new"
           \/ place \in {"backup", "set"} /\ call[c].key \in Key
           \/ place = "encrypt" /\ call[c].key \in Key
           \/ place = "generate" /\ call[c].key \in Partial
    PROVE  call' \in [Calls -> Call] /\ \A d \in Calls : AtHand(call'[d])
<1>1. call'[c] = [call[c] EXCEPT !.at = place]
  BY DEF Go, TypeInv, TypeOK
<1>2. call'[c] \in Call /\ AtHand(call'[c])
  BY <1>1 DEF TypeInv, TypeOK, Call, AtHand
<1>3. \A d \in Calls : d # c => call'[d] = call[d]
  BY DEF Go, TypeInv, TypeOK
<1>4. call' \in [Calls -> Call]
  BY <1>1, <1>2 DEF Go, TypeInv, TypeOK
<1> QED BY <1>2, <1>3, <1>4 DEF TypeInv

LEMMA ReturnKeepsTypes ==
    ASSUME TypeInv, NEW c \in Calls, NEW result \in {"yes", "no", "thrown"}, Return(c, result)
    PROVE  /\ call' \in [Calls -> Call] /\ \A d \in Calls : AtHand(call'[d])
           /\ answer' \in [Calls -> {"none", "yes", "no", "thrown"}]
BY IdleIsCall DEF Return, TypeInv, TypeOK

(* A call takes up new data.                                               *)
LEMMA SetKeepsTypes ==
    ASSUME TypeInv, NEW c \in Calls, NEW k \in Call, AtHand(k), call' = [call EXCEPT ![c] = k]
    PROVE  call' \in [Calls -> Call] /\ \A d \in Calls : AtHand(call'[d])
BY DEF TypeInv, TypeOK

LEMMA NextTypes == TypeInv /\ [Next]_vars => TypeInv'
<1> SUFFICES ASSUME TypeInv, [Next]_vars PROVE TypeInv'
  OBVIOUS
<1> USE DEF At, stores, timer
<1> DEFINE CallOK == call' \in [Calls -> Call] /\ \A d \in Calls : AtHand(call'[d])
           AnswerOK == answer' \in [Calls -> {"none", "yes", "no", "thrown"}]
<1>a. answer \in [Calls -> {"none", "yes", "no", "thrown"}]
  BY DEF TypeInv, TypeOK
<1>o. overlapped \in BOOLEAN /\ (Arrives => overlapped' \in BOOLEAN)
  <2>1. overlapped \in BOOLEAN
    BY DEF TypeInv, TypeOK
  <2> QED BY <2>1, Zenon DEF Arrives
<1>r. ASSUME CallOK, AnswerOK, UNCHANGED <<stores, session, timer, known>>, Arrives \/ UNCHANGED overlapped
      PROVE  TypeInv'
  <2>1. overlapped' \in BOOLEAN
    BY <1>o, <1>r
  <2> QED BY <1>r, <2>1 DEF TypeInv, TypeOK
<1>f. ASSUME NEW c \in Calls, Follow(c) PROVE CallOK /\ AnswerOK
  <2>1. CASE call[c].kind = "restore" \/ (call[c].kind = "start" /\ ~ discoveredOnce)
    BY <1>f, <1>a, <2>1, GoKeepsTypes DEF Follow
  <2>2. CASE ~ (call[c].kind = "restore" \/ (call[c].kind = "start" /\ ~ discoveredOnce))
    BY <1>f, <2>2, ReturnKeepsTypes DEF Follow
  <2> QED BY <2>1, <2>2
<1>1. ASSUME NEW c \in Calls, NEW password \in Passwords, StartSession(c, password) PROVE TypeInv'
  <2>1. CASE session # None
    BY <1>1, <1>r, <2>1, ReturnKeepsTypes DEF StartSession
  <2>2. CASE session = None
    <3> DEFINE k == [at |-> "init", kind |-> "start", local |-> None,
                     key |-> [secret |-> None, password |-> password]]
    <3>1. k \in Call /\ AtHand(k)
      BY DEF Call, AtHand, Partial
    <3> HIDE DEF k
    <3>2. CallOK
      BY <1>1, <2>2, <3>1, SetKeepsTypes DEF StartSession, k
    <3>3. AnswerOK
      BY <1>1, <1>a, <2>2 DEF StartSession
    <3> QED BY <1>1, <1>r, <3>2, <3>3 DEF StartSession
  <2> QED BY <2>1, <2>2
<1>2. ASSUME NEW c \in Calls, IsInitialized(c) PROVE TypeInv'
  <2>1. CASE backup = None
    BY <1>2, <1>a, <1>r, <2>1, GoKeepsTypes DEF IsInitialized, TypeInv, AtHand
  <2>2. CASE backup # None
    <3> DEFINE k == [call[c] EXCEPT !.at = "decrypt", !.local = backup]
    <3>1. k \in Call /\ AtHand(k)
      BY <1>2, <2>2 DEF IsInitialized, Call, AtHand, TypeInv, TypeOK
    <3>2. call' = [call EXCEPT ![c] = k]
      BY <1>2, <2>2 DEF IsInitialized
    <3> HIDE DEF k
    <3>3. CallOK
      BY <3>1, <3>2, SetKeepsTypes
    <3> QED BY <1>2, <1>a, <1>r, <3>3 DEF IsInitialized
  <2> QED BY <2>1, <2>2
<1>3. ASSUME NEW c \in Calls, GenerateNewLocalSecret(c) PROVE TypeInv'
  <2>1. CASE backup # None
    BY <1>3, <1>r, <2>1, ReturnKeepsTypes DEF GenerateNewLocalSecret
  <2>2. CASE backup = None
    <3>1. PICK secret \in Secrets :
             call' = [call EXCEPT ![c].at = "encrypt", ![c].kind = "new", ![c].key.secret = secret]
      BY <1>3, <2>2 DEF GenerateNewLocalSecret
    <3> DEFINE k == [call[c] EXCEPT !.at = "encrypt", !.kind = "new", !.key.secret = secret]
    <3>2. call[c] \in Call /\ call[c].key \in Partial
      BY <1>3 DEF GenerateNewLocalSecret, AtHand, TypeInv, TypeOK
    <3>3. [call[c].key EXCEPT !.secret = secret] \in Key
      BY <3>2 DEF Partial, Key
    <3>4. k \in Call /\ AtHand(k)
      BY <3>2, <3>3 DEF Call, AtHand, Key
    <3>5. call' = [call EXCEPT ![c] = k]
      BY <3>1
    <3> HIDE DEF k
    <3>6. CallOK
      BY <3>4, <3>5, SetKeepsTypes
    <3> QED BY <1>3, <1>a, <1>r, <2>2, <3>6 DEF GenerateNewLocalSecret
  <2> QED BY <2>1, <2>2
<1>4. ASSUME NEW c \in Calls, Encrypted(c) PROVE TypeInv'
  <2>1. CallOK
    BY <1>4, GoKeepsTypes DEF Encrypted, TypeInv, AtHand
  <2>2. known' \in SUBSET (Secrets \cup Phrases)
    BY <1>4, KeyIs DEF Encrypted, TypeInv, TypeOK, AtHand
  <2>3. discoveredOnce' \in BOOLEAN
    BY <1>4, Zenon DEF Encrypted, TypeInv, TypeOK
  <2> QED BY <1>4, <2>1, <2>2, <2>3 DEF Encrypted, TypeInv, TypeOK
<1>5. ASSUME NEW c \in Calls, StoreBackup(c) PROVE TypeInv'
  <2>1. CallOK
    BY <1>5, GoKeepsTypes DEF StoreBackup, TypeInv, AtHand
  <2> QED BY <1>5, <2>1 DEF StoreBackup, TypeInv, TypeOK, AtHand
<1>6. ASSUME NEW c \in Calls, Decrypted(c) PROVE TypeInv'
  <2>1. CASE call[c].local.password # call[c].key.password
    BY <1>6, <1>r, <2>1, ReturnKeepsTypes DEF Decrypted
  <2>2. CASE call[c].local.password = call[c].key.password
    <3> DEFINE k == [call[c] EXCEPT !.at = "set", !.key.secret = call[c].local.secret]
    <3>1. call[c] \in Call /\ call[c].key \in Partial /\ call[c].local \in Key
      BY <1>6 DEF Decrypted, AtHand, TypeInv, TypeOK
    <3>2. [call[c].key EXCEPT !.secret = call[c].local.secret] \in Key
      BY <3>1 DEF Partial, Key
    <3>3. k \in Call /\ AtHand(k)
      BY <3>1, <3>2 DEF Call, AtHand, Key
    <3>4. call' = [call EXCEPT ![c] = k]
      BY <1>6, <2>2 DEF Decrypted
    <3> HIDE DEF k
    <3>5. CallOK
      BY <3>3, <3>4, SetKeepsTypes
    <3> QED BY <1>6, <1>a, <1>r, <2>2, <3>5 DEF Decrypted
  <2> QED BY <2>1, <2>2
<1>7. ASSUME NEW c \in Calls, SetSession(c) PROVE TypeInv'
  <2>1. CallOK
    BY <1>7, GoKeepsTypes DEF SetSession
  <2>2. age' \in 0 .. SESSION_DURATION + 1
    BY <1>7, DurationAssumption DEF SetSession
  <2>3. session' \in Key \cup {None} /\ listening' \in BOOLEAN
    BY <1>7 DEF SetSession, TypeInv, AtHand
  <2> QED BY <1>7, <2>1, <2>2, <2>3 DEF SetSession, TypeInv, TypeOK
<1>8. ASSUME NEW c \in Calls, GetAlarm(c) PROVE TypeInv'
  <2>1. CASE alarm # None
    BY <1>8, <1>f, <1>r, <2>1 DEF GetAlarm
  <2>2. CASE alarm = None
    BY <1>8, <1>a, <1>r, <2>2, GoKeepsTypes DEF GetAlarm
  <2> QED BY <2>1, <2>2
<1>9. ASSUME NEW c \in Calls, CreateAlarm(c) PROVE TypeInv'
  <2>1. alarm' \in 0 .. SESSION_DURATION \cup {None}
    BY <1>9, DurationAssumption DEF CreateAlarm
  <2> QED BY <1>9, <1>f, <2>1 DEF CreateAlarm, TypeInv, TypeOK
<1>10. ASSUME NEW c \in Calls, NEW outcome \in {"all", "some", "error"}, Discover(c, outcome)
       PROVE  TypeInv'
  <2>1. CallOK /\ AnswerOK
    BY <1>10, ReturnKeepsTypes DEF Discover, Refusal
  <2>2. known' \in SUBSET (Secrets \cup Phrases)
    BY <1>10, KeyIs DEF Discover, TypeInv, TypeOK
  <2>3. discoveredOnce' \in BOOLEAN
    BY <1>10, Zenon DEF Discover, TypeInv, TypeOK
  <2> QED BY <1>10, <2>1, <2>2, <2>3 DEF Discover, TypeInv, TypeOK
<1>11. ASSUME NEW c \in Calls, NEW key \in ImportedKeys, RestoreSeedPhrase(c, key) PROVE TypeInv'
  <2> DEFINE k == [at |-> "init", kind |-> "restore", key |-> key, local |-> None]
  <2>1. k \in Call /\ AtHand(k)
    BY DEF ImportedKeys, Call, AtHand, Key, Partial
  <2>2. call' = [call EXCEPT ![c] = k]
    BY <1>11 DEF RestoreSeedPhrase
  <2> HIDE DEF k
  <2>3. CallOK
    BY <2>1, <2>2, SetKeepsTypes
  <2>4. AnswerOK
    BY <1>11, <1>a DEF RestoreSeedPhrase
  <2> QED BY <1>11, <1>r, <2>3, <2>4 DEF RestoreSeedPhrase
<1>12. ASSUME NEW c \in Calls, RestoreChecks(c) PROVE TypeInv'
  <2>1. CASE backup # None
    BY <1>12, <1>r, <2>1, ReturnKeepsTypes DEF RestoreChecks
  <2>2. CASE backup = None
    BY <1>12, <1>a, <1>r, <2>2, GoKeepsTypes DEF RestoreChecks, TypeInv, AtHand
  <2> QED BY <2>1, <2>2
<1>13. ASSUME NEW key \in ImportedKeys, RecoverBackup(key) PROVE TypeInv'
  BY <1>13, <1>o DEF RecoverBackup, ImportedKeys, Key, TypeInv, TypeOK
<1>14. CASE StopSession
  BY <1>14 DEF StopSession, TypeInv, TypeOK
<1>15. CASE Tick
  <2>1. alarm' \in 0 .. SESSION_DURATION \cup {None}
    BY <1>15, NoneIsNoKey, DurationAssumption DEF Tick, Due, TypeInv, TypeOK
  <2>2. age' \in 0 .. SESSION_DURATION + 1
    BY <1>15, DurationAssumption DEF Tick, TypeInv, TypeOK
  <2> QED BY <1>15, <2>1, <2>2 DEF Tick, TypeInv, TypeOK
<1>16. CASE FireAlarm
  <2>1. locking' \in BOOLEAN
    BY <1>16, Zenon DEF FireAlarm
  <2> QED BY <1>16, <2>1 DEF FireAlarm, TypeInv, TypeOK
<1>17. CASE LockOnAlarm
  BY <1>17 DEF LockOnAlarm, TypeInv, TypeOK
<1>18. CASE StopWorker
  BY <1>18, IdleIsCall DEF StopWorker, TypeInv, TypeOK
<1>19. CASE Quit
  BY <1>19, IdleIsCall DEF Quit, TypeInv, TypeOK
<1>20. CASE UNCHANGED vars
  BY <1>20 DEF vars, TypeInv, TypeOK
<1> QED BY <1>1, <1>2, <1>3, <1>4, <1>5, <1>6, <1>7, <1>8, <1>9, <1>10, <1>11, <1>12, <1>13,
           <1>14, <1>15, <1>16, <1>17, <1>18, <1>19, <1>20 DEF Next

(* No backup and no session is stored without its secret, wherever calls,  *)
(* locks and alarms overlap.                                               *)
THEOREM TypeCorrect == Spec => []TypeOK
<1>1. TypeInv => TypeOK
  BY DEF TypeInv
<1> QED BY <1>1, InitTypes, NextTypes, PTL DEF Spec

---------------------------------------------------------------------------
(* What the one call that is handled knows of what is stored.              *)

(* Until the session is set there is none; a new backup is made where      *)
(* there is none; what is decrypted, and then opened, is what is stored.   *)
Knows(k) ==
    /\ k.at \in {"init", "generate", "encrypt", "backup", "decrypt", "set"} => session = None
    /\ k.at \in {"encrypt", "backup"} => backup = None
    /\ k.at = "decrypt" => k.local = backup
    /\ k.at = "set" => k.key = backup
Matches == session # None => session = backup
OneCall == \A c, d \in Calls : ~ At(c, "idle") /\ ~ At(d, "idle") => c = d
Matched == Matches /\ OneCall /\ \A c \in Calls : Knows(call[c])
MatchInv == ~ overlapped => Matched

LEMMA InitMatches == Init => MatchInv
BY DEF Init, MatchInv, Matched, Matches, OneCall, At, Knows, Idle

LEMMA NextMatches ==
    ASSUME TypeInv, MatchInv, [Next]_vars, ~ overlapped'
    PROVE  Matched'
<1> USE DEF At, stores, timer
<1>a. call \in [Calls -> Call]
  BY DEF TypeInv, TypeOK
<1>i. Idle.at = "idle"
  BY DEF Idle
<1>o. ASSUME NEW c \in Calls, ~ At(c, "idle"), UNCHANGED overlapped
      PROVE  Matched /\ \A d \in Calls : d # c => At(d, "idle")
  BY <1>o DEF MatchInv, Matched, OneCall
<1>v. ASSUME Arrives PROVE Matched /\ \A d \in Calls : At(d, "idle")
  BY <1>v DEF Arrives, MatchInv
<1>k. ASSUME NEW c \in Calls, \A d \in Calls : d # c => At(d, "idle"),
             \A d \in Calls : d # c => call'[d] = call[d], Knows(call[c])', Matches'
      PROVE  Matched'
  <2>1. \A d \in Calls : d # c => At(d, "idle")' /\ Knows(call[d])'
    BY <1>k DEF Knows
  <2> QED BY <1>k, <2>1 DEF Matched, OneCall
<1>s. ASSUME Matched, UNCHANGED <<backup, session>> PROVE Matches'
  BY <1>s DEF Matched, Matches
<1>t. ASSUME NEW c \in Calls, NEW result, Return(c, result), UNCHANGED <<backup, session>>,
             Matched, \A d \in Calls : d # c => At(d, "idle")
      PROVE  Matched'
  <2>1. Knows(call[c])' /\ \A d \in Calls : d # c => call'[d] = call[d]
    BY <1>t, <1>a, <1>i DEF Return, Knows
  <2> QED BY <1>t, <1>k, <1>s, <2>1
<1>g. ASSUME NEW c \in Calls, NEW place, Go(c, place), UNCHANGED <<backup, session>>,
             Matched, \A d \in Calls : d # c => At(d, "idle"),
             \/ place \in {"alarm", "create", "discover"}
             \/ place \in {"generate", "encrypt", "backup"} /\ session = None /\ (place # "generate" => backup = None)
      PROVE  Matched'
  <2>1. call'[c].at = place /\ \A d \in Calls : d # c => call'[d] = call[d]
    BY <1>g, <1>a DEF Go, Call
  <2>2. Knows(call[c])'
    BY <1>g, <2>1 DEF Knows
  <2> QED BY <1>g, <1>k, <1>s, <2>1, <2>2
<1>f. ASSUME NEW c \in Calls, Follow(c), UNCHANGED <<backup, session>>,
             Matched, \A d \in Calls : d # c => At(d, "idle")
      PROVE  Matched'
  BY <1>f, <1>g, <1>t DEF Follow
<1>1. ASSUME NEW c \in Calls, NEW password \in Passwords, StartSession(c, password) PROVE Matched'
  <2>0. Matched /\ \A d \in Calls : At(d, "idle")
    BY <1>1, <1>v DEF StartSession
  <2>1. CASE session # None
    BY <1>1, <1>t, <2>0, <2>1 DEF StartSession
  <2>2. CASE session = None
    <3>1. call'[c].at = "init" /\ \A d \in Calls : d # c => call'[d] = call[d]
      BY <1>1, <1>a, <2>2 DEF StartSession
    <3>2. Knows(call[c])'
      BY <1>1, <2>2, <3>1 DEF StartSession, Knows
    <3> QED BY <1>1, <1>k, <1>s, <2>0, <3>1, <3>2 DEF StartSession
  <2> QED BY <2>1, <2>2
<1>2. ASSUME NEW c \in Calls, IsInitialized(c) PROVE Matched'
  <2>0. Matched /\ session = None /\ \A d \in Calls : d # c => At(d, "idle")
    BY <1>2, <1>o DEF IsInitialized, Knows, Matched
  <2>1. CASE backup = None
    BY <1>2, <1>g, <2>0, <2>1 DEF IsInitialized
  <2>2. CASE backup # None
    <3>1. /\ call'[c].at = "decrypt" /\ call'[c].local = backup
          /\ \A d \in Calls : d # c => call'[d] = call[d]
      BY <1>2, <1>a, <2>2 DEF IsInitialized, Call
    <3>2. Knows(call[c])'
      BY <1>2, <2>0, <3>1 DEF IsInitialized, Knows
    <3> QED BY <1>2, <1>k, <1>s, <2>0, <3>1, <3>2 DEF IsInitialized
  <2> QED BY <2>1, <2>2
<1>3. ASSUME NEW c \in Calls, GenerateNewLocalSecret(c) PROVE Matched'
  <2>0. Matched /\ session = None /\ \A d \in Calls : d # c => At(d, "idle")
    BY <1>3, <1>o DEF GenerateNewLocalSecret, Knows, Matched
  <2>1. CASE backup # None
    BY <1>3, <1>t, <2>0, <2>1 DEF GenerateNewLocalSecret
  <2>2. CASE backup = None
    <3>1. call'[c].at = "encrypt" /\ \A d \in Calls : d # c => call'[d] = call[d]
      BY <1>3, <1>a, <2>2 DEF GenerateNewLocalSecret, Call
    <3>2. Knows(call[c])'
      BY <1>3, <2>0, <2>2, <3>1 DEF GenerateNewLocalSecret, Knows
    <3> QED BY <1>3, <1>k, <1>s, <2>0, <3>1, <3>2 DEF GenerateNewLocalSecret
  <2> QED BY <2>1, <2>2
<1>4. ASSUME NEW c \in Calls, Encrypted(c) PROVE Matched'
  <2>1. Matched /\ session = None /\ backup = None /\ \A d \in Calls : d # c => At(d, "idle")
    BY <1>4, <1>o DEF Encrypted, Knows, Matched
  <2> QED BY <1>4, <1>g, <2>1 DEF Encrypted
<1>5. ASSUME NEW c \in Calls, StoreBackup(c) PROVE Matched'
  <2>1. Matched /\ session = None /\ \A d \in Calls : d # c => At(d, "idle")
    BY <1>5, <1>o DEF StoreBackup, Knows, Matched
  <2>2. /\ call'[c].at = "set" /\ call'[c].key = call[c].key
        /\ \A d \in Calls : d # c => call'[d] = call[d]
    BY <1>5, <1>a DEF StoreBackup, Go, Call
  <2>3. Knows(call[c])' /\ Matches'
    BY <1>5, <2>1, <2>2 DEF StoreBackup, Knows, Matches
  <2> QED BY <1>k, <2>1, <2>2, <2>3
<1>6. ASSUME NEW c \in Calls, Decrypted(c) PROVE Matched'
  <2>0. /\ Matched /\ session = None /\ call[c].local = backup
        /\ \A d \in Calls : d # c => At(d, "idle")
    BY <1>6, <1>o DEF Decrypted, Knows, Matched
  <2>1. CASE call[c].local.password # call[c].key.password
    BY <1>6, <1>t, <2>0, <2>1 DEF Decrypted
  <2>2. CASE call[c].local.password = call[c].key.password
    <3>1. call[c].key \in Partial /\ call[c].local \in Key /\ call[c].local = backup
      BY <1>6, <2>0 DEF Decrypted, AtHand, TypeInv
    <3>2. [call[c].key EXCEPT !.secret = call[c].local.secret] = backup
      BY <2>2, <3>1 DEF Partial, Key
    <3>3. /\ call'[c].at = "set" /\ call'[c].key = backup
          /\ \A d \in Calls : d # c => call'[d] = call[d]
      BY <1>6, <1>a, <2>2, <3>2 DEF Decrypted, Call
    <3>4. Knows(call[c])'
      BY <1>6, <2>0, <3>3 DEF Decrypted, Knows
    <3> QED BY <1>6, <1>k, <1>s, <2>0, <3>3, <3>4 DEF Decrypted
  <2> QED BY <2>1, <2>2
<1>7. ASSUME NEW c \in Calls, SetSession(c) PROVE Matched'
  <2>1. /\ call'[c].at = "alarm"
        /\ \A d \in Calls : d # c => call'[d] = call[d]
    BY <1>7, <1>a DEF SetSession, Go, Call
  <2>2. call[c].key = backup /\ \A d \in Calls : d # c => At(d, "idle")
    BY <1>7, <1>o DEF SetSession, Knows, Matched
  <2>3. Knows(call[c])' /\ Matches'
    BY <1>7, <2>1, <2>2 DEF SetSession, Knows, Matches
  <2> QED BY <1>k, <2>1, <2>2, <2>3
<1>8. ASSUME NEW c \in Calls, GetAlarm(c) PROVE Matched'
  <2>0. Matched /\ \A d \in Calls : d # c => At(d, "idle")
    BY <1>8, <1>o DEF GetAlarm
  <2>1. CASE alarm # None
    BY <1>8, <1>f, <2>0, <2>1 DEF GetAlarm
  <2>2. CASE alarm = None
    BY <1>8, <1>g, <2>0, <2>2 DEF GetAlarm
  <2> QED BY <2>1, <2>2
<1>9. ASSUME NEW c \in Calls, CreateAlarm(c) PROVE Matched'
  <2>0. Matched /\ \A d \in Calls : d # c => At(d, "idle")
    BY <1>9, <1>o DEF CreateAlarm
  <2> QED BY <1>9, <1>f, <2>0 DEF CreateAlarm
<1>10. ASSUME NEW c \in Calls, NEW outcome \in {"all", "some", "error"}, Discover(c, outcome)
       PROVE  Matched'
  <2>0. Matched /\ \A d \in Calls : d # c => At(d, "idle")
    BY <1>10, <1>o DEF Discover
  <2> QED BY <1>10, <1>t, <2>0 DEF Discover
<1>11. ASSUME NEW c \in Calls, NEW key \in ImportedKeys, RestoreSeedPhrase(c, key) PROVE Matched'
  <2>0. Matched /\ \A d \in Calls : At(d, "idle")
    BY <1>11, <1>v DEF RestoreSeedPhrase
  <2>1. call'[c].at = "init" /\ \A d \in Calls : d # c => call'[d] = call[d]
    BY <1>11, <1>a DEF RestoreSeedPhrase
  <2>2. Knows(call[c])'
    BY <1>11, <2>1 DEF RestoreSeedPhrase, Knows
  <2> QED BY <1>11, <1>k, <1>s, <2>0, <2>1, <2>2 DEF RestoreSeedPhrase
<1>12. ASSUME NEW c \in Calls, RestoreChecks(c) PROVE Matched'
  <2>0. Matched /\ session = None /\ \A d \in Calls : d # c => At(d, "idle")
    BY <1>12, <1>o DEF RestoreChecks, Knows, Matched
  <2>1. CASE backup # None
    BY <1>12, <1>t, <2>0, <2>1 DEF RestoreChecks
  <2>2. CASE backup = None
    BY <1>12, <1>g, <2>0, <2>2 DEF RestoreChecks
  <2> QED BY <2>1, <2>2
<1>13. ASSUME NEW key \in ImportedKeys, RecoverBackup(key) PROVE Matched'
  <2>1. Matched /\ \A c \in Calls : At(c, "idle")
    BY <1>13, <1>v DEF RecoverBackup
  <2>2. session = None
    BY <1>13, <2>1 DEF RecoverBackup, Matched, Matches
  <2> QED BY <1>13, <2>1, <2>2 DEF RecoverBackup, Knows, Matched, Matches, OneCall
<1>14. CASE StopSession
  BY <1>14 DEF StopSession, Knows, MatchInv, Matched, Matches, OneCall
<1>15. CASE Tick
  BY <1>15 DEF Tick, Knows, MatchInv, Matched, Matches, OneCall
<1>16. CASE FireAlarm
  BY <1>16 DEF FireAlarm, Knows, MatchInv, Matched, Matches, OneCall
<1>17. CASE LockOnAlarm
  BY <1>17 DEF LockOnAlarm, Knows, MatchInv, Matched, Matches, OneCall
<1>18. CASE StopWorker
  BY <1>18, <1>i DEF StopWorker, Knows, MatchInv, Matched, Matches, OneCall
<1>19. CASE Quit
  BY <1>19, <1>i DEF Quit, Knows, MatchInv, Matched, Matches, OneCall
<1>20. CASE UNCHANGED vars
  BY <1>20 DEF vars, Knows, MatchInv, Matched, Matches, OneCall
<1> QED BY <1>1, <1>2, <1>3, <1>4, <1>5, <1>6, <1>7, <1>8, <1>9, <1>10, <1>11, <1>12, <1>13,
           <1>14, <1>15, <1>16, <1>17, <1>18, <1>19, <1>20 DEF Next

(* Until a message comes while another is handled, what is open is the     *)
(* wallet that is backed up, although a restore, an import, a start, a     *)
(* lock, the alarm, the end of the worker and of the browser come in any   *)
(* order.                                                                  *)
THEOREM SessionIsBackup == Spec => []SessionMatchesBackup
<1>1. TypeInv /\ MatchInv /\ [Next]_vars => MatchInv'
  BY NextMatches DEF MatchInv
<1>2. MatchInv => SessionMatchesBackup
  BY DEF MatchInv, Matched, Matches, SessionMatchesBackup
<1> QED BY <1>1, <1>2, InitTypes, NextTypes, InitMatches, PTL DEF Spec

---------------------------------------------------------------------------
(* The age of a session and what is left of the alarm make no more than    *)
(* the duration; without an alarm, the session is about to end, or some    *)
(* call is about to make one; and meanwhile no time passes.                *)
Making == \E c \in Calls : call[c].at \in {"alarm", "create"}
Timed ==
    /\ Making => age = 0
    /\ session # None /\ listening =>
          /\ age <= SESSION_DURATION
          /\ alarm # None => alarm + age <= SESSION_DURATION
          /\ alarm # None \/ locking \/ Making

LEMMA InitTimed == Init => Timed
BY DurationAssumption DEF Init, Timed, Making, Idle

LEMMA NextTimed == TypeInv /\ Timed /\ [Next]_vars => Timed'
<1> SUFFICES ASSUME TypeInv, Timed, [Next]_vars PROVE Timed'
  OBVIOUS
<1> USE DEF At, stores, timer
<1>a. /\ call \in [Calls -> Call] /\ age \in Nat
      /\ alarm \in 0 .. SESSION_DURATION \cup {None} /\ SESSION_DURATION \in Nat
  BY DurationAssumption DEF TypeInv, TypeOK
<1>m. ASSUME UNCHANGED <<session, timer>>, Making' <=> Making PROVE Timed'
  BY <1>m DEF Timed
<1>r. ASSUME NEW c \in Calls, ~ (call[c].at \in {"alarm", "create"}),
             ~ (call'[c].at \in {"alarm", "create"}), \A d \in Calls : d # c => call'[d] = call[d]
      PROVE  Making' <=> Making
  BY <1>r DEF Making
<1>i. Idle.at = "idle"
  BY DEF Idle
<1>1. ASSUME NEW c \in Calls, NEW password \in Passwords, StartSession(c, password) PROVE Timed'
  <2>1. call'[c].at \in {"idle", "init"} /\ \A d \in Calls : d # c => call'[d] = call[d]
    BY <1>1, <1>a, <1>i DEF StartSession, Return
  <2>2. Making' <=> Making
    BY <1>1, <1>r, <2>1 DEF StartSession
  <2> QED BY <1>1, <1>m, <2>2 DEF StartSession
<1>2. ASSUME NEW c \in Calls, IsInitialized(c) PROVE Timed'
  <2>1. /\ call[c].at \notin {"alarm", "create"} /\ call'[c].at \notin {"alarm", "create"}
        /\ \A d \in Calls : d # c => call'[d] = call[d]
    BY <1>2, <1>a, <1>i DEF IsInitialized, Go, Return, Call
  <2>2. Making' <=> Making
    BY <1>r, <2>1
  <2> QED BY <1>2, <1>m, <2>2 DEF IsInitialized
<1>3. ASSUME NEW c \in Calls, GenerateNewLocalSecret(c) PROVE Timed'
  <2>1. /\ call[c].at \notin {"alarm", "create"} /\ call'[c].at \notin {"alarm", "create"}
        /\ \A d \in Calls : d # c => call'[d] = call[d]
    BY <1>3, <1>a, <1>i DEF GenerateNewLocalSecret, Go, Return, Call
  <2>2. Making' <=> Making
    BY <1>r, <2>1
  <2> QED BY <1>3, <1>m, <2>2 DEF GenerateNewLocalSecret
<1>4. ASSUME NEW c \in Calls, Encrypted(c) PROVE Timed'
  <2>1. /\ call[c].at \notin {"alarm", "create"} /\ call'[c].at \notin {"alarm", "create"}
        /\ \A d \in Calls : d # c => call'[d] = call[d]
    BY <1>4, <1>a, <1>i DEF Encrypted, Go, Return, Call
  <2>2. Making' <=> Making
    BY <1>r, <2>1
  <2> QED BY <1>4, <1>m, <2>2 DEF Encrypted
<1>5. ASSUME NEW c \in Calls, StoreBackup(c) PROVE Timed'
  <2>1. /\ call[c].at \notin {"alarm", "create"} /\ call'[c].at \notin {"alarm", "create"}
        /\ \A d \in Calls : d # c => call'[d] = call[d]
    BY <1>5, <1>a, <1>i DEF StoreBackup, Go, Return, Call
  <2>2. Making' <=> Making
    BY <1>r, <2>1
  <2> QED BY <1>5, <1>m, <2>2 DEF StoreBackup
<1>6. ASSUME NEW c \in Calls, Decrypted(c) PROVE Timed'
  <2>1. /\ call[c].at \notin {"alarm", "create"} /\ call'[c].at \notin {"alarm", "create"}
        /\ \A d \in Calls : d # c => call'[d] = call[d]
    BY <1>6, <1>a, <1>i DEF Decrypted, Go, Return, Call
  <2>2. Making' <=> Making
    BY <1>r, <2>1
  <2> QED BY <1>6, <1>m, <2>2 DEF Decrypted
<1>7. ASSUME NEW c \in Calls, SetSession(c) PROVE Timed'
  <2>1. call'[c].at = "alarm" /\ age' = 0 /\ alarm' = alarm
    BY <1>7, <1>a DEF SetSession, Go, Call
  <2>2. Making'
    BY <2>1 DEF Making
  <2>3. 0 <= SESSION_DURATION /\ (alarm # None => alarm + 0 <= SESSION_DURATION)
    BY <1>a
  <2> QED BY <2>1, <2>2, <2>3 DEF Timed
<1>8. ASSUME NEW c \in Calls, GetAlarm(c) PROVE Timed'
  <2>1. age = 0 /\ UNCHANGED <<session, timer>>
    BY <1>8 DEF GetAlarm, Timed, Making
  <2>2. 0 <= SESSION_DURATION /\ (alarm # None => alarm + 0 <= SESSION_DURATION)
    BY <1>a
  <2>3. CASE alarm # None
    BY <2>1, <2>2, <2>3 DEF Timed
  <2>4. CASE alarm = None
    <3>1. call'[c].at = "create"
      BY <1>8, <1>a, <2>4 DEF GetAlarm, Go, Call
    <3>2. Making'
      BY <3>1 DEF Making
    <3> QED BY <2>1, <2>2, <2>4, <3>2 DEF Timed
  <2> QED BY <2>3, <2>4
<1>9. ASSUME NEW c \in Calls, CreateAlarm(c) PROVE Timed'
  <2>1. age = 0 /\ age' = 0 /\ alarm' = SESSION_DURATION
    BY <1>9 DEF CreateAlarm, Timed, Making
  <2>2. SESSION_DURATION + 0 <= SESSION_DURATION /\ 0 <= SESSION_DURATION /\ SESSION_DURATION # None
    BY <1>a, NoneAssumption
  <2> QED BY <2>1, <2>2 DEF Timed
<1>10. ASSUME NEW c \in Calls, NEW outcome \in {"all", "some", "error"}, Discover(c, outcome) PROVE Timed'
  <2>1. /\ call[c].at \notin {"alarm", "create"} /\ call'[c].at \notin {"alarm", "create"}
        /\ \A d \in Calls : d # c => call'[d] = call[d]
    BY <1>10, <1>a, <1>i DEF Discover, Go, Return, Call
  <2>2. Making' <=> Making
    BY <1>r, <2>1
  <2> QED BY <1>10, <1>m, <2>2 DEF Discover
<1>11. ASSUME NEW c \in Calls, NEW key \in ImportedKeys, RestoreSeedPhrase(c, key) PROVE Timed'
  <2>1. /\ call[c].at \notin {"alarm", "create"} /\ call'[c].at \notin {"alarm", "create"}
        /\ \A d \in Calls : d # c => call'[d] = call[d]
    BY <1>11, <1>a, <1>i DEF RestoreSeedPhrase, Go, Return, Call
  <2>2. Making' <=> Making
    BY <1>r, <2>1
  <2> QED BY <1>11, <1>m, <2>2 DEF RestoreSeedPhrase
<1>12. ASSUME NEW c \in Calls, RestoreChecks(c) PROVE Timed'
  <2>1. /\ call[c].at \notin {"alarm", "create"} /\ call'[c].at \notin {"alarm", "create"}
        /\ \A d \in Calls : d # c => call'[d] = call[d]
    BY <1>12, <1>a, <1>i DEF RestoreChecks, Go, Return, Call
  <2>2. Making' <=> Making
    BY <1>r, <2>1
  <2> QED BY <1>12, <1>m, <2>2 DEF RestoreChecks
<1>13. ASSUME NEW key \in ImportedKeys, RecoverBackup(key) PROVE Timed'
  BY <1>13, <1>m DEF RecoverBackup, Making
<1>14. CASE StopSession
  BY <1>14 DEF StopSession, Timed, Making
<1>15. CASE Tick
  <2>1. /\ ~ Making /\ ~ locking /\ alarm # 0 /\ ~ Making'
        /\ UNCHANGED <<session, listening, locking>>
    BY <1>15 DEF Tick, Due, Making
  <2>2. ASSUME session # None, listening
        PROVE  /\ alarm # None /\ alarm' = alarm - 1 /\ age <= SESSION_DURATION /\ age' = age + 1
               /\ alarm + age <= SESSION_DURATION /\ alarm \in Nat /\ alarm # 0
    BY <1>15, <1>a, <2>1, <2>2 DEF Tick, Timed
  <2>3. ASSUME session # None, listening
        PROVE  age' <= SESSION_DURATION /\ alarm' + age' <= SESSION_DURATION /\ alarm' \in Nat
    BY <1>a, <2>2, <2>3
  <2>4. \A n \in Nat : n # None
    BY NoneAssumption
  <2> QED BY <2>1, <2>3, <2>4 DEF Timed
<1>16. CASE FireAlarm
  BY <1>16 DEF FireAlarm, Timed, Making
<1>17. CASE LockOnAlarm
  BY <1>17 DEF LockOnAlarm, Timed, Making
<1>18. CASE StopWorker
  BY <1>18, <1>i DEF StopWorker, Timed, Making
<1>19. CASE Quit
  BY <1>19, <1>i DEF Quit, Timed, Making
<1>20. CASE UNCHANGED vars
  BY <1>20, <1>m DEF vars, Making
<1> QED BY <1>1, <1>2, <1>3, <1>4, <1>5, <1>6, <1>7, <1>8, <1>9, <1>10, <1>11, <1>12, <1>13,
           <1>14, <1>15, <1>16, <1>17, <1>18, <1>19, <1>20 DEF Next

(* However calls, locks and the alarm overlap, and whatever old alarm      *)
(* setSession finds, no session outlives the delay of the alarm, as long   *)
(* as the worker runs that listens for it.                                 *)
THEOREM SessionsAreTimed == Spec => []SessionIsTimed
<1>1. Timed => SessionIsTimed
  BY DEF Timed, SessionIsTimed
<1> QED BY <1>1, InitTypes, NextTypes, InitTimed, NextTimed, PTL DEF Spec

---------------------------------------------------------------------------
(* The list of accounts.                                                   *)

(* The list counts as everybody does.                                      *)
LEMMA ListCounts ==
    \A s : List!Cardinality(s) = Cardinality(s) /\ (List!IsFiniteSet(s) <=> IsFiniteSet(s))
BY DEF List!Cardinality, Cardinality, List!IsFiniteSet, IsFiniteSet

LEMMA ListConstants ==
    /\ Readonly \subseteq Networks /\ DefaultCustom \subseteq Networks /\ Default \in Readonly
    /\ ClassOf \in [Networks -> Classes]
    /\ Earlier \subseteq List!Key /\ IsFiniteSet(Earlier)
    /\ \A key \in Earlier : key.class \in KnownClasses /\ key.index <= MaxAccounts
    /\ Offset \in Nat \ {0} /\ MaxAccounts \in Nat
    /\ None \notin List!Key
BY ListAssumption, ListCounts DEF List!ConstantsOK

LEMMA KeysAre ==
    /\ \A n \in Networks, c \in Classes, i \in Nat : List!At(n, c, i) \in List!Key
    /\ \A a \in List!Account : List!KeyOf(a) \in List!Key
    /\ \A k \in List!Key :
          /\ k = List!At(k.network, k.class, k.index)
          /\ List!Visible(k) \in List!Account /\ List!KeyOf(List!Visible(k)) = k
          /\ ~ List!Visible(k).hidden
BY DEF List!At, List!Key, List!Account, List!KeyOf, List!Visible

(* The first of some places is one of them.                                *)
LEMMA FirstIsFirst ==
    ASSUME NEW s \in SUBSET Nat, s # {}
    PROVE  List!FirstOf(s) \in s /\ \A i \in s : List!FirstOf(s) <= i
<1> DEFINE less == OpToRel(<, Nat)
<1>1. IsWellFoundedOn(less, Nat)
  BY NatLessThanWellFounded, Zenon
<1>2. \A m, n \in Nat : m < n => <<m, n>> \in less
  BY DEF OpToRel
<1> HIDE DEF less
<1>3. PICK n \in s : \A m \in s : ~ (<<m, n>> \in less)
  BY <1>1, WFMin
<1>4. \A m \in s : ~ (m < n)
  BY <1>2, <1>3
<1>5. n \in Nat /\ \A m \in s : m \in Nat
  OBVIOUS
<1>6. \A m \in s : n <= m
  BY <1>4, <1>5
<1> QED BY <1>6 DEF List!FirstOf

(* The places of the accounts.                                             *)
LEMMA PlacesAre ==
    ASSUME NEW list \in Seq(List!Account), NEW n
    PROVE  /\ List!VisibleOn(list, n) \subseteq List!On(list, n)
           /\ List!On(list, n) \subseteq DOMAIN list /\ DOMAIN list \subseteq Nat
           /\ IsFiniteSet(List!On(list, n)) /\ Cardinality(List!On(list, n)) <= Len(list)
           /\ Cardinality(List!On(list, n)) \in Nat
<1>1. DOMAIN list = 1 .. Len(list) /\ Len(list) \in Nat /\ DOMAIN list \subseteq Nat
  OBVIOUS
<1>2. IsFiniteSet(DOMAIN list) /\ Cardinality(DOMAIN list) = Len(list)
  <2>1. 1 \in Int /\ Len(list) \in Int /\ Len(list) - 1 + 1 = Len(list)
    BY <1>1
  <2> QED BY <1>1, <2>1, FS_Interval
<1>3. List!VisibleOn(list, n) \subseteq List!On(list, n) /\ List!On(list, n) \subseteq DOMAIN list
  BY DEF List!VisibleOn, List!On
<1> QED BY <1>1, <1>2, <1>3, FS_Subset, FS_CardinalityType

(* The next index is none of those there are, and not above their number.  *)
LEMMA NextIsNew ==
    ASSUME NEW S, IsFiniteSet(S), NEW paths \in [S -> Nat]
    PROVE  /\ List!GetNextPathIndex(paths) \in 0 .. Cardinality(S)
           /\ \A i \in S : paths[i] # List!GetNextPathIndex(paths)
<1> DEFINE length == Cardinality(S)
           free == {i \in 0 .. (length - 1) : \A j \in S : paths[j] # i}
           next == IF free = {} THEN length ELSE List!FirstOf(free)
<1>1. List!GetNextPathIndex(paths) = next
  BY ListCounts DEF List!GetNextPathIndex
<1>2. length \in Nat
  BY FS_CardinalityType
<1>3. CASE free # {}
  <2>1. free \subseteq 0 .. (length - 1) /\ free \in SUBSET Nat
    BY <1>2
  <2>2. next \in free
    BY <1>3, <2>1, FirstIsFirst
  <2>3. next \in 0 .. length
    BY <1>2, <2>1, <2>2
  <2> QED BY <1>1, <2>2, <2>3
<1>4. CASE free = {}
  <2>1. ASSUME NEW i \in S, paths[i] = length PROVE FALSE
    <3> DEFINE rest == S \ {i}
               indices == {paths[j] : j \in rest}
    <3>1. IsFiniteSet(rest) /\ Cardinality(rest) = length - 1
      BY FS_RemoveElement
    <3>2. 0 .. (length - 1) \subseteq indices
      <4> SUFFICES ASSUME NEW m \in 0 .. (length - 1) PROVE m \in indices
        OBVIOUS
      <4>1. PICK j \in S : paths[j] = m
        BY <1>4
      <4>2. j # i
        BY <1>2, <2>1, <4>1
      <4> QED BY <4>1, <4>2
    <3>3. IsFiniteSet(indices) /\ Cardinality(indices) <= Cardinality(rest)
      <4> DEFINE f == [j \in rest |-> paths[j]]
      <4>1. f \in Surjection(rest, indices)
        BY DEF Surjection
      <4> HIDE DEF f, rest, indices
      <4> QED BY <4>1, <3>1, FS_Surjection
    <3>4. Cardinality(0 .. (length - 1)) = length
      <4>1. 0 \in Int /\ length - 1 \in Int
        BY <1>2
      <4>2. Cardinality(0 .. (length - 1)) = IF 0 > length - 1 THEN 0 ELSE (length - 1) - 0 + 1
        BY <4>1, FS_Interval
      <4> HIDE DEF length
      <4> QED BY <4>2, <1>2
    <3>5. Cardinality(0 .. (length - 1)) <= Cardinality(indices) /\ Cardinality(indices) \in Nat
      <4> HIDE DEF indices, length
      <4> QED BY <3>2, <3>3, FS_Subset, FS_CardinalityType
    <3> HIDE DEF indices, rest, length
    <3> QED BY <1>2, <3>1, <3>3, <3>4, <3>5
  <2>2. next = length
    BY <1>4
  <2>3. length \in 0 .. length
    BY <1>2
  <2> HIDE DEF next, free
  <2> QED BY <1>1, <2>1, <2>2, <2>3
<1> QED BY <1>3, <1>4

(* Lists with every account once, and the keys of their accounts.          *)
EachOnce(list) ==
    /\ list \in Seq(List!Account)
    /\ \A i, j \in DOMAIN list : List!KeyOf(list[i]) = List!KeyOf(list[j]) => i = j
KeysOf(list) == {List!KeyOf(list[i]) : i \in DOMAIN list}

(* Besides the types: an account that is being made is not in the list     *)
(* yet; only accounts that were in a list or deployed by an earlier        *)
(* release are deployed, finitely many; MaxAccounts bounds their indices;  *)
(* and their classes are among those that are searched for.                *)
InReach(key) == key.index <= MaxAccounts /\ key.class \in List!Searched(key.network)
Numbered ==
    /\ adding # None => adding \notin List!Keys /\ InReach(adding)
    /\ IsFiniteSet(deployed)
    /\ \A key \in List!Keys \cup deployed : InReach(key)
ListInv == List!TypeOK /\ Numbered

LEMMA ListIs == List!TypeOK <=>
    /\ EachOnce(accounts)
    /\ custom \subseteq Networks /\ shown \in Networks
    /\ selected \in List!Key \cup {None} /\ adding \in List!Key \cup {None}
    /\ deployed \subseteq List!Key /\ pushed \subseteq Networks /\ restored \in BOOLEAN
    /\ blind \subseteq deployed
<1>1. List!TypeOK => restored \in BOOLEAN
  BY Zenon DEF List!TypeOK
<1> QED BY <1>1, Zenon DEF List!TypeOK, EachOnce

LEMMA KeysOfList == List!Keys = KeysOf(accounts)
BY DEF List!Keys, KeysOf

(* Hiding an account, or showing it again.                                 *)
LEMMA MarkedList ==
    ASSUME NEW list, EachOnce(list), NEW i \in DOMAIN list, NEW value \in BOOLEAN
    PROVE  /\ EachOnce([list EXCEPT ![i].hidden = value])
           /\ KeysOf([list EXCEPT ![i].hidden = value]) = KeysOf(list)
<1> DEFINE new == [list EXCEPT ![i].hidden = value]
<1>1. list \in Seq(List!Account) /\ list[i] \in List!Account
  BY DEF EachOnce
<1>2. DOMAIN new = DOMAIN list /\ \A j \in DOMAIN list : j # i => new[j] = list[j]
  BY <1>1
<1>3. new[i] = [list[i] EXCEPT !.hidden = value]
  BY <1>1
<1>4. /\ new[i] \in List!Account
      /\ new[i].network = list[i].network /\ new[i].index = list[i].index
      /\ new[i].class = list[i].class
  BY <1>1, <1>3, Zenon DEF List!Account
<1>5. new \in Seq(List!Account)
  BY <1>1, <1>3, <1>4
<1>6. \A j \in DOMAIN list : List!KeyOf(new[j]) = List!KeyOf(list[j])
  BY <1>2, <1>4 DEF List!KeyOf, List!At
<1> HIDE DEF new
<1>7. KeysOf(new) = KeysOf(list)
  BY <1>2, <1>6 DEF KeysOf
<1>8. EachOnce(new)
  BY <1>2, <1>5, <1>6 DEF EachOnce
<1> QED BY <1>7, <1>8 DEF new

(* Deleting one.                                                           *)
LEMMA ShorterList ==
    ASSUME NEW list, EachOnce(list), NEW i \in DOMAIN list,
           NEW new, new = [j \in 1 .. (Len(list) - 1) |-> list[IF j < i THEN j ELSE j + 1]]
    PROVE  EachOnce(new) /\ KeysOf(new) \subseteq KeysOf(list)
<1> DEFINE from(j) == IF j < i THEN j ELSE j + 1
           rest == 1 .. (Len(list) - 1)
<1>1. list \in Seq(List!Account) /\ Len(list) \in Nat /\ DOMAIN list = 1 .. Len(list)
  BY DEF EachOnce
<1>2. Len(list) - 1 \in Nat
  BY <1>1
<1>3. \A j \in rest : from(j) \in DOMAIN list
  BY <1>1
<1>4. \A j, k \in rest : from(j) = from(k) => j = k
  BY <1>1
<1>5. DOMAIN new = rest /\ \A j \in rest : new[j] = list[from(j)]
  OBVIOUS
<1>6. new \in [rest -> List!Account]
  BY <1>1, <1>3
<1>7. new \in Seq(List!Account)
  BY <1>2, <1>6
<1> HIDE DEF from, rest
<1>8. EachOnce(new)
  BY <1>3, <1>4, <1>5, <1>7 DEF EachOnce
<1>9. KeysOf(new) \subseteq KeysOf(list)
  BY <1>3, <1>5 DEF KeysOf
<1> QED BY <1>8, <1>9

(* Pushing one the list does not have.                                     *)
LEMMA LongerList ==
    ASSUME NEW list, EachOnce(list), NEW account \in List!Account,
           List!KeyOf(account) \notin KeysOf(list)
    PROVE  /\ List!Put(list, account) = Append(list, account)
           /\ EachOnce(Append(list, account))
           /\ KeysOf(Append(list, account)) = KeysOf(list) \cup {List!KeyOf(account)}
<1> DEFINE new == Append(list, account)
<1>1. List!Put(list, account) = new
  BY DEF List!Put, KeysOf
<1>2. list \in Seq(List!Account) /\ new \in Seq(List!Account)
  BY DEF EachOnce
<1>3. /\ DOMAIN new = DOMAIN list \cup {Len(list) + 1}
      /\ Len(list) + 1 \notin DOMAIN list
      /\ new[Len(list) + 1] = account
      /\ \A i \in DOMAIN list : new[i] = list[i]
  BY <1>2
<1> HIDE DEF new
<1>4. EachOnce(new)
  BY <1>2, <1>3 DEF EachOnce, KeysOf
<1>5. KeysOf(new) = KeysOf(list) \cup {List!KeyOf(account)}
  BY <1>3 DEF KeysOf
<1> QED BY <1>1, <1>4, <1>5 DEF new

(* The account newAccount computes is not in the list, hidden or not.      *)
LEMMA NextAccountIsNew ==
    ASSUME EachOnce(accounts), NEW network \in Networks, NEW class
    PROVE  LET index == List!GetNextPathIndex(List!CurrentPaths(network))
           IN  index \in 0 .. Len(accounts) /\ List!At(network, class, index) \notin KeysOf(accounts)
<1> DEFINE places == List!On(accounts, network)
           paths == List!CurrentPaths(network)
           index == List!GetNextPathIndex(paths)
<1>1. /\ accounts \in Seq(List!Account)
      /\ places \subseteq DOMAIN accounts /\ IsFiniteSet(places)
      /\ Cardinality(places) \in Nat /\ Cardinality(places) <= Len(accounts)
  BY PlacesAre DEF EachOnce
<1>2. paths = [i \in places |-> accounts[i].index]
  BY DEF List!CurrentPaths
<1>3. \A i \in places : accounts[i].index \in Nat
  <2>1. \A i \in places : accounts[i] \in List!Account
    BY <1>1
  <2> QED BY <2>1 DEF List!Account
<1>4. paths \in [places -> Nat]
  BY <1>2, <1>3
<1> HIDE DEF places, paths
<1>5. index \in 0 .. Cardinality(places) /\ \A i \in places : paths[i] # index
  BY <1>1, <1>4, NextIsNew
<1>6. index \in 0 .. Len(accounts)
  <2> HIDE DEF index
  <2>1. Len(accounts) \in Nat
    BY <1>1
  <2> QED BY <1>1, <1>5, <2>1
<1> HIDE DEF index
<1>7. ASSUME NEW i \in DOMAIN accounts, List!KeyOf(accounts[i]) = List!At(network, class, index)
      PROVE  FALSE
  <2>1. accounts[i].network = network /\ accounts[i].index = index
    BY <1>7 DEF List!KeyOf, List!At
  <2>2. i \in places
    BY <2>1 DEF places, List!On
  <2> QED BY <1>2, <1>5, <2>1, <2>2
<1> QED BY <1>6, <1>7 DEF KeysOf, index, paths

(* What recovery finds, and the list it leaves.                            *)
Defaults == Readonly \cup DefaultCustom
Found == UNION {List!RestoredAccounts(n) : n \in Defaults}

LEMMA FoundIsDeployed ==
    /\ Found \subseteq deployed
    /\ \A n \in Defaults : \A c \in List!Searched(n) : \A i \in List!Restored(n, c) :
          List!At(n, c, i) \in Found
    /\ \A key \in Found : key.network \in Defaults
<1>1. \A n, c : \A i \in List!Restored(n, c) : List!At(n, c, i) \in deployed
  BY DEF List!Restored
<1>2. \A n : \A key \in List!RestoredAccounts(n) : key \in deployed /\ key.network = n
  BY <1>1 DEF List!RestoredAccounts, List!At
<1>3. \A n : \A c \in List!Searched(n) : \A i \in List!Restored(n, c) :
         List!At(n, c, i) \in List!RestoredAccounts(n)
  BY DEF List!RestoredAccounts
<1> QED BY <1>2, <1>3 DEF Found

LEMMA RecoveredList ==
    ASSUME ListInv, List!Recover
    PROVE  /\ EachOnce(accounts') /\ KeysOf(accounts') = Found
           /\ \A key \in KeysOf(accounts') : key.network \in Defaults
           /\ Found # {} => adding' = None
           /\ Found = {} => adding' = List!At(Default, ClassOf[Default], 0)
           /\ custom' = DefaultCustom /\ shown' = Default /\ selected' = None
           /\ pushed' = {} /\ restored' = FALSE /\ deployed' = deployed
           /\ blind' = {}
<1> DEFINE n == Cardinality(Found)
<1>1. Found \subseteq List!Key /\ IsFiniteSet(Found) /\ n \in Nat
  BY FoundIsDeployed, FS_Subset, FS_CardinalityType DEF ListInv, Numbered, List!TypeOK
<1>2. /\ custom' = DefaultCustom /\ shown' = Default /\ selected' = None /\ pushed' = {}
      /\ restored' = FALSE /\ deployed' = deployed /\ blind' = {}
      /\ adding' = IF Found = {} THEN List!At(Default, ClassOf[Default], 0) ELSE None
      /\ \E order \in [1 .. n -> Found] :
            /\ \A i, j \in DOMAIN order : order[i] = order[j] => i = j
            /\ accounts' = [i \in DOMAIN order |-> List!Visible(order[i])]
  BY ListCounts DEF List!Recover, Found, Defaults
<1>3. PICK order \in [1 .. n -> Found] :
            /\ \A i, j \in DOMAIN order : order[i] = order[j] => i = j
            /\ accounts' = [i \in DOMAIN order |-> List!Visible(order[i])]
  BY <1>2
<1>4. order \in Injection(1 .. n, Found)
  BY <1>3 DEF Injection, IsInjective
<1>5. order \in Surjection(1 .. n, Found)
  <2>1. Cardinality(1 .. n) = n
    <3>1. 1 \in Int /\ n \in Int
      BY <1>1
    <3>2. Cardinality(1 .. n) = IF 1 > n THEN 0 ELSE n - 1 + 1
      BY <3>1, FS_Interval
    <3> HIDE DEF n
    <3> QED BY <1>1, <3>2
  <2>2. Cardinality(1 .. n) = Cardinality(Found)
    BY <2>1
  <2> HIDE DEF n
  <2> QED BY <1>1, <1>4, <2>2, FS_Injection
<1> HIDE DEF n
<1>6. DOMAIN accounts' = 1 .. n /\ \A i \in 1 .. n : order[i] \in List!Key
  BY <1>1, <1>3
<1>7. ASSUME NEW i \in 1 .. n
      PROVE  accounts'[i] \in List!Account /\ List!KeyOf(accounts'[i]) = order[i]
  BY <1>3, <1>6, KeysAre
<1>8. accounts' \in Seq(List!Account)
  <2>1. accounts' \in [1 .. n -> List!Account]
    BY <1>3, <1>7
  <2> QED BY <1>1, <2>1
<1>9. EachOnce(accounts')
  BY <1>3, <1>6, <1>7, <1>8 DEF EachOnce
<1>10. KeysOf(accounts') = Found
  <2>1. \A key \in Found : \E i \in 1 .. n : order[i] = key
    BY <1>5 DEF Surjection
  <2>2. \A i \in 1 .. n : order[i] \in Found
    BY <1>3
  <2>3. KeysOf(accounts') = {List!KeyOf(accounts'[i]) : i \in 1 .. n}
    BY <1>6 DEF KeysOf
  <2> QED BY <1>7, <2>1, <2>2, <2>3
<1>11. \A key \in Found : key.network \in Defaults
  BY FoundIsDeployed
<1> QED BY <1>2, <1>9, <1>10, <1>11

(* What is chosen of some places is the account of one of them.            *)
LEMMA ChoiceIs ==
    ASSUME NEW list \in Seq(List!Account), NEW places \in SUBSET DOMAIN list, NEW address
    PROVE  \/ List!Choice(list, places, address) = None
           \/ \E i \in places : List!Choice(list, places, address) = List!KeyOf(list[i])
<1> DEFINE same == {i \in places : /\ address # None
                               /\ list[i].class = address.class /\ list[i].index = address.index}
           among == IF same = {} THEN places ELSE same
<1>1. CASE places = {}
  BY <1>1 DEF List!Choice
<1>2. CASE places # {}
  <2>1. among \subseteq places /\ among # {} /\ among \in SUBSET Nat
    BY <1>2
  <2> HIDE DEF among
  <2>2. List!FirstOf(among) \in places
    BY <2>1, FirstIsFirst
  <2>3. List!Choice(list, places, address) = List!KeyOf(list[List!FirstOf(among)])
    BY <1>2 DEF List!Choice, among
  <2> QED BY <2>2, <2>3
<1> QED BY <1>1, <1>2

(* So what is chosen of the visible accounts is visible, or none.          *)
VisibleIn(key, list) == \E i \in DOMAIN list : List!KeyOf(list[i]) = key /\ ~ list[i].hidden

LEMMA ChoiceIsVisible ==
    ASSUME NEW list \in Seq(List!Account), NEW network, NEW address
    PROVE  LET key == List!Choice(list, List!VisibleOn(list, network), address)
           IN  key \in List!Key \cup {None} /\ (key # None => VisibleIn(key, list))
<1> DEFINE places == List!VisibleOn(list, network)
           key == List!Choice(list, places, address)
<1>1. places \subseteq DOMAIN list /\ \A i \in places : ~ list[i].hidden
  BY DEF List!VisibleOn, List!On
<1> HIDE DEF places
<1>2. key = None \/ \E i \in places : key = List!KeyOf(list[i])
  BY <1>1, ChoiceIs
<1>3. \A i \in DOMAIN list : list[i] \in List!Account
  OBVIOUS
<1> HIDE DEF key
<1>4. key \in List!Key \cup {None} /\ (key # None => VisibleIn(key, list))
  BY <1>1, <1>2, <1>3, KeysAre DEF VisibleIn
<1> QED BY <1>4 DEF key, places

(* The account that is used is in the list.                                *)
LEMMA UsedIs ==
    ASSUME EachOnce(accounts)
    PROVE  List!Used = None \/ \E i \in DOMAIN accounts : List!Used = accounts[i]
<1> DEFINE here == {i \in DOMAIN accounts : List!KeyOf(accounts[i]) = selected}
           default == List!On(accounts, Default)
           among == IF here # {} THEN here ELSE IF default # {} THEN default ELSE DOMAIN accounts
<1>1. accounts \in Seq(List!Account) /\ DOMAIN accounts \subseteq Nat
  BY DEF EachOnce
<1>2. among \subseteq DOMAIN accounts
  BY DEF List!On
<1>3. CASE accounts # << >>
  <2>1. DOMAIN accounts # {}
    BY <1>1, <1>3
  <2>2. among # {} /\ among \in SUBSET Nat
    BY <1>1, <1>2, <2>1
  <2>3. List!Used = accounts[List!FirstOf(among)]
    BY <1>3 DEF List!Used
  <2> HIDE DEF among
  <2> QED BY <1>2, <2>2, <2>3, FirstIsFirst
<1> QED BY <1>3 DEF List!Used

(* The steps that leave the accounts alone.                                *)
LEMMA SameList ==
    ASSUME ListInv, UNCHANGED <<accounts, adding, deployed>>,
           custom' \subseteq Networks, shown' \in Networks, selected' \in List!Key \cup {None},
           pushed' \subseteq Networks, restored' \in BOOLEAN, blind' = blind
    PROVE  ListInv'
<1>1. List!TypeOK'
  BY DEF ListInv, List!TypeOK
<1>2. Numbered'
  BY DEF ListInv, Numbered, InReach, List!Keys
<1> QED BY <1>1, <1>2 DEF ListInv

(* Those that change them, or the account that is being made.              *)
LEMMA OtherList ==
    ASSUME ListInv, EachOnce(accounts'),
           KeysOf(accounts') \subseteq KeysOf(accounts) \cup deployed \cup ({adding} \ {None}),
           \/ adding' = None
           \/ /\ adding' \in List!Key /\ adding' \notin KeysOf(accounts')
              /\ adding' = adding \/ InReach(adding'),
           \/ deployed' = deployed
           \/ \E key \in KeysOf(accounts) : deployed' = deployed \cup {key},
           custom' \subseteq Networks, shown' \in Networks, selected' \in List!Key \cup {None},
           pushed' \subseteq Networks, restored' \in BOOLEAN,
           blind' \subseteq deployed'
    PROVE  ListInv'
<1>1. List!TypeOK /\ Numbered
  BY DEF ListInv
<1>2. deployed' \subseteq deployed \cup KeysOf(accounts) /\ IsFiniteSet(deployed')
  BY <1>1, FS_AddElement DEF Numbered
<1>3. KeysOf(accounts) \subseteq List!Key /\ deployed \subseteq List!Key
  BY <1>1, KeysAre DEF List!TypeOK, KeysOf
<1>4. List!TypeOK'
  <2>1. adding' \in List!Key \cup {None} /\ deployed' \subseteq List!Key
    BY <1>2, <1>3
  <2> QED BY <2>1, Zenon DEF List!TypeOK, EachOnce
<1>5. List!Keys = KeysOf(accounts) /\ List!Keys' = KeysOf(accounts')
  BY DEF List!Keys, KeysOf
<1>6. adding # None => InReach(adding)
  BY <1>1 DEF Numbered
<1>7. Numbered'
  BY <1>1, <1>2, <1>5, <1>6 DEF Numbered
<1> QED BY <1>4, <1>7 DEF ListInv

LEMMA InitListInv == List!Init => ListInv
<1> SUFFICES ASSUME List!Init PROVE ListInv
  OBVIOUS
<1>1. EachOnce(accounts) /\ List!Keys = {}
  BY DEF List!Init, EachOnce, List!Keys
<1>2. List!TypeOK
  BY <1>1, ListConstants, ListIs DEF List!Init
<1>3. Numbered
  <2>1. deployed \subseteq Earlier /\ adding = None
    BY DEF List!Init
  <2>2. IsFiniteSet(deployed)
    BY <2>1, ListConstants, FS_Subset
  <2> QED BY <1>1, <2>1, <2>2, ListConstants DEF Numbered, InReach, List!Searched
<1> QED BY <1>2, <1>3 DEF ListInv

LEMMA NextListInv == ListInv /\ [List!Next]_List!vars => ListInv'
<1> SUFFICES ASSUME ListInv, [List!Next]_List!vars PROVE ListInv'
  OBVIOUS
<1>0. /\ EachOnce(accounts) /\ accounts \in Seq(List!Account)
      /\ \A i \in DOMAIN accounts : accounts[i] \in List!Account
      /\ custom \subseteq Networks /\ shown \in Networks
      /\ selected \in List!Key \cup {None} /\ adding \in List!Key \cup {None}
      /\ deployed \subseteq List!Key /\ pushed \subseteq Networks /\ restored \in BOOLEAN
      /\ blind \subseteq deployed
  BY ListIs DEF ListInv, EachOnce
<1>a. None \notin List!Key /\ KeysOf(accounts) = List!Keys /\ Numbered
  BY ListConstants, KeysOfList DEF ListInv
<1>1. ASSUME NEW n \in Networks, List!NewAccount(n) PROVE ListInv'
  <2> DEFINE index == List!GetNextPathIndex(List!CurrentPaths(n))
  <2>1. /\ adding' = List!At(n, ClassOf[n], index) /\ Len(accounts) < MaxAccounts
        /\ UNCHANGED <<custom, accounts, selected, shown, deployed, pushed, restored, blind>>
    BY <1>1 DEF List!NewAccount
  <2>2. index \in 0 .. Len(accounts) /\ List!At(n, ClassOf[n], index) \notin KeysOf(accounts)
    BY <1>0, NextAccountIsNew
  <2> HIDE DEF index
  <2>3. index \in Nat /\ index <= MaxAccounts
    <3>1. Len(accounts) \in Nat /\ MaxAccounts \in Nat
      BY <1>0, ListConstants
    <3> QED BY <2>1, <2>2, <3>1
  <2>4. adding' \in List!Key
    BY <2>1, <2>3, KeysAre, ListConstants
  <2>5. InReach(adding')
    BY <2>1, <2>3 DEF InReach, List!At, List!Searched
  <2> QED BY <1>0, <2>1, <2>2, <2>4, <2>5, OtherList
<1>2. CASE List!PushAccount
  <2> DEFINE account == List!Visible(adding)
  <2>1. /\ adding # None /\ accounts' = List!Put(accounts, account)
        /\ selected' = adding /\ shown' = adding.network /\ adding' = None
        /\ UNCHANGED <<custom, deployed, pushed, restored, blind>>
    BY <1>2 DEF List!PushAccount
  <2>2. adding \in List!Key /\ adding.network \in Networks
    BY <1>0, <2>1 DEF List!Key
  <2>3. account \in List!Account /\ List!KeyOf(account) = adding
    BY <2>2, KeysAre
  <2> HIDE DEF account
  <2>4. adding \notin KeysOf(accounts)
    BY <1>a, <2>1 DEF Numbered
  <2>5. EachOnce(accounts') /\ KeysOf(accounts') = KeysOf(accounts) \cup {adding}
    <3>1. /\ List!Put(accounts, account) = Append(accounts, account)
          /\ EachOnce(Append(accounts, account))
          /\ KeysOf(Append(accounts, account)) = KeysOf(accounts) \cup {List!KeyOf(account)}
      BY <1>0, <2>3, <2>4, LongerList
    <3>2. accounts' = Append(accounts, account)
      BY <2>1, <3>1
    <3> QED BY <2>3, <3>1, <3>2
  <2> QED BY <1>0, <2>1, <2>2, <2>5, OtherList
<1>3. ASSUME NEW key \in List!Keys, List!Deploy(key) PROVE ListInv'
  <2>1. deployed' = deployed \cup {key} /\ UNCHANGED <<custom, accounts, shown, adding, pushed, restored>>
        /\ selected' = key /\ blind' \subseteq blind \cup {key}
    BY <1>3, Zenon DEF List!Deploy
  <2>2. adding' = None \/ (adding' \in List!Key /\ adding' \notin KeysOf(accounts') /\ adding' = adding)
    BY <1>0, <1>a, <2>1 DEF Numbered
  <2>3. key \in KeysOf(accounts) /\ key \in List!Key
    BY <1>0, <1>a, KeysAre DEF KeysOf
  <2> QED BY <1>0, <2>1, <2>2, <2>3, OtherList
<1>4. CASE List!Recover
  <2>1. /\ EachOnce(accounts') /\ KeysOf(accounts') = Found
        /\ Found # {} => adding' = None
        /\ Found = {} => adding' = List!At(Default, ClassOf[Default], 0)
        /\ custom' = DefaultCustom /\ shown' = Default /\ selected' = None
        /\ pushed' = {} /\ restored' = FALSE /\ deployed' = deployed /\ blind' = {}
    BY <1>4, RecoveredList
  <2>2. KeysOf(accounts') \subseteq deployed
    BY <2>1, FoundIsDeployed
  <2>3. Default \in Networks /\ DefaultCustom \subseteq Networks /\ MaxAccounts \in Nat
    BY ListConstants
  <2>4. List!At(Default, ClassOf[Default], 0) \in List!Key /\ InReach(List!At(Default, ClassOf[Default], 0))
    BY <2>3, KeysAre, ListConstants DEF InReach, List!At, List!Searched
  <2>5. \/ adding' = None
        \/ adding' \in List!Key /\ adding' \notin KeysOf(accounts') /\ InReach(adding')
    BY <2>1, <2>3, <2>4
  <2>6. FALSE \in BOOLEAN
    OBVIOUS
  <2> QED BY <2>1, <2>2, <2>3, <2>5, <2>6, OtherList
<1>5. ASSUME NEW i \in DOMAIN accounts, List!Hide(i) \/ List!Unhide(i) \/ List!Delete(i) PROVE ListInv'
  <2>1. /\ UNCHANGED <<custom, shown, adding, deployed, pushed, restored, blind>>
        /\ EachOnce(accounts') /\ KeysOf(accounts') \subseteq KeysOf(accounts)
    <3>1. CASE List!Hide(i)
      BY <1>0, <3>1, MarkedList DEF List!Hide
    <3>2. CASE List!Unhide(i)
      BY <1>0, <3>2, MarkedList DEF List!Unhide
    <3>3. CASE List!Delete(i)
      BY <1>0, <3>3, ShorterList DEF List!Delete
    <3> QED BY <1>5, <3>1, <3>2, <3>3
  <2>2. selected' \in List!Key \cup {None}
    <3>1. \/ selected' = selected
          \/ selected' = List!Choice(accounts', List!VisibleOn(accounts', shown), selected)
      BY <1>5 DEF List!Hide, List!Unhide, List!Delete, List!AutoSelect
    <3>2. accounts' \in Seq(List!Account)
      BY <2>1 DEF EachOnce
    <3> QED BY <1>0, <3>1, <3>2, ChoiceIsVisible
  <2>3. adding' = None \/ (adding' \in List!Key /\ adding' \notin KeysOf(accounts') /\ adding' = adding)
    BY <1>0, <1>a, <2>1 DEF Numbered
  <2> QED BY <1>0, <2>1, <2>2, <2>3, OtherList
<1>6. ASSUME NEW n \in Networks, List!SwitchNetwork(n) \/ List!ApproveSwitch(n) PROVE ListInv'
  <2>1. /\ UNCHANGED <<custom, accounts, adding, deployed, pushed, restored, blind>>
        /\ shown' \in {shown, n}
        /\ \E a : selected' = List!Choice(accounts, List!VisibleOn(accounts, n), a)
    BY <1>6 DEF List!SwitchNetwork, List!ApproveSwitch, List!AutoSelect
  <2>2. selected' \in List!Key \cup {None}
    BY <1>0, <2>1, ChoiceIsVisible
  <2> QED BY <1>0, <2>1, <2>2, SameList
<1>7. ASSUME NEW i \in DOMAIN accounts, List!Select(i) PROVE ListInv'
  <2>1. UNCHANGED <<custom, accounts, shown, adding, deployed, pushed, restored, blind>> /\ selected' = List!KeyOf(accounts[i])
    BY <1>7 DEF List!Select
  <2>2. selected' \in List!Key
    BY <1>0, <2>1, KeysAre
  <2> QED BY <1>0, <2>1, <2>2, SameList
<1>8. CASE List!Open
  <2> DEFINE network == IF List!Used = None THEN Default ELSE List!Used.network
  <2>1. /\ UNCHANGED <<custom, accounts, adding, deployed, pushed, restored, blind>>
        /\ shown' = network
        /\ selected' = IF List!Used # None /\ ~ List!Used.hidden THEN List!KeyOf(List!Used)
                       ELSE List!Choice(accounts, List!VisibleOn(accounts, network), None)
    BY <1>8 DEF List!Open
  <2>2. List!Used = None \/ List!Used \in List!Account
    BY <1>0, UsedIs
  <2>3. shown' \in Networks
    BY <2>1, <2>2, ListConstants DEF List!Account
  <2>4. selected' \in List!Key \cup {None}
    <3> HIDE DEF network
    <3>1. CASE List!Used # None /\ ~ List!Used.hidden
      BY <2>1, <2>2, <3>1, KeysAre
    <3>2. CASE ~ (List!Used # None /\ ~ List!Used.hidden)
      BY <1>0, <2>1, <3>2, ChoiceIsVisible
    <3> QED BY <3>1, <3>2
  <2> QED BY <1>0, <2>1, <2>3, <2>4, SameList
<1>9. ASSUME NEW n \in Networks,
             \/ List!AddNetwork(n) \/ List!RemoveNetwork(n)
             \/ List!RequestNetwork(n) \/ List!ApproveNetwork(n)
      PROVE  ListInv'
  <2>1. /\ UNCHANGED <<accounts, selected, shown, adding, deployed, restored, blind>>
        /\ custom' \subseteq custom \cup {n} /\ pushed' \subseteq pushed \cup {n}
    BY <1>9 DEF List!AddNetwork, List!RemoveNetwork, List!RequestNetwork, List!ApproveNetwork
  <2> QED BY <1>0, <2>1, SameList
<1>10. CASE List!RestoreDefaults
  <2>1. /\ UNCHANGED <<accounts, selected, shown, adding, deployed, pushed, blind>>
        /\ custom' = DefaultCustom /\ restored' \in BOOLEAN
    BY <1>10 DEF List!RestoreDefaults
  <2> QED BY <1>0, <2>1, ListConstants, SameList
<1>11. CASE UNCHANGED List!vars
  BY <1>0, <1>11, SameList DEF List!vars
<1> QED BY <1>1, <1>2, <1>3, <1>4, <1>5, <1>6, <1>7, <1>8, <1>9, <1>10, <1>11 DEF List!Next

(* The stores keep their types, whatever the networks, the bounds and what *)
(* overlaps: no account is twice in the list.                              *)
THEOREM ListTypeCorrect == List!Spec => []List!TypeOK
<1>1. ListInv => List!TypeOK
  BY DEF ListInv
<1> QED BY <1>1, InitListInv, NextListInv, PTL DEF List!Spec

(* Whatever happens while newAccount is at it, the account it makes is not *)
(* in the list, nor hidden there: the list grows.                          *)
THEOREM NewAccountsAreNew == List!Spec => NewAccountIsNew
<1>1. ListInv /\ [List!Next]_List!vars => [List!NewIsNew]_List!vars
  <2> SUFFICES ASSUME ListInv, List!Next, adding # None, adding' = None
               PROVE  Len(accounts') = Len(accounts) + 1
    BY DEF List!NewIsNew, List!vars
  <2>1. List!PushAccount
    <3>1. ~ (List!Recover)
      BY DEF List!Recover
    <3> QED BY <3>1 DEF List!Next, List!NewAccount, List!SwitchNetwork, List!ApproveSwitch,
          List!Deploy, List!Select, List!Hide, List!Delete, List!Unhide, List!Open,
          List!AddNetwork, List!RemoveNetwork, List!RequestNetwork, List!ApproveNetwork,
          List!RestoreDefaults
  <2> DEFINE account == List!Visible(adding)
  <2>2. accounts' = List!Put(accounts, account)
    BY <2>1 DEF List!PushAccount
  <2>3. EachOnce(accounts) /\ adding \in List!Key /\ adding \notin KeysOf(accounts)
    BY KeysOfList, ListIs DEF ListInv, Numbered
  <2>4. account \in List!Account /\ List!KeyOf(account) = adding
    BY <2>3, KeysAre
  <2> HIDE DEF account
  <2>5. accounts' = Append(accounts, account)
    BY <2>2, <2>3, <2>4, LongerList
  <2> QED BY <2>3, <2>4, <2>5 DEF EachOnce
<1> QED BY <1>1, InitListInv, NextListInv, PTL DEF List!Spec, NewAccountIsNew, List!NewAccountIsNew

---------------------------------------------------------------------------
(* Consistency.  Unless other things overlap with newAccount, the network  *)
(* of the account it makes stays until the account is in the list.         *)
MadeHasNetwork == ~ restored /\ adding # None => List!Known(adding.network)
KnownInv ==
    /\ ~ restored => List!Known(shown) /\ \A key \in KeysOf(accounts) : List!Known(key.network)
    /\ MadeHasNetwork

(* The selected account stays visible, or one that was deployed unseen.    *)
Shows(list, key) ==
    \E i \in DOMAIN list : List!KeyOf(list[i]) = key /\ (list[i].hidden => key \in blind)

LEMMA SelectionStaysVisible ==
    ASSUME ListInv, List!SelectedIsVisible, [List!Next]_List!vars
    PROVE  List!SelectedIsVisible'
<1>0. /\ EachOnce(accounts) /\ accounts \in Seq(List!Account)
      /\ adding \in List!Key \cup {None}
      /\ adding # None => adding \notin KeysOf(accounts)
      /\ selected # None => Shows(accounts, selected)
  BY ListIs, KeysOfList DEF ListInv, EachOnce, Numbered, List!SelectedIsVisible, Shows
<1> SUFFICES ASSUME selected' # None
             PROVE  \E i \in DOMAIN accounts' :
                       /\ List!KeyOf(accounts'[i]) = selected'
                       /\ accounts'[i].hidden => selected' \in blind'
  BY DEF List!SelectedIsVisible
<1>a. SUFFICES ASSUME ~ VisibleIn(selected', accounts')
               PROVE  \E i \in DOMAIN accounts' :
                       /\ List!KeyOf(accounts'[i]) = selected'
                       /\ accounts'[i].hidden => selected' \in blind'
  BY DEF VisibleIn
<1>1. CASE UNCHANGED <<accounts, selected, blind>>
  BY <1>0, <1>1 DEF Shows
<1>2. CASE List!PushAccount
  <2> DEFINE account == List!Visible(adding)
  <2>1. adding # None /\ accounts' = List!Put(accounts, account) /\ selected' = adding
    BY <1>2 DEF List!PushAccount
  <2>2. adding \in List!Key
    BY <1>0, <2>1
  <2>3. account \in List!Account /\ List!KeyOf(account) = adding /\ ~ account.hidden
    BY <2>2, KeysAre
  <2> HIDE DEF account
  <2>4. accounts' = Append(accounts, account)
    <3>1. List!Put(accounts, account) = Append(accounts, account)
      BY <1>0, <2>1, <2>3, LongerList
    <3> QED BY <2>1, <3>1
  <2>5. Len(accounts) + 1 \in DOMAIN accounts' /\ accounts'[Len(accounts) + 1] = account
    BY <1>0, <2>4
  <2> QED BY <1>a, <2>1, <2>3, <2>5 DEF VisibleIn
<1>3. CASE List!Recover
  BY <1>3 DEF List!Recover
<1>4. ASSUME NEW n \in Networks, List!SwitchNetwork(n) \/ List!ApproveSwitch(n)
      PROVE  FALSE
  <2>1. /\ accounts' = accounts
        /\ \E a : selected' = List!Choice(accounts, List!VisibleOn(accounts, n), a)
    BY <1>4 DEF List!SwitchNetwork, List!ApproveSwitch, List!AutoSelect
  <2> QED BY <1>0, <1>a, <2>1, ChoiceIsVisible
<1>5. ASSUME NEW i \in DOMAIN accounts, List!Select(i) PROVE FALSE
  BY <1>a, <1>5 DEF List!Select, VisibleIn
<1>6. ASSUME NEW i \in DOMAIN accounts, List!Hide(i) \/ List!Delete(i) \/ List!Unhide(i)
      PROVE  \E k \in DOMAIN accounts' :
                 List!KeyOf(accounts'[k]) = selected' /\ (accounts'[k].hidden => selected' \in blind')
  <2>a. EachOnce(accounts')
    <3>1. CASE List!Hide(i)
      BY <1>0, <3>1, MarkedList DEF List!Hide
    <3>2. CASE List!Unhide(i)
      BY <1>0, <3>2, MarkedList DEF List!Unhide
    <3>3. CASE List!Delete(i)
      BY <1>0, <3>3, ShorterList DEF List!Delete
    <3> QED BY <1>6, <3>1, <3>2, <3>3
  <2>1. accounts' \in Seq(List!Account)
    BY <2>a DEF EachOnce
  <2>2. CASE selected' = List!Choice(accounts', List!VisibleOn(accounts', shown), selected)
    BY <1>a, <2>1, <2>2, ChoiceIsVisible
  <2>3. CASE List!Unhide(i) /\ selected' = selected
    <3>1. accounts' = [accounts EXCEPT ![i].hidden = FALSE] /\ blind' = blind
      BY <2>3 DEF List!Unhide
    <3>2. PICK j \in DOMAIN accounts :
             List!KeyOf(accounts[j]) = selected /\ (accounts[j].hidden => selected \in blind)
      BY <1>0, <2>3 DEF Shows
    <3>3. accounts[i] \in List!Account
      BY <1>0
    <3>4. /\ accounts'[i].network = accounts[i].network /\ accounts'[i].index = accounts[i].index
          /\ accounts'[i].class = accounts[i].class /\ ~ accounts'[i].hidden
      BY <3>1, <3>3, <1>0 DEF List!Account
    <3>5. DOMAIN accounts' = DOMAIN accounts /\ (j # i => accounts'[j] = accounts[j])
      BY <1>0, <3>1
    <3>6. List!KeyOf(accounts'[j]) = selected /\ (accounts'[j].hidden => selected \in blind)
      BY <3>2, <3>4, <3>5 DEF List!KeyOf, List!At
    <3> QED BY <2>3, <3>1, <3>5, <3>6
  <2> QED BY <1>6, <2>2, <2>3 DEF List!Hide, List!Unhide, List!Delete, List!AutoSelect
<1>7. CASE List!Open
  <2>1. /\ accounts' = accounts
        /\ \/ List!Used # None /\ ~ List!Used.hidden /\ selected' = List!KeyOf(List!Used)
           \/ \E n : selected' = List!Choice(accounts, List!VisibleOn(accounts, n), None)
    BY <1>7, Zenon DEF List!Open
  <2>2. CASE List!Used # None /\ ~ List!Used.hidden /\ selected' = List!KeyOf(List!Used)
    BY <1>0, <1>a, <2>1, <2>2, UsedIs DEF VisibleIn
  <2>3. ASSUME NEW n, selected' = List!Choice(accounts, List!VisibleOn(accounts, n), None)
        PROVE  FALSE
    BY <1>0, <1>a, <2>1, <2>3, ChoiceIsVisible
  <2> QED BY <2>1, <2>2, <2>3
<1>8. CASE UNCHANGED List!vars
  BY <1>1, <1>8 DEF List!vars
<1>9. /\ \A n \in Networks : List!NewAccount(n) => UNCHANGED <<accounts, selected, blind>>
      /\ \A n \in Networks : List!AddNetwork(n) \/ List!RemoveNetwork(n) => UNCHANGED <<accounts, selected, blind>>
      /\ \A n \in Networks : List!RequestNetwork(n) \/ List!ApproveNetwork(n) => UNCHANGED <<accounts, selected, blind>>
      /\ List!RestoreDefaults => UNCHANGED <<accounts, selected, blind>>
  BY DEF List!NewAccount, List!AddNetwork, List!RemoveNetwork, List!RequestNetwork,
      List!ApproveNetwork, List!RestoreDefaults
<1>10. ASSUME NEW key \in List!Keys, List!Deploy(key)
       PROVE  \E i \in DOMAIN accounts' :
                 List!KeyOf(accounts'[i]) = selected' /\ (accounts'[i].hidden => selected' \in blind')
  <2>1. PICK i \in DOMAIN accounts : List!KeyOf(accounts[i]) = key
    BY DEF List!Keys
  <2>2. accounts' = accounts /\ selected' = key /\ (accounts[i].hidden => key \in blind')
    BY <1>10, <2>1 DEF List!Deploy
  <2> QED BY <2>1, <2>2
<1> QED BY <1>1, <1>2, <1>3, <1>4, <1>5, <1>6, <1>7, <1>8, <1>9, <1>10 DEF List!Next

(* Every account keeps its network, and so has the screen.                 *)
LEMMA NetworksStay ==
    ASSUME ~ MayOverlap, ListInv, KnownInv, [List!Next]_List!vars
    PROVE  KnownInv'
<1>0. /\ EachOnce(accounts) /\ adding \in List!Key \cup {None}
      /\ adding # None => adding \notin KeysOf(accounts)
  BY ListIs, KeysOfList DEF ListInv, Numbered
<1>1. ASSUME custom \subseteq custom', restored' = restored,
             KeysOf(accounts') \subseteq KeysOf(accounts), adding' = adding,
             ~ restored => shown' = shown \/ List!Known(shown')
      PROVE  KnownInv'
  BY <1>1 DEF KnownInv, MadeHasNetwork, List!Known
<1>2. ASSUME NEW n \in Networks, List!NewAccount(n) PROVE KnownInv'
  <2>1. List!Known(n) /\ adding'.network = n /\ UNCHANGED <<custom, accounts, shown, restored>>
    BY <1>2 DEF List!NewAccount, List!At
  <2> QED BY <2>1 DEF KnownInv, MadeHasNetwork, List!Known, KeysOf
<1>3. CASE List!PushAccount
  <2> DEFINE account == List!Visible(adding)
  <2>1. /\ adding # None /\ accounts' = List!Put(accounts, account) /\ adding' = None
        /\ shown' = adding.network /\ UNCHANGED <<custom, restored>>
    BY <1>3 DEF List!PushAccount
  <2>2. adding \in List!Key /\ adding.network \in Networks
    BY <1>0, <2>1 DEF List!Key
  <2>3. account \in List!Account /\ List!KeyOf(account) = adding
    BY <2>2, KeysAre
  <2> HIDE DEF account
  <2>4. /\ List!Put(accounts, account) = Append(accounts, account)
        /\ KeysOf(Append(accounts, account)) = KeysOf(accounts) \cup {adding}
    BY <1>0, <2>1, <2>3, LongerList
  <2>5. KeysOf(accounts') = KeysOf(accounts) \cup {adding}
    BY <2>1, <2>4
  <2> QED BY <2>1, <2>5 DEF KnownInv, MadeHasNetwork, List!Known
<1>4. CASE List!Recover
  <2>1. /\ \A key \in KeysOf(accounts') : key.network \in Defaults
        /\ adding' = None \/ adding' = List!At(Default, ClassOf[Default], 0)
        /\ custom' = DefaultCustom /\ shown' = Default
    BY <1>4, RecoveredList
  <2>2. Default \in Readonly /\ List!At(Default, ClassOf[Default], 0).network = Default
    BY ListConstants DEF List!At
  <2> QED BY <2>1, <2>2 DEF KnownInv, MadeHasNetwork, List!Known, Defaults
<1>5. ASSUME NEW n \in Networks, List!SwitchNetwork(n) \/ List!ApproveSwitch(n) PROVE KnownInv'
  BY <1>1, <1>5 DEF List!SwitchNetwork, List!ApproveSwitch
<1>6. ASSUME NEW i \in DOMAIN accounts, List!Hide(i) \/ List!Delete(i) \/ List!Unhide(i) \/ List!Select(i)
      PROVE  KnownInv'
  <2>1. KeysOf(accounts') \subseteq KeysOf(accounts)
    <3>1. CASE List!Hide(i)
      BY <1>0, <3>1, MarkedList DEF List!Hide
    <3>2. CASE List!Unhide(i)
      BY <1>0, <3>2, MarkedList DEF List!Unhide
    <3>3. CASE List!Delete(i)
      BY <1>0, <3>3, ShorterList DEF List!Delete
    <3>4. CASE List!Select(i)
      BY <3>4 DEF List!Select
    <3> QED BY <1>6, <3>1, <3>2, <3>3, <3>4
  <2>2. UNCHANGED <<custom, shown, adding, restored>>
    BY <1>6 DEF List!Hide, List!Delete, List!Unhide, List!Select
  <2> QED BY <1>1, <2>1, <2>2
<1>7. CASE List!Open
  BY <1>1, <1>7 DEF List!Open
<1>8. ASSUME NEW n \in Networks, List!AddNetwork(n) \/ List!RequestNetwork(n) \/ List!ApproveNetwork(n)
      PROVE  KnownInv'
  BY <1>1, <1>8 DEF List!AddNetwork, List!RequestNetwork, List!ApproveNetwork
<1>9. ASSUME NEW n \in Networks, List!RemoveNetwork(n) PROVE KnownInv'
  <2>1. /\ adding = None /\ n # shown /\ custom' = custom \ {n}
        /\ \A key \in KeysOf(accounts) : key.network # n
        /\ UNCHANGED <<accounts, shown, adding, restored>>
    BY <1>9, KeysOfList DEF List!RemoveNetwork, List!Idle
  <2> QED BY <2>1 DEF KnownInv, MadeHasNetwork, List!Known
<1>10. CASE List!RestoreDefaults
  BY <1>10 DEF List!RestoreDefaults, KnownInv, MadeHasNetwork
<1>11. ASSUME NEW key, List!Deploy(key) PROVE KnownInv'
  BY <1>1, <1>11 DEF List!Deploy
<1>12. CASE UNCHANGED List!vars
  BY <1>1, <1>12 DEF List!vars
<1> QED BY <1>2, <1>3, <1>4, <1>5, <1>6, <1>7, <1>8, <1>9, <1>10, <1>11, <1>12 DEF List!Next

(* As long as nothing overlaps with the making of an account, the selected *)
(* account is visible; and until the user restores the default networks,   *)
(* every account keeps its network, and so does the screen.                *)
THEOREM ListStaysConsistent ==
    ASSUME ~ MayOverlap PROVE List!Spec => []ListIsConsistent
<1>1. List!Init => List!SelectedIsVisible /\ KnownInv
  BY ListConstants DEF List!Init, List!SelectedIsVisible, KnownInv, MadeHasNetwork, KeysOf, List!Known
<1>2. ListInv /\ List!SelectedIsVisible /\ KnownInv /\ [List!Next]_List!vars
        => List!SelectedIsVisible' /\ KnownInv'
  BY SelectionStaysVisible, NetworksStay
<1>3. List!SelectedIsVisible /\ KnownInv => ListIsConsistent
  BY KeysOfList DEF ListIsConsistent, List!Consistent, List!NetworksExist, KnownInv
<1> QED BY <1>1, <1>2, <1>3, InitListInv, NextListInv, PTL DEF List!Spec

---------------------------------------------------------------------------
(* Recovery.  Induction over the naturals, for a set of them.              *)
LEMMA NaturalsBySuccessor ==
    ASSUME NEW T, 0 \in T, \A n \in Nat : n \in T => n + 1 \in T
    PROVE  Nat \subseteq T
<1> DEFINE less == OpToRel(<, Nat)
<1>1. SUFFICES ASSUME NEW bad \in Nat \ T PROVE FALSE
  OBVIOUS
<1>2. IsWellFoundedOn(less, Nat)
  BY NatLessThanWellFounded, Zenon
<1>3. \A m, n \in Nat : m < n => <<m, n>> \in less
  BY DEF OpToRel
<1> HIDE DEF less
<1>4. PICK n \in Nat \ T : \A m \in Nat \ T : ~ (<<m, n>> \in less)
  BY <1>2, WFMin
<1>5. n # 0 /\ n - 1 \in Nat /\ n - 1 < n /\ (n - 1) + 1 = n
  OBVIOUS
<1> QED BY <1>3, <1>4, <1>5

(* The search keeps the index of the last account it has hit.              *)
Hit(n, c, i) == List!At(n, c, i) \in deployed
Turn(f, n, c, check) ==
    IF check = 0 THEN 0 ELSE IF Hit(n, c, check - 1) THEN check - 1 ELSE f[check - 1]
IsLastHit(f, n, c) == f = [check \in Nat |-> Turn(f, n, c, check)]

HitsBefore(n, c, check) == {i \in Nat : i < check /\ Hit(n, c, i)}
LargestOf(s) == CHOOSE i \in s : \A j \in s : j <= i

LEMMA LastHitExists == \A n, c : \E f : IsLastHit(f, n, c)
<1> SUFFICES ASSUME NEW n, NEW c PROVE \E f : IsLastHit(f, n, c)
  OBVIOUS
<1> DEFINE last(check) == IF HitsBefore(n, c, check) = {} THEN 0 ELSE LargestOf(HitsBefore(n, c, check))
           f == [check \in Nat |-> last(check)]
<1>1. ASSUME NEW check \in Nat PROVE last(check) = Turn(f, n, c, check)
  <2>1. CASE check = 0
    <3>1. HitsBefore(n, c, check) = {}
      BY <2>1 DEF HitsBefore
    <3> QED BY <2>1, <3>1 DEF Turn
  <2>2. CASE check # 0
    <3>0. check - 1 \in Nat
      BY <2>2
    <3>1. CASE Hit(n, c, check - 1)
      <4> DEFINE s == HitsBefore(n, c, check)
      <4>1. check - 1 \in s /\ \A i \in s : i \in Nat /\ i <= check - 1
        BY <3>0, <3>1 DEF HitsBefore
      <4> HIDE DEF s
      <4>2. \A i \in s : (\A j \in s : j <= i) => i = check - 1
        BY <3>0, <4>1
      <4>3. LargestOf(s) = check - 1
        BY <4>1, <4>2 DEF LargestOf
      <4> QED BY <2>2, <3>1, <4>1, <4>3 DEF Turn, s
    <3>2. CASE ~ Hit(n, c, check - 1)
      <4>1. HitsBefore(n, c, check) = HitsBefore(n, c, check - 1)
        <5>1. ASSUME NEW i \in Nat, Hit(n, c, i) PROVE i < check <=> i < check - 1
          <6>1. i # check - 1
            BY <3>2, <5>1
          <6> QED BY <6>1
        <5> QED BY <5>1 DEF HitsBefore
      <4>2. f[check - 1] = last(check - 1)
        BY <3>0
      <4> HIDE DEF f
      <4> QED BY <2>2, <3>2, <4>1, <4>2 DEF Turn
    <3> QED BY <3>1, <3>2
  <2> QED BY <2>1, <2>2
<1>2. f = [check \in Nat |-> Turn(f, n, c, check)]
  BY <1>1
<1> HIDE DEF f
<1> QED BY <1>2 DEF IsLastHit

(* No index below check that was hit is above the last hit.                *)
LEMMA LastHitIsLast ==
    ASSUME NEW n, NEW c, NEW f, IsLastHit(f, n, c)
    PROVE  \A check \in Nat :
              f[check] \in Nat /\ \A i \in Nat : i < check /\ Hit(n, c, i) => i <= f[check]
<1> DEFINE Good(check) ==
               f[check] \in Nat /\ \A i \in Nat : i < check /\ Hit(n, c, i) => i <= f[check]
           T == {check \in Nat : Good(check)}
<1>0. \A check \in Nat : f[check] = Turn(f, n, c, check)
  BY DEF IsLastHit
<1>1. 0 \in T
  <2>1. f[0] = 0
    BY <1>0 DEF Turn
  <2> QED BY <2>1
<1>2. ASSUME NEW check \in Nat, check \in T PROVE check + 1 \in T
  <2>1. f[check + 1] = IF Hit(n, c, check) THEN check ELSE f[check]
    <3>1. check + 1 \in Nat /\ check + 1 # 0 /\ (check + 1) - 1 = check
      OBVIOUS
    <3> QED BY <1>0, <3>1 DEF Turn
  <2>2. Good(check)
    BY <1>2
  <2>3. Good(check + 1)
    <3>1. CASE Hit(n, c, check)
      BY <2>1, <3>1
    <3>2. CASE ~ Hit(n, c, check)
      <4>1. ASSUME NEW i \in Nat, i < check + 1, Hit(n, c, i) PROVE i <= f[check]
        <5>1. i # check
          BY <3>2, <4>1
        <5> QED BY <2>2, <4>1, <5>1
      <4> QED BY <2>1, <2>2, <3>2, <4>1
    <3> QED BY <3>1, <3>2
  <2> QED BY <2>3
<1>3. Nat \subseteq T
  <2> HIDE DEF T
  <2> QED BY <1>1, <1>2, NaturalsBySuccessor
<1> QED BY <1>3

LEMMA RestoredIs ==
    ASSUME NEW n, NEW c
    PROVE  \E f : /\ IsLastHit(f, n, c)
                  /\ List!Restored(n, c) =
                       {i \in 0 .. MaxAccounts :
                           Hit(n, c, i) /\ \A check \in 0 .. i : f[check] + Offset > check}
<1> DEFINE f == CHOOSE f : IsLastHit(f, n, c)
<1>1. IsLastHit(f, n, c)
  BY LastHitExists
<1>2. List!Restored(n, c) = {i \in 0 .. MaxAccounts :
                             Hit(n, c, i) /\ \A check \in 0 .. i : f[check] + Offset > check}
  BY DEF List!Restored, IsLastHit, Turn, Hit
<1> QED BY <1>1, <1>2

(* The search does not stop before an account that no gap separates from   *)
(* the start: the first account beyond where it would stop has one before  *)
(* it that it has hit.                                                     *)
LEMMA SearchReaches ==
    ASSUME ListInv, List!NoGaps, NEW n, NEW c, NEW i \in Nat, Hit(n, c, i)
    PROVE  i \in List!Restored(n, c)
<1>1. PICK f : /\ IsLastHit(f, n, c)
               /\ List!Restored(n, c) =
                    {j \in 0 .. MaxAccounts :
                        Hit(n, c, j) /\ \A check \in 0 .. j : f[check] + Offset > check}
  BY RestoredIs
<1>2. i \in 0 .. MaxAccounts
  BY ListConstants DEF Hit, List!At, ListInv, Numbered, InReach
<1>3. ASSUME NEW check \in 0 .. i, ~ (f[check] + Offset > check) PROVE FALSE
  <2>0. /\ check \in Nat /\ Offset \in Nat /\ f[check] \in Nat
        /\ \A j \in Nat : j < check /\ Hit(n, c, j) => j <= f[check]
    BY <1>1, LastHitIsLast, ListConstants
  <2> DEFINE beyond == {j \in Nat : check <= j /\ Hit(n, c, j)}
             d == List!FirstOf(beyond)
  <2>1. d \in beyond /\ \A j \in beyond : d <= j
    <3>1. i \in beyond /\ beyond \in SUBSET Nat
      BY <2>0
    <3> HIDE DEF beyond
    <3> QED BY <3>1, FirstIsFirst
  <2>2. d \in Nat /\ check <= d /\ Hit(n, c, d)
    BY <2>1
  <2>3. \A j \in Nat : check <= j /\ Hit(n, c, j) => d <= j
    BY <2>1
  <2> HIDE DEF d, beyond
  <2>4. \/ d < Offset
        \/ \E e \in deployed : e.network = n /\ e.class = c /\ e.index < d /\ d < e.index + Offset
    BY <2>2 DEF List!NoGaps, Hit, List!At
  <2>5. PICK e \in deployed : e.network = n /\ e.class = c /\ e.index < d /\ d < e.index + Offset
    BY <1>3, <2>0, <2>2, <2>4
  <2>6. e.index \in Nat /\ Hit(n, c, e.index)
    <3>1. e \in List!Key
      BY DEF ListInv, List!TypeOK
    <3>2. e.index \in Nat /\ e = List!At(n, c, e.index)
      BY <2>5, <3>1, KeysAre DEF List!At, List!Key
    <3> QED BY <3>2 DEF Hit
  <2>7. e.index < check
    BY <2>0, <2>2, <2>3, <2>5, <2>6
  <2>8. e.index <= f[check]
    BY <2>0, <2>6, <2>7
  <2> QED BY <1>3, <2>0, <2>2, <2>5, <2>6, <2>8
<1> QED BY <1>1, <1>2, <1>3

(* If no gap separates those of the same network and class, restoring the  *)
(* wallet finds all the deployed accounts of the default networks.         *)
THEOREM RecoveryFindsThem == List!Spec => RecoveryFindsAll
<1>1. ListInv /\ [List!Next]_List!vars => [List!FindsAll]_List!vars
  <2> SUFFICES ASSUME ListInv, List!Recover, List!NoGaps,
                      NEW key \in deployed, key.network \in Defaults
               PROVE  key \in KeysOf(accounts')
    BY DEF List!FindsAll, Defaults, KeysOf
  <2>1. key \in List!Key /\ key.index \in Nat
    BY DEF ListInv, List!TypeOK, List!Key
  <2>2. key = List!At(key.network, key.class, key.index)
    BY <2>1, KeysAre
  <2>3. key.index \in List!Restored(key.network, key.class)
    BY <2>1, <2>2, SearchReaches DEF Hit
  <2>4. key.class \in List!Searched(key.network)
    BY DEF ListInv, Numbered, InReach
  <2>5. key \in Found
    BY <2>2, <2>3, <2>4, FoundIsDeployed
  <2> QED BY <2>5, RecoveredList
<1> QED BY <1>1, InitListInv, NextListInv, PTL DEF List!Spec, RecoveryFindsAll, List!RecoveryFindsAll
=============================================================================
