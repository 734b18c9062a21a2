---------------------------- MODULE WalletSession ----------------------------
(***************************************************************************)
(* The wallet's encrypted backup and its open session                      *)
(* (argent-x/packages/extension/src/background/wallet.ts, and the messages *)
(* of sessionMessaging.ts and recoveryMessaging.ts).                       *)
(*                                                                         *)
(* Each message is handled by a call of its own; a call waits for the      *)
(* storage, for scrypt, for the alarms and for the chain, and another may  *)
(* run meanwhile if there is a second slot for it.  Time is in minutes,    *)
(* and what is due within a minute is done in it.                          *)
(***************************************************************************)
EXTENDS Naturals

CONSTANTS
    Passwords,
    Secrets,          \* those a new wallet may draw
    Phrases,          \* those of seed phrases and backup files
    Calls,            \* slots for messages that are being handled
    SESSION_DURATION, \* the number that is passed as delayInMinutes
    SecondsPerMinute,
    None,
    MayFail,          \* whether the chain may not answer
    MayStop,          \* whether the browser may stop the service worker
    MayQuit           \* whether the browser may be closed

ASSUME DurationAssumption == SESSION_DURATION \in Nat /\ SecondsPerMinute \in Nat \ {0}
ASSUME FlagsAssumption == {MayFail, MayStop, MayQuit} \subseteq BOOLEAN

Key == [secret : Secrets \cup Phrases, password : Passwords]
ASSUME NoneAssumption == None \notin Key /\ None \notin Nat

VARIABLES
    backup,         \* store: the encrypted backup, as what opens it
    discoveredOnce, \* store
    session,        \* sessionStore
    alarm,          \* the minutes until session_timeout, or None
    listening,      \* this worker has added the alarm's listener
    locking,        \* the listener runs
    call,           \* what each slot waits for
    age,            \* history: minutes since the session was set, capped
    known,          \* history: secrets whose accounts are all in the list
    overlapped,     \* history: a message came while another was handled
    answer          \* history: the answer of each slot's last call

stores == <<backup, discoveredOnce>>
timer == <<alarm, listening, locking, age>>
vars == <<stores, session, timer, call, known, overlapped, answer>>

Idle == [at |-> "idle", kind |-> "start", key |-> None, local |-> None]
Call == [at : {"idle", "init", "generate", "encrypt", "backup", "decrypt",
               "set", "alarm", "create", "discover"},
         kind : {"start", "new", "restore"},
         key : [secret : Secrets \cup Phrases \cup {None}, password : Passwords] \cup {None},
         local : Key \cup {None}]

Init ==
    /\ backup = None /\ session = None /\ alarm = None
    /\ discoveredOnce = FALSE /\ listening = FALSE /\ locking = FALSE
    /\ call = [c \in Calls |-> Idle]
    /\ age = 0
    /\ known = {}
    /\ overlapped = FALSE
    /\ answer = [c \in Calls |-> "none"]

At(c, place) == call[c].at = place
Go(c, place) == call' = [call EXCEPT ![c].at = place]
Return(c, result) ==
    /\ call' = [call EXCEPT ![c] = Idle]
    /\ answer' = [answer EXCEPT ![c] = result]

(* A message that changes something while it is handled.                   *)
Arrives == overlapped' = (overlapped \/ \E c \in Calls : ~ At(c, "idle"))

---------------------------------------------------------------------------
(* START_SESSION.                                                          *)

StartSession(c, password) ==
    /\ At(c, "idle")
    /\ IF session # None
       THEN Return(c, "yes")
       ELSE /\ call' = [call EXCEPT ![c] =
                  [at |-> "init", kind |-> "start", local |-> None,
                   key |-> [secret |-> None, password |-> password]]]
            /\ answer' = [answer EXCEPT ![c] = "none"]
    /\ Arrives
    /\ UNCHANGED <<stores, session, timer, known>>

(* isInitialized, and the backup is read for decryption.                   *)
IsInitialized(c) ==
    /\ At(c, "init") /\ call[c].kind = "start"
    /\ IF backup = None
       THEN Go(c, "generate")
       ELSE call' = [call EXCEPT ![c].at = "decrypt", ![c].local = backup]
    /\ UNCHANGED <<stores, session, timer, known, overlapped, answer>>

(* generateNewLocalSecret looks again, and draws a secret.                 *)
GenerateNewLocalSecret(c) ==
    /\ At(c, "generate")
    /\ IF backup # None
       THEN Return(c, "yes")
       ELSE /\ \E secret \in Secrets :
                  call' = [call EXCEPT ![c].at = "encrypt", ![c].kind = "new",
                                       ![c].key.secret = secret]
            /\ UNCHANGED answer
    /\ UNCHANGED <<stores, session, timer, known, overlapped>>

(* The backup is encrypted; a new wallet has nothing to discover.          *)
Encrypted(c) ==
    /\ At(c, "encrypt")
    /\ IF call[c].kind = "new"
       THEN discoveredOnce' = TRUE /\ known' = known \cup {call[c].key.secret}
       ELSE UNCHANGED <<discoveredOnce, known>>
    /\ Go(c, "backup")
    /\ UNCHANGED <<backup, session, timer, overlapped, answer>>

StoreBackup(c) ==
    /\ At(c, "backup")
    /\ backup' = call[c].key
    /\ Go(c, "set")
    /\ UNCHANGED <<discoveredOnce, session, timer, known, overlapped, answer>>

(* Faulty: the password is not what decides.                               *)
DecryptedAnyway(c) ==
    /\ At(c, "decrypt")
    /\ call' = [call EXCEPT ![c].at = "set", ![c].key.secret = call[c].local.secret]
    /\ UNCHANGED <<stores, session, timer, known, overlapped, answer>>

(* fromEncryptedJson throws if the password is wrong.                      *)
Decrypted(c) ==
    /\ At(c, "decrypt")
    /\ IF call[c].local.password = call[c].key.password
       THEN /\ call' = [call EXCEPT ![c].at = "set", ![c].key.secret = call[c].local.secret]
            /\ UNCHANGED answer
       ELSE Return(c, "no")
    /\ UNCHANGED <<stores, session, timer, known, overlapped>>

(* setSession.                                                             *)
SetSession(c) ==
    /\ At(c, "set")
    /\ session' = call[c].key
    /\ listening' = TRUE
    /\ age' = 0
    /\ Go(c, "alarm")
    /\ UNCHANGED <<stores, alarm, locking, known, overlapped, answer>>

(* What follows setSession: accounts are discovered after a restore, and   *)
(* if they never were.                                                     *)
Follow(c) ==
    IF call[c].kind = "restore" \/ (call[c].kind = "start" /\ ~ discoveredOnce)
    THEN Go(c, "discover") /\ UNCHANGED answer
    ELSE Return(c, "yes")

(* Faulty: no alarm is made unless one is there.                           *)
GetAlarmInverted(c) ==
    /\ At(c, "alarm")
    /\ IF alarm = None THEN Follow(c) ELSE Go(c, "create") /\ UNCHANGED answer
    /\ UNCHANGED <<stores, session, timer, known, overlapped>>

GetAlarm(c) ==
    /\ At(c, "alarm")
    /\ IF alarm # None THEN Follow(c) ELSE Go(c, "create") /\ UNCHANGED answer
    /\ UNCHANGED <<stores, session, timer, known, overlapped>>

CreateAlarm(c) ==
    /\ At(c, "create")
    /\ alarm' = SESSION_DURATION
    /\ Follow(c)
    /\ UNCHANGED <<stores, session, listening, locking, age, known, overlapped>>

(* startSession catches what is thrown, restoreSeedPhrase does not.        *)
Refusal(c) == IF call[c].kind = "restore" THEN "thrown" ELSE "no"

(* discoverAccounts: every network answers; or one does not, which is not  *)
(* noticed; or it throws, because of the details or for lack of a session. *)
Discover(c, outcome) ==
    /\ At(c, "discover")
    /\ IF session = None THEN outcome = "error" ELSE MayFail \/ outcome = "all"
    /\ discoveredOnce' = (discoveredOnce \/ outcome # "error")
    /\ known' = IF outcome = "all" THEN known \cup {session.secret} ELSE known
    /\ Return(c, IF outcome = "error" THEN Refusal(c) ELSE "yes")
    /\ UNCHANGED <<backup, session, timer, overlapped>>

---------------------------------------------------------------------------
(* The other messages.                                                     *)

(* RECOVER_SEEDPHRASE: restoreSeedPhrase.                                  *)
RestoreSeedPhrase(c, key) ==
    /\ At(c, "idle") /\ session = None
    /\ call' = [call EXCEPT ![c] = [at |-> "init", kind |-> "restore", key |-> key, local |-> None]]
    /\ answer' = [answer EXCEPT ![c] = "none"]
    /\ Arrives
    /\ UNCHANGED <<stores, session, timer, known>>

RestoreChecks(c) ==
    /\ At(c, "init") /\ call[c].kind = "restore"
    /\ IF backup # None THEN Return(c, "thrown") ELSE Go(c, "encrypt") /\ UNCHANGED answer
    /\ UNCHANGED <<stores, session, timer, known, overlapped>>

(* RECOVER_BACKUP: importBackup.  The screens offer it before there is a   *)
(* wallet.                                                                 *)
RecoverBackup(key) ==
    /\ \E c \in Calls : At(c, "idle")
    /\ backup = None
    /\ backup' = key
    /\ Arrives
    /\ UNCHANGED <<discoveredOnce, session, timer, call, known, answer>>

(* STOP_SESSION: lock.                                                     *)
StopSession ==
    /\ session # None
    /\ session' = None
    /\ UNCHANGED <<stores, timer, call, known, overlapped, answer>>

---------------------------------------------------------------------------
(* Time and the browser.                                                   *)

Due == alarm = 0 \/ locking \/ \E c \in Calls : call[c].at \in {"alarm", "create"}

Tick ==
    /\ ~ Due
    /\ alarm' = IF alarm = None THEN None ELSE alarm - 1
    /\ age' = IF session = None \/ age > SESSION_DURATION THEN age ELSE age + 1
    /\ UNCHANGED <<stores, session, listening, locking, call, known, overlapped, answer>>

FireAlarm ==
    /\ alarm = 0
    /\ alarm' = None
    /\ locking' = (locking \/ listening)
    /\ UNCHANGED <<stores, session, listening, age, call, known, overlapped, answer>>

(* The listener that setSession added calls lock.                          *)
LockOnAlarm ==
    /\ locking
    /\ session' = None
    /\ locking' = FALSE
    /\ UNCHANGED <<stores, alarm, listening, age, call, known, overlapped, answer>>

(* The service worker is stopped and started again: what is stored stays,  *)
(* as does the alarm; the listener is not added again.                     *)
StopWorker ==
    /\ MayStop
    /\ listening /\ listening' = FALSE
    /\ locking' = FALSE
    /\ call' = [c \in Calls |-> Idle]
    /\ UNCHANGED <<stores, session, alarm, age, known, overlapped, answer>>

Quit ==
    /\ MayQuit
    /\ session' = None /\ alarm' = None
    /\ listening' = FALSE /\ locking' = FALSE
    /\ call' = [c \in Calls |-> Idle]
    /\ UNCHANGED <<stores, age, known, overlapped, answer>>

ImportedKeys == [secret : Phrases, password : Passwords]

Next ==
    \/ \E c \in Calls, password \in Passwords : StartSession(c, password)
    \/ \E c \in Calls : IsInitialized(c)
    \/ \E c \in Calls : GenerateNewLocalSecret(c)
    \/ \E c \in Calls : Encrypted(c)
    \/ \E c \in Calls : StoreBackup(c)
    \/ \E c \in Calls : Decrypted(c)
    \/ \E c \in Calls : SetSession(c)
    \/ \E c \in Calls : GetAlarm(c)
    \/ \E c \in Calls : CreateAlarm(c)
    \/ \E c \in Calls, outcome \in {"all", "some", "error"} : Discover(c, outcome)
    \/ \E c \in Calls, key \in ImportedKeys : RestoreSeedPhrase(c, key)
    \/ \E c \in Calls : RestoreChecks(c)
    \/ \E key \in ImportedKeys : RecoverBackup(key)
    \/ StopSession
    \/ Tick
    \/ FireAlarm
    \/ LockOnAlarm
    \/ StopWorker
    \/ Quit

Spec == Init /\ [][Next]_vars

---------------------------------------------------------------------------
(* Properties.                                                             *)

(* In particular no backup and no session is stored without its secret.    *)
TypeOK ==
    /\ backup \in Key \cup {None}
    /\ session \in Key \cup {None}
    /\ alarm \in 0 .. SESSION_DURATION \cup {None}
    /\ {discoveredOnce, listening, locking, overlapped} \subseteq BOOLEAN
    /\ call \in [Calls -> Call]
    /\ age \in 0 .. SESSION_DURATION + 1
    /\ known \in SUBSET (Secrets \cup Phrases)
    /\ answer \in [Calls -> {"none", "yes", "no", "thrown"}]

(* As long as messages come one after the other, what is open is the       *)
(* wallet that is backed up: after a restart the same password opens the   *)
(* same keys.                                                              *)
SessionMatchesBackup == ~ overlapped /\ session # None => session = backup

(* However calls, locks and the alarm overlap, a session is over when the  *)
(* alarm's delay has passed: an old alarm that setSession finds can only   *)
(* end it earlier.  (Of a worker that was stopped nobody hears the alarm.) *)
SessionIsTimed == session # None /\ listening => age <= SESSION_DURATION

(* "30 mins in prod" (wallet.ts:76), the duration being 30 * 60.           *)
SessionLastsItsDuration == session # None => age <= SESSION_DURATION \div SecondsPerMinute

(* "expect(isValid).toBe(false); expect(await wallet.isSessionOpen())      *)
(* .toBe(false)" (wallet.test.ts:191): a start that was refused leaves the *)
(* wallet locked.                                                          *)
RefusedIsLocked == \A c \in Calls : answer[c] = "no" => session = None

(* "if we have not yet discovered accounts, do it now" (wallet.ts:389):    *)
(* once discoveredOnce is set, the accounts of the backup are known.       *)
DiscoveredIsKnown == discoveredOnce /\ backup # None => backup.secret \in known
=============================================================================
