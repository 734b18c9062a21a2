--------------------------- MODULE MultisigSystem ---------------------------
(***************************************************************************)
(* The account contract, the signature server and the chain between them.  *)
(*                                                                         *)
(* init_tx reads the account with one feeder gateway call per value        *)
(* (backend/feeders_client.py), and transactions can run between any two   *)
(* of the calls.  What the server posts goes through a mempool to the      *)
(* account; owners may also bring transactions to the account themselves.  *)
(* Everybody signs what they are asked to: verify_signature checks         *)
(* nothing, and here nothing but genuine signatures is ever sent to it.    *)
(***************************************************************************)
EXTENDS MultisigAccount, SequencesExt

CONSTANTS
    ServedTxs,    \* the transactions that somebody gives to the server
    Requests, NoTx, Idle, ForcedTxs, MaxPosts, MaxRestarts, \* as in SignatureServer
    NoReader      \* no init_tx is reading the account

ASSUME ServedTxsAssumption == ServedTxs \subseteq Txs

VARIABLES
    txs, signatures, sent, pending, handler, posts, failed, forced, restarts,
    reader,   \* the init_tx handler that is reading the account, and its locals
    mempool,  \* what the gateway received and the sequencer has not run
    past,     \* history: the account as it was at each nonce
    read      \* history: the nonces between which each snapshot was read

accountVars == vars
serverVars  == <<txs, signatures, sent, pending, handler, posts, failed, forced, restarts>>
systemVars  == <<accountVars, serverVars, reader, mempool, past, read>>

Server == INSTANCE SignatureServer WITH
              Users <- Keys, Snapshots <- {}, FaultyTxs <- Txs

Listed  == {keys[i] : i \in 0 .. n_keys - 1}
Present == [listed |-> Listed, weights |-> weights, threshold |-> threshold]

SystemInit ==
    /\ Init
    /\ Server!Init
    /\ reader = NoReader
    /\ mempool = {}
    /\ past = [n \in {0} |-> Present]
    /\ read = [t \in Txs |-> [from |-> 0, till |-> 0]]

---------------------------------------------------------------------------
(* init_tx, one step per answer of the feeder gateway.                     *)

(* The answers so far, and that of the i-th call.                          *)
Answered(answers, i, answer) ==
    [j \in DOMAIN answers \cup {i} |-> IF j = i THEN answer ELSE answers[j]]

(* Faulty: the last key is not asked for.                                  *)
BeginInitOneShort(t) ==
    /\ reader = NoReader
    /\ n_keys > 0
    /\ reader' = [tx |-> t, n |-> n_keys - 1, users |-> << >>, weights |-> << >>, nonce |-> nonce]
    /\ UNCHANGED <<accountVars, serverVars, mempool, past, read>>

(* The answer of get_n_keys.                                               *)
BeginInit(t) ==
    /\ reader = NoReader
    /\ reader' = [tx |-> t, n |-> n_keys, users |-> << >>, weights |-> << >>, nonce |-> nonce]
    /\ UNCHANGED <<accountVars, serverVars, mempool, past, read>>

(* asyncio.gather asks for all the keys at once, so the answers are of any *)
(* moments in any order; get_key_at panics when the list has become too    *)
(* short, and init_tx ends with it.                                        *)
ReadKey(i) ==
    /\ reader # NoReader
    /\ i \in (0 .. reader.n - 1) \ DOMAIN reader.users
    /\ reader' = IF i < n_keys
                 THEN [reader EXCEPT !.users = Answered(@, i, keys[i])]
                 ELSE NoReader
    /\ UNCHANGED <<accountVars, serverVars, mempool, past, read>>

(* Then all the weights at once.                                           *)
ReadWeight(i) ==
    /\ reader # NoReader
    /\ DOMAIN reader.users = 0 .. reader.n - 1
    /\ i \in DOMAIN reader.users \ DOMAIN reader.weights
    /\ reader' = [reader EXCEPT !.weights = Answered(@, i, weights[reader.users[i]])]
    /\ UNCHANGED <<accountVars, serverVars, mempool, past, read>>

(* dict(zip(users, weights)): of a key that is listed twice, the last.     *)
ReadWeights ==
    [k \in Range(reader.users) |->
        reader.weights[Max({i \in DOMAIN reader.users : reader.users[i] = k})]]

(* The answer of get_threshold, and add_tx.                                *)
EndInit ==
    /\ reader # NoReader
    /\ DOMAIN reader.weights = 0 .. reader.n - 1
    /\ reader' = NoReader
    /\ IF Server!Known(reader.tx)
       THEN UNCHANGED <<serverVars, read>>
       ELSE /\ Server!InitTx(reader.tx, [weights |-> ReadWeights, threshold |-> threshold])
            /\ read' = [read EXCEPT ![reader.tx] = [from |-> reader.nonce, till |-> nonce]]
    /\ UNCHANGED <<accountVars, mempool, past>>

---------------------------------------------------------------------------
(* The signature field as _send_tx_to_starknet builds it: the entries in   *)
(* the order of the dict, after the number of felts they take.             *)
PostedSignature(s) ==
    [count |-> 3 * Len(s), entries |-> [i \in 1 .. Len(s) |-> [key |-> s[i], genuine |-> TRUE]]]

AddSignature(r, u, t) ==
    /\ Server!AddSignature(r, u, t)
    /\ UNCHANGED <<accountVars, reader, mempool, past, read>>

SendTx(r, t, force) ==
    /\ Server!SendTx(r, t, force)
    /\ UNCHANGED <<accountVars, reader, mempool, past, read>>

GatewayReceives(r) ==
    /\ Server!GatewayReceives(r)
    /\ mempool' = mempool \cup
           {[tx |-> handler[r].tx, signature |-> PostedSignature(handler[r].signature)]}
    /\ UNCHANGED <<accountVars, reader, past, read>>

Resume(r) ==
    /\ Server!Resume(r)
    /\ UNCHANGED <<accountVars, reader, mempool, past, read>>

PostFails(r) ==
    /\ Server!PostFails(r)
    /\ UNCHANGED <<accountVars, reader, mempool, past, read>>

Restart ==
    /\ Server!Restart
    /\ reader' = NoReader
    /\ UNCHANGED <<accountVars, mempool, past, read>>

---------------------------------------------------------------------------
(* The sequencer runs a transaction when its nonce is the account's; what  *)
(* it cannot run it drops.                                                 *)
Remember == past' = [n \in 0 .. nonce' |-> IF n \in DOMAIN past THEN past[n] ELSE Present']

RunPosted(m) ==
    /\ m.tx.nonce = nonce
    /\ Invoke(m.tx, m.signature)
    /\ Remember
    /\ mempool' = mempool \ {m}
    /\ UNCHANGED <<serverVars, reader, read>>

DropPosted(m) ==
    /\ mempool' = mempool \ {m}
    /\ UNCHANGED <<accountVars, serverVars, reader, past, read>>

(* Owners run a transaction without the server, with a signature of their  *)
(* own making; other contracts call the account.                           *)
RunOwn(t, signature) ==
    /\ t.nonce = nonce
    /\ Invoke(t, signature)
    /\ Remember
    /\ UNCHANGED <<serverVars, reader, mempool, read>>

OthersCall(caller, call) ==
    /\ CallDirectly(caller, call)
    /\ UNCHANGED <<serverVars, reader, mempool, past, read>>

SystemNext ==
    \/ \E t \in ServedTxs : BeginInit(t)
    \/ \E i \in 0 .. MaxKeys - 1 : ReadKey(i)
    \/ \E i \in 0 .. MaxKeys - 1 : ReadWeight(i)
    \/ EndInit
    \/ \E r \in Requests, u \in Keys, t \in ServedTxs : AddSignature(r, u, t)
    \/ \E r \in Requests, t \in ServedTxs, force \in BOOLEAN : SendTx(r, t, force)
    \/ \E r \in Requests : GatewayReceives(r)
    \/ \E r \in Requests : Resume(r)
    \/ \E r \in Requests : PostFails(r)
    \/ Restart
    \/ \E m \in mempool : RunPosted(m)
    \/ \E m \in mempool : DropPosted(m)
    \/ \E t \in Txs, signature \in Signatures : RunOwn(t, signature)
    \/ \E caller \in {"other", "zero"}, call \in DirectCalls : OthersCall(caller, call)

SystemSpec == SystemInit /\ [][SystemNext]_systemVars

---------------------------------------------------------------------------
(* Properties.                                                             *)

(* The reader's locals fit together, and so do the parts.                  *)
SystemTypeOK ==
    /\ TypeOK
    /\ reader # NoReader =>
          /\ reader.tx \in Txs
          /\ reader.n \in 0 .. MaxKeys
          /\ DOMAIN reader.weights \subseteq DOMAIN reader.users
          /\ DOMAIN reader.users \subseteq 0 .. reader.n - 1
          /\ reader.nonce \in 0 .. nonce
    /\ DOMAIN past = 0 .. nonce
    /\ \A t \in Txs : read[t].from \in 0 .. read[t].till /\ read[t].till \in 0 .. nonce

(* A snapshot is put together from separate calls while the account moves  *)
(* on.  Each of its members was listed while they were made, and has the   *)
(* weight it had then or later; the threshold is that of the end.  If no   *)
(* transaction ran meanwhile, it is the account as it was: every change of *)
(* keys, weights or threshold takes a nonce.  It may be torn, or no more   *)
(* the account when the transaction it was read for is next.               *)
SnapshotWasRead ==
    \A t \in Txs : Server!Known(t) =>
        LET from == read[t].from
            till == read[t].till
        IN  /\ \A k \in Server!Members(t) : \E m \in from .. till : \E n \in m .. till :
                  k \in past[m].listed /\ txs[t].weights[k] = past[n].weights[k]
            /\ txs[t].threshold = past[till].threshold
            /\ from = till => Server!Members(t) = past[from].listed

(* The weights that signers had while the snapshot was read, each at some  *)
(* moment of it.                                                           *)
WeightsRead(t, S) ==
    {w \in [S -> U128] :
        \A k \in S : \E n \in read[t].from .. read[t].till : w[k] = past[n].weights[k]}

QuorumWhenRead(t, S) ==
    \E w \in WeightsRead(t, S) :
        MapThenSumSet(LAMBDA k : w[k], S) >= past[read[t].till].threshold

(* What the server calls Ready, or posts without force, has signers whose  *)
(* weights, each as it was at some moment of the read, reach the threshold *)
(* there was at its end; if no transaction ran meanwhile, a quorum of the  *)
(* account as it was.                                                      *)
ReadyIsQuorum ==
    /\ \A t \in Txs : Server!Status(t) = "Ready" => QuorumWhenRead(t, Server!Signed(t))
    /\ \A r \in Requests : handler[r] # Idle /\ ~ handler[r].force =>
          QuorumWhenRead(handler[r].tx, ToSet(handler[r].signature))

(* 'Invaid signature format': what the server posts is a serialized        *)
(* MultiSig, an Array<SignatureEntry> after the number of its elements.    *)
PostedSignaturesDeserialize == \A m \in mempool : Deserializes(m.signature)

(* 'Keys not sequential': the entries the server posts are in the order    *)
(* that get_total_signed_weight asserts.                                   *)
PostedKeysSequential ==
    \A m \in mempool :
        LET e == m.signature.entries
        IN  \A i \in 1 .. Len(e) : MinKey(e, i) <= e[i].key
=============================================================================
