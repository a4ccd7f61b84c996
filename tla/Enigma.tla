------------------------------- MODULE Enigma -------------------------------
(***************************************************************************)
(* The Enigma protocol: a sender and nParticipantsRequired cloakers build, *)
(* sign and submit one joint transaction.  A node is a running wallet with *)
(* three threads that touch this state: the message thread (one handler at *)
(* a time), ThreadEnigma2 (ExpireOldEnigma once a second) and the user     *)
(* (RPC or GUI).  Messages travel over CloakShield, which hands each one   *)
(* to its recipient at most once, in any order; a lost message is one that *)
(* stays in net.                                                           *)
(***************************************************************************)
EXTENDS Integers, FiniteSets

CONSTANTS
    Nodes,          \* running wallets, named by their session key
    Coins,          \* unspent outputs
    Owner,          \* Owner[c]: the wallet that can sign for coin c
    Senders,        \* nodes whose user sends with Enigma
    Cancellers,     \* nodes whose user presses "cancel" in the GUI
    Spenders,       \* nodes that also pay or stake with available coins
    Required,       \* nParticipantsRequired
    MaxRetries,     \* ENIGMA_MAX_RETRIES
    MaxSends,       \* bound: user sends in the whole run
    MaxSec,         \* bound: distinct seconds in which a request is created
    MaxHeight       \* bound: best block height

ASSUME ConstantsAssumption ==
    /\ Owner \in [Coins -> Nodes]
    /\ Senders \subseteq Nodes /\ Cancellers \subseteq Nodes
    /\ Spenders \subseteq Nodes
    /\ Required \in Nat \ {0}
    /\ MaxRetries \in Nat /\ MaxSends \in Nat
    /\ MaxSec \in Nat /\ MaxHeight \in Nat

VARIABLES
    \* Time, and the chain.
    sec,            \* GetAdjustedTime(): only seconds that name a request count
    secUsed,        \* some request was created in this second
    timedOut,       \* ids whose first broadcast is older than timeoutSecs
    height,         \* nBestHeight
    nSends,         \* user sends so far
    \* A node's wallet.
    ours,           \* keys of mapOurCloakingRequests, of every node
    req,            \* req[id]: the request stored under id by its sender id[1]
    inOuts,         \* inOuts[n][id]: mapCloakingInputsOutputs, {} when absent
    lockedUntil,    \* inOuts[n][id].lockedUntilBlock
    cloak,          \* cloak[n][id]: mapCloakingRequests, a request n helps with
    reserved,       \* coins flagged vfEnigmaReserved by their owner
    pool,           \* pool[n]: the transactions n's memory pool holds
    \* Handled-already sets.
    sRequestHashes, sSignRequestHashes, sSignResponses,
    \* Threads and network.
    todo,           \* todo[n]: expired ids left in ExpireOldEnigma's snapshot
    signing,        \* signing[n]: the SignAndRespond(false) call in progress
    net,            \* messages sent and not yet handled
    signatures      \* history: <<c, tx>> when the owner of c signed tx

vars == <<sec, secUsed, timedOut, height, nSends, ours, req, inOuts,
          lockedUntil, cloak, reserved, pool, sRequestHashes,
          sSignRequestHashes, sSignResponses, todo, signing, net, signatures>>

clockVars == <<sec, secUsed, timedOut, height, nSends>>
handledVars == <<sRequestHashes, sSignRequestHashes, sSignResponses>>

-----------------------------------------------------------------------------
Secs == 0..MaxSec

\* A request's identity is the hash of (session key, second of creation).
Ids == Nodes \X Secs

\* A joint transaction: root stands for its outputs (stealthRootKey is drawn
\* afresh for each send); a plain payment has root 0.
Roots == 0..MaxSends
Txs == [root : Roots, ins : SUBSET Coins]
EmptyTx == [root |-> 0, ins |-> {}]

\* CCloakingParticipant: who offered, and which inputs.
Participants == [from : Nodes, ins : SUBSET Coins]

\* sigs are the inputs of signedrawtx that carry their owner's signature.
Requests == [root : Roots, aborted : BOOLEAN, completed : BOOLEAN,
             processed : BOOLEAN, txCreated : BOOLEAN, expired : BOOLEAN,
             retryCount : 0..MaxRetries, sParticipants : SUBSET Participants,
             signedBy : SUBSET Nodes, tx : Txs, sigs : SUBSET Coins]

NewRequest(root) ==
    [root |-> root, aborted |-> FALSE, completed |-> FALSE,
     processed |-> FALSE, txCreated |-> FALSE, expired |-> FALSE,
     retryCount |-> 0, sParticipants |-> {}, signedBy |-> {},
     tx |-> EmptyTx, sigs |-> {}]

SignJobs == [id : Ids, tx : Txs, sigs : SUBSET Coins]

Messages ==
    [type : {"request"}, id : Ids, to : Nodes]
      \cup [type : {"accept"}, id : Ids, from : Nodes, ins : SUBSET Coins]
      \cup [type : {"rejected"}, id : Ids, to : Nodes]
      \cup [type : {"sign"}, id : Ids, to : Nodes, tx : Txs, aborted : BOOLEAN]
      \cup [type : {"signed"}, id : Ids, from : Nodes, tx : Txs,
            ins : SUBSET Coins]

\* Every node but the sender sees the broadcast request.
RequestMsgs(id) ==
    {[type |-> "request", id |-> id, to |-> n] : n \in Nodes \ {id[1]}}

\* The wallet marks a coin spent when its own pool takes a transaction with it.
SpentAt(n) == UNION {t.ins : t \in pool[n]}

\* AvailableCoins: ours, not spent, not reserved for Enigma.
AvailableCoins(n) == {c \in Coins : Owner[c] = n} \ (reserved \cup SpentAt(n))

\* Fault: the reservation is left in place.
AbortedInputsKept(n, ids) == {}

\* Abort gives back every input stored for a request, whoever it is reserved
\* for by now.
AbortedInputs(n, ids) == UNION {inOuts[n][id] : id \in ids}

\* The message thread handles one message at a time.
MessageThreadFree(n) == signing[n] = {}

\* ExpireOldEnigma holds cs_mapOurCloakingRequests until its loop is done.
OurRequestsUnlocked(n) == todo[n] = {}

-----------------------------------------------------------------------------
Init ==
    /\ sec = 0 /\ secUsed = FALSE /\ timedOut = {} /\ height = 0 /\ nSends = 0
    /\ ours = {}
    /\ req = [id \in Ids |-> NewRequest(0)]
    /\ inOuts = [n \in Nodes |-> [id \in Ids |-> {}]]
    /\ lockedUntil = [n \in Nodes |-> [id \in Ids |-> 0]]
    /\ cloak = [n \in Nodes |-> [id \in Ids |-> "none"]]
    /\ reserved = {}
    /\ pool = [n \in Nodes |-> {}]
    /\ sRequestHashes = [n \in Nodes |-> {}]
    /\ sSignRequestHashes = [n \in Nodes |-> {}]
    /\ sSignResponses = [n \in Nodes |-> {}]
    /\ todo = [n \in Nodes |-> {}]
    /\ signing = [n \in Nodes |-> {}]
    /\ net = {}
    /\ signatures = {}

-----------------------------------------------------------------------------
\* The user.

\* Enigma::SendEnigma: store request and inputs unless the id is taken
\* (map::insert), broadcast the request.
SendEnigma(n, id, C) ==
    /\ ours' = ours \cup {id}
    /\ req' = IF id \in ours THEN req
              ELSE [req EXCEPT ![id] = NewRequest(nSends + 1)]
    /\ inOuts' = IF id \in ours THEN inOuts
                 ELSE [inOuts EXCEPT ![n][id] = C]
    /\ net' = net \cup RequestMsgs(id)

\* The user sends: coins are selected and reserved, then the request goes out.
SendCloaked(n, C) ==
    /\ n \in Senders /\ nSends < MaxSends
    /\ C # {} /\ C \subseteq AvailableCoins(n)
    /\ OurRequestsUnlocked(n)
    /\ nSends' = nSends + 1 /\ secUsed' = TRUE
    /\ reserved' = reserved \cup C
    /\ SendEnigma(n, <<n, sec>>, C)
    /\ UNCHANGED <<sec, timedOut, height, lockedUntil, cloak, pool,
                   handledVars, todo, signing, signatures>>

\* Abort: flag the stored request, release every input stored for it.
CancelSend(n, id) ==
    /\ n \in Cancellers /\ id \in ours /\ id[1] = n /\ OurRequestsUnlocked(n)
    /\ req' = [req EXCEPT ![id].aborted = TRUE]
    /\ reserved' = reserved \ AbortedInputs(n, {id})
    /\ UNCHANGED <<clockVars, ours, inOuts, lockedUntil, cloak, pool,
                   handledVars, todo, signing, net, signatures>>

\* A plain payment, or a stake, takes an available coin.
SpendCoin(n, c) ==
    /\ n \in Spenders /\ c \in AvailableCoins(n)
    /\ pool' = [pool EXCEPT ![n] = @ \cup {[root |-> 0, ins |-> {c}]}]
    /\ UNCHANGED <<clockVars, ours, req, inOuts, lockedUntil, cloak, reserved,
                   handledVars, todo, signing, net, signatures>>

\* A relayed transaction enters a pool unless it conflicts with one in it.
ReceiveTx(n, t) ==
    /\ MessageThreadFree(n)
    /\ t \notin pool[n] /\ t.ins \cap SpentAt(n) = {}
    /\ pool' = [pool EXCEPT ![n] = @ \cup {t}]
    /\ UNCHANGED <<clockVars, ours, req, inOuts, lockedUntil, cloak, reserved,
                   handledVars, todo, signing, net, signatures>>

-----------------------------------------------------------------------------
\* A cloaker: ProcessRequest, SignAndRespond(true), CLOAKER_REJECTED.

RememberRequest(n, id) ==
    sRequestHashes' = [sRequestHashes EXCEPT ![n] = @ \cup {id}]

\* Reserve coins C for the request and offer them to the sender.
AcceptRequest(n, m, C) ==
    /\ m.id \notin timedOut /\ Required >= 1
    /\ C # {} /\ C \subseteq AvailableCoins(n)
    /\ reserved' = reserved \cup C
    /\ inOuts' = [inOuts EXCEPT ![n][m.id] = C]
    /\ cloak' = [cloak EXCEPT ![n][m.id] = "live"]
    /\ net' = (net \ {m})
               \cup {[type |-> "accept", id |-> m.id, from |-> n, ins |-> C]}
    /\ RememberRequest(n, m.id)

\* Locked or otherwise unwilling: only the id is remembered; without coins or
\* an onion route not even that.
DeclineRequest(n, m) ==
    /\ net' = net \ {m}
    /\ \/ RememberRequest(n, m.id)
       \/ UNCHANGED sRequestHashes
    /\ UNCHANGED <<reserved, inOuts, cloak>>

\* Fault: an id seen before is processed again.
AlreadyHandledNever(n, id) == FALSE

AlreadyHandled(n, id) == id \in sRequestHashes[n] \/ cloak[n][id] # "none"

HandleRequest(n, m) ==
    /\ m.type = "request" /\ m.to = n
    /\ MessageThreadFree(n) /\ OurRequestsUnlocked(n)
    /\ \/ /\ ~AlreadyHandled(n, m.id)
          /\ \E C \in SUBSET AvailableCoins(n) : AcceptRequest(n, m, C)
       \/ DeclineRequest(n, m)
    /\ UNCHANGED <<clockVars, ours, req, lockedUntil, pool, sSignRequestHashes,
                   sSignResponses, todo, signing, signatures>>

\* Sign our inputs of the joint transaction and send the signatures back.
\* Neither our copy's aborted flag nor the coins' reservation is looked at.
SignJointTx(n, m) ==
    LET mine == inOuts[n][m.id] IN
    /\ ~m.aborted
    /\ cloak[n][m.id] # "none" /\ mine # {} /\ mine \subseteq m.tx.ins
    /\ signatures' = signatures \cup {<<c, m.tx>> : c \in mine}
    /\ lockedUntil' = [lockedUntil EXCEPT ![n][m.id] = height + 1]
    /\ net' = (net \ {m})
               \cup {[type |-> "signed", id |-> m.id, from |-> n, tx |-> m.tx,
                      ins |-> mine]}

RefuseToSign(m) ==
    /\ net' = net \ {m}
    /\ UNCHANGED <<signatures, lockedUntil>>

HandleSignRequest(n, m) ==
    /\ m.type = "sign" /\ m.to = n /\ MessageThreadFree(n)
    /\ \/ m.id \notin sSignRequestHashes[n] /\ SignJointTx(n, m)
       \/ RefuseToSign(m)
    /\ sSignRequestHashes' = [sSignRequestHashes EXCEPT ![n] = @ \cup {m.id}]
    /\ UNCHANGED <<clockVars, ours, req, inOuts, cloak, reserved, pool,
                   sRequestHashes, sSignResponses, todo, signing>>

\* The sender had enough cloakers: Abort our copy, whatever its state.
HandleAcceptResponseFromSender(n, m) ==
    /\ m.type = "rejected" /\ m.to = n /\ MessageThreadFree(n)
    /\ net' = net \ {m}
    /\ IF cloak[n][m.id] = "none"
       THEN UNCHANGED <<cloak, reserved>>
       ELSE /\ cloak' = [cloak EXCEPT ![n][m.id] = "aborted"]
            /\ reserved' = reserved \ AbortedInputs(n, {m.id})
    /\ UNCHANGED <<clockVars, ours, req, inOuts, lockedUntil, pool, handledVars,
                   todo, signing, signatures>>

-----------------------------------------------------------------------------
\* The sender: ProcessAcceptResponse, ProcessSignatureResponse, SignAndRespond.

\* Fault: the cloaker that fills the request is left out.
JointTxWithoutLast(n, id, parts) ==
    [root |-> req[id].root,
     ins |-> inOuts[n][id] \cup UNION {p.ins : p \in req[id].sParticipants}]

\* CreateTransactionAndRequestSign: every offered input and our own.
JointTx(n, id, parts) ==
    [root |-> req[id].root,
     ins |-> inOuts[n][id] \cup UNION {p.ins : p \in parts}]

SignMsgs(id, parts, tx) ==
    {[type |-> "sign", id |-> id, to |-> p.from, tx |-> tx,
      aborted |-> req[id].aborted] : p \in parts}

\* The offer that fills the request also creates the joint transaction, once;
\* txCreated stays set when the creation fails (fees, unknown inputs).
AddParticipant(n, m) ==
    LET parts == req[m.id].sParticipants \cup {[from |-> m.from, ins |-> m.ins]}
        creates == Cardinality(parts) >= Required /\ ~req[m.id].txCreated
        tx == JointTx(n, m.id, parts) IN
    IF creates
    THEN \/ /\ req' = [req EXCEPT ![m.id] =
                        [@ EXCEPT !.sParticipants = parts, !.txCreated = TRUE,
                                  !.tx = tx, !.sigs = {}]]
            /\ net' \in {net \ {m}, (net \ {m}) \cup SignMsgs(m.id, parts, tx)}
         \/ /\ req' = [req EXCEPT ![m.id] =
                        [@ EXCEPT !.sParticipants = parts, !.txCreated = TRUE]]
            /\ net' = net \ {m}
    ELSE /\ req' = [req EXCEPT ![m.id] = [@ EXCEPT !.sParticipants = parts]]
         /\ net' = net \ {m}

\* No room: tell the cloaker.
RejectParticipant(m) ==
    /\ net' = (net \ {m})
               \cup {[type |-> "rejected", id |-> m.id, to |-> m.from]}
    /\ UNCHANGED req

HandleCloakingAccept(n, m) ==
    /\ m.type = "accept" /\ m.id[1] = n
    /\ MessageThreadFree(n) /\ OurRequestsUnlocked(n)
    /\ CASE m.id \notin ours -> net' = net \ {m} /\ UNCHANGED req
         [] m.id \in ours /\ Cardinality(req[m.id].sParticipants) < Required
              -> AddParticipant(n, m)
         [] OTHER -> RejectParticipant(m)
    /\ UNCHANGED <<clockVars, ours, inOuts, lockedUntil, cloak, reserved, pool,
                   handledVars, todo, signing, signatures>>

\* AddSignedInputsToTx: the signer counts when the number of signatures fits
\* our transaction; its signatures hold only for the transaction it signed.
AddSignedInputsToTx(r, m) ==
    IF r.tx = EmptyTx \/ Cardinality(m.tx.ins) # Cardinality(r.tx.ins) THEN r
    ELSE [r EXCEPT !.signedBy = @ \cup {m.from},
                   !.sigs = IF m.tx = r.tx THEN @ \cup m.ins ELSE @]

\* Fault: the sender counts itself as a signer.
ReadyToSignEarly(r) == Cardinality(r.signedBy) + 1 >= Required /\ ~r.processed

\* All cloakers have signed, self sign.
ReadyToSign(r) == Cardinality(r.signedBy) >= Required /\ ~r.processed

\* Fault: a response for a cancelled request counts.
IgnoredUnlessAborted(n, m) ==
    \/ <<m.id, m.from>> \in sSignResponses[n] \/ m.id \notin ours
    \/ m.from \in req[m.id].signedBy

\* A response seen before, for no request of ours, for a cancelled one, or of a
\* cloaker that has signed.
ResponseIgnored(n, m) ==
    \/ <<m.id, m.from>> \in sSignResponses[n] \/ m.id \notin ours
    \/ req[m.id].aborted \/ m.from \in req[m.id].signedBy

\* ProcessSignatureResponse up to the call of SignAndRespond(false).
HandleSignResponse(n, m) ==
    LET r == AddSignedInputsToTx(req[m.id], m) IN
    /\ m.type = "signed" /\ m.id[1] = n
    /\ MessageThreadFree(n) /\ OurRequestsUnlocked(n)
    /\ net' = net \ {m}
    /\ sSignResponses' = [sSignResponses EXCEPT ![n] = @ \cup {<<m.id, m.from>>}]
    /\ IF ResponseIgnored(n, m)
       THEN UNCHANGED <<req, signing>>
       ELSE /\ req' = [req EXCEPT ![m.id] = r]
            /\ signing' = IF ReadyToSign(r)
                          THEN [signing EXCEPT ![n] =
                                 {[id |-> m.id, tx |-> r.tx, sigs |-> r.sigs]}]
                          ELSE signing
    /\ UNCHANGED <<clockVars, ours, inOuts, lockedUntil, cloak, reserved, pool,
                   sRequestHashes, sSignRequestHashes, todo, signatures>>

\* Fault: signatures are not verified.
AcceptUnverified(n, tx, sigs) == tx.ins \cap SpentAt(n) = {}

\* AcceptToMemoryPool: no conflict, and every input carries a signature.
AcceptToMemoryPool(n, tx, sigs) ==
    tx.ins \cap SpentAt(n) = {} /\ tx.ins \subseteq sigs

\* SignAndRespond(false): we sign last and submit.  The request is written
\* without a lock; once Retry has erased it the writes land in freed memory.
SubmitJointTx(n, job) ==
    LET mine == inOuts[n][job.id]
        accepted == AcceptToMemoryPool(n, job.tx, job.sigs \cup mine) IN
    /\ mine \subseteq job.tx.ins
    /\ signatures' = signatures \cup {<<c, job.tx>> : c \in mine}
    /\ pool' = IF accepted THEN [pool EXCEPT ![n] = @ \cup {job.tx}] ELSE pool
    /\ req' = IF job.id \notin ours THEN req
              ELSE [req EXCEPT ![job.id] =
                     [req[job.id] EXCEPT
                               !.processed = TRUE, !.signedBy = @ \cup {n},
                               !.tx = job.tx, !.sigs = job.sigs \cup mine,
                               !.expired = FALSE,
                               !.completed = @ \/ accepted]]

\* A locked wallet, or an input we cannot find: nothing is signed.
SignFails ==
    UNCHANGED <<signatures, pool, req>>

FinishSigning(n, job) ==
    /\ job \in signing[n]
    /\ SubmitJointTx(n, job) \/ SignFails
    /\ signing' = [signing EXCEPT ![n] = {}]
    /\ UNCHANGED <<clockVars, ours, inOuts, lockedUntil, cloak, reserved,
                   handledVars, todo, net>>

-----------------------------------------------------------------------------
\* ThreadEnigma2: ExpireOldEnigma.

\* Fault: one retry too many.
ShouldRetryOnceMore(id) == req[id].retryCount <= MaxRetries

\* autoRetry is always set.
ShouldRetry(id) == req[id].retryCount < MaxRetries

\* The loop runs over a copy of our requests.
ExpireOldEnigma(n) ==
    LET expired == {id \in ours : /\ id[1] = n /\ req[id].expired
                                  /\ ~req[id].completed /\ ~req[id].aborted} IN
    /\ todo[n] = {} /\ expired # {}
    /\ todo' = [todo EXCEPT ![n] = expired]
    /\ UNCHANGED <<clockVars, ours, req, inOuts, lockedUntil, cloak, reserved,
                   pool, handledVars, signing, net, signatures>>

\* Fault: the inputs stay behind and are erased with the old id.
RetryRequestBare(n, id) ==
    LET new == <<n, sec>> IN
    /\ id \in todo[n] /\ ShouldRetry(id)
    /\ todo' = [todo EXCEPT ![n] = @ \ {id}]
    /\ secUsed' = TRUE
    /\ ours' = (ours \ {id}) \cup {new}
    /\ req' = [req EXCEPT ![id] = NewRequest(0),
                          ![new] = [req[id] EXCEPT !.aborted = FALSE,
                                      !.signedBy = {}, !.sParticipants = {},
                                      !.expired = FALSE, !.retryCount = @ + 1]]
    /\ inOuts' = [inOuts EXCEPT ![n] =
                    [inOuts[n] EXCEPT ![id] = {}]]
    /\ net' = net \cup RequestMsgs(new)
    /\ UNCHANGED <<sec, timedOut, height, nSends, lockedUntil, cloak, reserved,
                   pool, handledVars, signing, signatures>>

\* Retry: the stored request and its inputs move to a new id, named by this
\* second, whatever that id held.
RetryRequest(n, id) ==
    LET new == <<n, sec>> IN
    /\ id \in todo[n] /\ ShouldRetry(id)
    /\ todo' = [todo EXCEPT ![n] = @ \ {id}]
    /\ secUsed' = TRUE
    /\ ours' = (ours \ {id}) \cup {new}
    /\ req' = [req EXCEPT ![id] = NewRequest(0),
                          ![new] = [req[id] EXCEPT !.aborted = FALSE,
                                      !.signedBy = {}, !.sParticipants = {},
                                      !.expired = FALSE, !.retryCount = @ + 1]]
    /\ inOuts' = [inOuts EXCEPT ![n] =
                    [inOuts[n] EXCEPT ![id] = {}, ![new] = inOuts[n][id]]]
    /\ net' = net \cup RequestMsgs(new)
    /\ UNCHANGED <<sec, timedOut, height, nSends, lockedUntil, cloak, reserved,
                   pool, handledVars, signing, signatures>>

\* Fault: a request that should be retried is aborted.
AbortAnyRequest(n, id) ==
    /\ id \in todo[n]
    /\ todo' = [todo EXCEPT ![n] = @ \ {id}]
    /\ reserved' = reserved \ AbortedInputs(n, {id})
    /\ UNCHANGED <<clockVars, ours, req, inOuts, lockedUntil, cloak, pool,
                   handledVars, signing, net, signatures>>

\* Abort on the loop's copy: the inputs are released, the stored request is
\* left as it was and comes back in the next round.
AbortRequest(n, id) ==
    /\ id \in todo[n] /\ ~ShouldRetry(id)
    /\ todo' = [todo EXCEPT ![n] = @ \ {id}]
    /\ reserved' = reserved \ AbortedInputs(n, {id})
    /\ UNCHANGED <<clockVars, ours, req, inOuts, lockedUntil, cloak, pool,
                   handledVars, signing, net, signatures>>

\* Fault: only signed requests are looked at.
ShouldAbortSigned(n, id) == id \in timedOut /\ lockedUntil[n][id] # 0

\* The test guards the lock only where the inputs are missing.
ShouldAbort(n, id) ==
    (id \in timedOut /\ inOuts[n][id] = {}) => height >= lockedUntil[n][id]

\* The second loop, over the requests of others.
AbortStored(n) ==
    LET gone == {id \in Ids : cloak[n][id] = "live" /\ ShouldAbort(n, id)} IN
    /\ todo[n] = {} /\ gone # {}
    /\ cloak' = [cloak EXCEPT ![n] =
                   [id \in Ids |-> IF id \in gone THEN "aborted" ELSE @[id]]]
    /\ reserved' = reserved \ AbortedInputs(n, gone)
    /\ UNCHANGED <<clockVars, ours, req, inOuts, lockedUntil, pool, handledVars,
                   todo, signing, net, signatures>>

-----------------------------------------------------------------------------
\* Time.

NextSecond ==
    /\ secUsed /\ sec < MaxSec
    /\ sec' = sec + 1 /\ secUsed' = FALSE
    /\ UNCHANGED <<timedOut, height, nSends, ours, req, inOuts, lockedUntil,
                   cloak, reserved, pool, handledVars, todo, signing, net,
                   signatures>>

\* IsExpired turns true: timeoutSecs have passed since the last broadcast.
TimeOut(id) ==
    /\ id \in ours /\ sec > id[2] /\ ~req[id].expired
    /\ req' = [req EXCEPT ![id].expired = TRUE]
    /\ timedOut' = timedOut \cup {id}
    /\ UNCHANGED <<sec, secUsed, height, nSends, ours, inOuts, lockedUntil,
                   cloak, reserved, pool, handledVars, todo, signing, net,
                   signatures>>

NewBlock ==
    /\ height < MaxHeight
    /\ height' = height + 1
    /\ UNCHANGED <<sec, secUsed, timedOut, nSends, ours, req, inOuts,
                   lockedUntil, cloak, reserved, pool, handledVars, todo,
                   signing, net, signatures>>

-----------------------------------------------------------------------------
User(n) ==
    \/ \E C \in SUBSET AvailableCoins(n) : SendCloaked(n, C)
    \/ \E id \in ours : CancelSend(n, id)
    \/ \E c \in Coins : SpendCoin(n, c)

MessageThread(n) ==
    \/ \E m \in net : \/ HandleRequest(n, m)
                      \/ HandleSignRequest(n, m)
                      \/ HandleAcceptResponseFromSender(n, m)
                      \/ HandleCloakingAccept(n, m)
                      \/ HandleSignResponse(n, m)
    \/ \E k \in Nodes : \E t \in pool[k] : ReceiveTx(n, t)
    \/ \E job \in signing[n] : FinishSigning(n, job)

EnigmaThread(n) ==
    \/ ExpireOldEnigma(n)
    \/ \E id \in todo[n] : RetryRequest(n, id) \/ AbortRequest(n, id)
    \/ AbortStored(n)

Time ==
    NextSecond \/ NewBlock \/ \E id \in ours : TimeOut(id)

Next ==
    \/ \E n \in Nodes : User(n) \/ MessageThread(n) \/ EnigmaThread(n)
    \/ Time

Spec == Init /\ [][Next]_vars

\* Time passes, and ThreadEnigma2 and the message thread run; nothing is
\* assumed of the user or of message delivery.
Fairness ==
    /\ WF_vars(NextSecond)
    /\ WF_vars(\E id \in ours : TimeOut(id))
    /\ \A n \in Nodes : /\ WF_vars(ExpireOldEnigma(n))
                        /\ WF_vars(\E id \in todo[n] : RetryRequest(n, id)
                                                        \/ AbortRequest(n, id))
                        /\ WF_vars(AbortStored(n))
                        /\ WF_vars(\E job \in signing[n] : FinishSigning(n, job))

FairSpec == Spec /\ Fairness
-----------------------------------------------------------------------------
\* Every variable keeps its type.
TypeOK ==
    /\ sec \in Secs /\ secUsed \in BOOLEAN /\ timedOut \subseteq Ids
    /\ height \in 0..MaxHeight /\ nSends \in 0..MaxSends
    /\ ours \subseteq Ids
    /\ req \in [Ids -> Requests]
    /\ inOuts \in [Nodes -> [Ids -> SUBSET Coins]]
    /\ lockedUntil \in [Nodes -> [Ids -> Nat]]
    /\ cloak \in [Nodes -> [Ids -> {"none", "live", "aborted"}]]
    /\ reserved \subseteq Coins
    /\ pool \in [Nodes -> SUBSET Txs]
    /\ sRequestHashes \in [Nodes -> SUBSET Ids]
    /\ sSignRequestHashes \in [Nodes -> SUBSET Ids]
    /\ sSignResponses \in [Nodes -> SUBSET (Ids \X Nodes)]
    /\ todo \in [Nodes -> SUBSET Ids]
    /\ signing \in [Nodes -> SUBSET SignJobs]
    /\ net \subseteq Messages
    /\ signatures \subseteq Coins \X Txs

\* Cloaker n offered the inputs C for id and still knows it.
Offered(n, id, C) ==
    n # id[1] /\ cloak[n][id] # "none" /\ C # {} /\ inOuts[n][id] = C

\* A message agrees with what the cloaker it concerns stored.
MessageAgrees(m) ==
    /\ m.type = "request" => m.to # m.id[1]
    /\ m.type = "accept" => Offered(m.from, m.id, m.ins)
    /\ m.type = "sign" => \E C \in SUBSET m.tx.ins : Offered(m.to, m.id, C)

\* What travels and what senders hold agrees with what cloakers stored: the
\* inductive form of OffersIntact and DistinctCloakers.
OffersAgree ==
    /\ \A m \in net : MessageAgrees(m)
    /\ \A id \in Ids : \A p \in req[id].sParticipants : Offered(p.from, id, p.ins)
    /\ \A n \in Nodes : \A id \in todo[n] : id[1] = n

\* Every signature kept or sent was given for that transaction: the inductive
\* form of FullySigned, with it.
SignaturesGenuine ==
    /\ \A m \in net : m.type = "signed" =>
         \A c \in m.ins : <<c, m.tx>> \in signatures
    /\ \A id \in Ids : \A c \in req[id].sigs : <<c, req[id].tx>> \in signatures
    /\ \A n \in Nodes : \A job \in signing[n] : \A c \in job.sigs :
         <<c, job.tx>> \in signatures

\* A cloaker finds its own offer, whole, in every joint transaction it is asked
\* to sign, so SignAndRespond never bans a sender that follows the protocol
\* for altered or missing inputs.
OffersIntact ==
    \A m \in net : m.type = "sign" =>
        /\ cloak[m.to][m.id] # "none"
        /\ inOuts[m.to][m.id] # {}
        /\ inOuts[m.to][m.id] \subseteq m.tx.ins

\* A cloaker fills at most one place of a request, however often the request
\* reaches it: nParticipantsRequired places are that many cloakers.
DistinctCloakers ==
    \A id \in ours : \A p, q \in req[id].sParticipants :
        p.from = q.from => p = q

\* The sender signs last: it gives its signature to a joint transaction only
\* when every other input is signed, so a cloaker that drops out leaves nobody
\* holding a half-signed transaction with the sender's signature on it.
SenderSignsLast ==
    \A id \in ours : \A c \in inOuts[id[1]][id] :
        <<c, req[id].tx>> \in signatures =>
            \A d \in req[id].tx.ins : <<d, req[id].tx>> \in signatures

\* While a send can still complete its inputs stay out of reach of other
\* spends: they are reserved, through every retry.  Only a coin that a request
\* which is over for this wallet names as well, somebody else's, cancelled or
\* given up, may be free: Abort releases what it names whenever it runs.
Over(n, id) ==
    \/ id[1] # n \/ req[id].aborted
    \/ ~ShouldRetry(id) /\ (req[id].expired \/ req[id].processed)
Pending(id) ==
    id \in ours /\ ~req[id].processed /\ ~Over(id[1], id)
PendingSendHeld ==
    \A id \in Ids : Pending(id) => \A c \in inOuts[id[1]][id] :
        c \in reserved \/ \E o \in Ids : Over(id[1], o) /\ c \in inOuts[id[1]][o]

\* A joint transaction in anybody's memory pool carries the signature of the
\* owner of each input, also when Retry erased the request while the message
\* thread was signing it.
FullySigned ==
    \A n \in Nodes : \A t \in pool[n] : t.root # 0 =>
        \A c \in t.ins : <<c, t>> \in signatures

\* A coin reserved for a send is, in the end, spent or free again.
SendSettles ==
    \A c \in Coins :
        (c \in reserved /\ \E id \in ours : c \in inOuts[id[1]][id])
            ~> (c \notin reserved \/ c \in SpentAt(Owner[c]))

\* A coin reserved for somebody else's request is, in the end, spent or free
\* again, also when the sender goes silent.
OfferSettles ==
    \A c \in Coins :
        (c \in reserved /\ \E id \in Ids : c \in inOuts[Owner[c]][id]
                                           /\ cloak[Owner[c]][id] = "live")
            ~> (c \notin reserved \/ c \in SpentAt(Owner[c]))

\* Once a send is cancelled, and SignAndRespond is not at work on it at that
\* moment, it stays cancelled: no late signature, retry or expiry brings it back
\* or completes it (enigma.cpp, ProcessSignatureResponse: "if the request has been
\* aborted at our end we should abort the signing process").  It ends only where
\* Retry moves another request of the wallet to the same id.
BeingSigned(id) == \E n \in Nodes : \E job \in signing[n] : job.id = id
Cancelled(id) ==
    id \in ours /\ req[id].aborted /\ ~req[id].completed /\ ~BeingSigned(id)
Replaced(id) ==
    id[2] = sec /\ \E old \in ours \ ours' : old[1] = id[1]
CancelIsFinal ==
    [][\A id \in Ids : Cancelled(id) => Cancelled(id)' \/ Replaced(id)]_vars

\* Every reserved coin belongs to some stored request, through every retry, or no
\* Abort could give it back (cloakingrequest.cpp, Abort: "this will restore any
\* funds held for participation").  It holds while no request gets the id of one
\* the wallet holds: of two sends in one second the second's inputs are not
\* stored, and a retry in the second of a send replaces that send's.
SameSecond ==
    \E n \in Nodes :
        /\ <<n, sec>> \in ours
        /\ \/ \E C \in SUBSET AvailableCoins(n) : SendCloaked(n, C)
           \/ \E id \in todo[n] : RetryRequest(n, id)
ReservationsTracked ==
    \A c \in reserved : \E id \in Ids : c \in inOuts[Owner[c]][id]

-----------------------------------------------------------------------------
\* What a comment of the code says and the code does not do.

\* ProcessAcceptResponse, "if we have enough cloakers, create the shared
\* transaction": the transaction of a full request is made of the inputs of
\* its participants, unless its creation failed.
FullRequestHasItsTx ==
    \A id \in ours :
        (Cardinality(req[id].sParticipants) >= Required /\ req[id].tx # EmptyTx)
            => req[id].tx = JointTx(id[1], id, req[id].sParticipants)
=============================================================================
