---------------------------- MODULE EnigmaProofs ----------------------------
(***************************************************************************)
(* Type correctness of module Enigma, for any number of wallets, coins,    *)
(* sends, retries and seconds; and what a cloaker offers to a request, what*)
(* the sender books for it and what the joint transaction spends are the   *)
(* same inputs: OffersAgree is inductive over TypeOK, and OffersIntact and *)
(* DistinctCloakers follow.  A joint transaction in a memory pool is       *)
(* signed by every owner of its inputs: FullySigned is inductive with      *)
(* SignaturesGenuine.                                                      *)
(***************************************************************************)
EXTENDS Enigma, TLAPS

-----------------------------------------------------------------------------
\* The pieces the state is built from have the types TypeOK gives them.

\* The transaction of a request that has none yet.
LEMMA EmptyTxType == EmptyTx \in Txs
BY ConstantsAssumption DEF EmptyTx, Txs, Roots

\* A request as CreateForBroadcast makes it.
LEMMA NewRequestType == \A root \in Roots : NewRequest(root) \in Requests
BY EmptyTxType, ConstantsAssumption DEF NewRequest, Requests

\* A request is named by its node and a second.
LEMMA IdType == \A n \in Nodes : \A t \in Secs : <<n, t>> \in Ids
BY DEF Ids

\* The broadcast of a request is a set of messages.
LEMMA RequestMsgsType == \A id \in Ids : RequestMsgs(id) \subseteq Messages
BY DEF RequestMsgs, Messages

\* What Abort releases are coins.
LEMMA AbortedInputsType ==
    ASSUME TypeOK, NEW n \in Nodes, NEW ids \in SUBSET Ids
    PROVE  AbortedInputs(n, ids) \subseteq Coins
BY DEF AbortedInputs, TypeOK

\* Available coins are coins.
LEMMA AvailableCoinsType == \A n : AvailableCoins(n) \subseteq Coins
BY DEF AvailableCoins

\* Updating one entry of a map of maps.
LEMMA NestedExcept ==
    ASSUME NEW A, NEW B, NEW V, NEW f \in [A -> [B -> V]],
           NEW i \in A, NEW j \in B, NEW v, NEW x \in A, NEW y \in B
    PROVE  [f EXCEPT ![i][j] = v][x][y] = IF x = i /\ y = j THEN v ELSE f[x][y]
OBVIOUS

\* A joint transaction built from offers is a transaction.
LEMMA JointTxType ==
    ASSUME TypeOK, NEW n \in Nodes, NEW id \in Ids, NEW parts \in SUBSET Participants
    PROVE  JointTx(n, id, parts) \in Txs
<1>1. req[id].root \in Roots
  BY DEF TypeOK, Requests
<1>2. inOuts[n][id] \subseteq Coins
  BY DEF TypeOK
<1>3. UNION {p.ins : p \in parts} \subseteq Coins
  BY DEF Participants
<1> QED
  BY <1>1, <1>2, <1>3 DEF JointTx, Txs

-----------------------------------------------------------------------------
\* Type correctness.

\* A wallet that has just started has the types TypeOK gives.
LEMMA InitTypeOK == Init => TypeOK
<1> SUFFICES ASSUME Init PROVE TypeOK
  OBVIOUS
<1>1. sec \in Secs /\ height \in 0..MaxHeight /\ nSends \in 0..MaxSends
  BY ConstantsAssumption DEF Init, Secs
<1>2. req \in [Ids -> Requests]
  BY NewRequestType, ConstantsAssumption DEF Init, Roots
<1>3. secUsed \in BOOLEAN
  BY Zenon DEF Init
<1> QED
  BY <1>1, <1>2, <1>3 DEF Init, TypeOK

\* Sending with Enigma keeps the types.
LEMMA SendType ==
    ASSUME TypeOK, NEW n \in Nodes, NEW C \in SUBSET AvailableCoins(n),
           SendCloaked(n, C)
    PROVE  TypeOK'
<1> DEFINE id == <<n, sec>>
<1>1. id \in Ids /\ C \in SUBSET Coins
  BY IdType, AvailableCoinsType DEF TypeOK
<1>2. nSends' \in 0..MaxSends /\ nSends + 1 \in Roots
  BY ConstantsAssumption DEF SendCloaked, SendEnigma, TypeOK, Roots
<1>3. req' \in [Ids -> Requests]
  BY <1>1, <1>2, NewRequestType DEF SendCloaked, SendEnigma, TypeOK
<1>4. inOuts' \in [Nodes -> [Ids -> SUBSET Coins]]
  BY <1>1 DEF SendCloaked, SendEnigma, TypeOK
<1>5. net' \subseteq Messages
  BY <1>1, RequestMsgsType DEF SendCloaked, SendEnigma, TypeOK
<1>6. ours' \subseteq Ids /\ reserved' \subseteq Coins
  BY <1>1, ZenonT(20) DEF SendCloaked, SendEnigma, TypeOK
<1> QED
  BY <1>2, <1>3, <1>4, <1>5, <1>6, ZenonT(20)
  DEF SendCloaked, SendEnigma, TypeOK, handledVars

\* Cancelling a send keeps the types.
LEMMA CancelType ==
    ASSUME TypeOK, NEW n \in Nodes, NEW id \in ours, CancelSend(n, id)
    PROVE  TypeOK'
<1>1. id \in Ids
  BY DEF TypeOK
<1>2. [req[id] EXCEPT !.aborted = TRUE] \in Requests
  <2>1. req[id] \in Requests
    BY <1>1 DEF TypeOK
  <2> QED
    BY <2>1, ZenonT(20) DEF Requests
<1>3. req' = [req EXCEPT ![id] = [req[id] EXCEPT !.aborted = TRUE]]
  BY <1>1 DEF CancelSend, TypeOK
<1>4. req' \in [Ids -> Requests]
  BY <1>1, <1>2, <1>3 DEF TypeOK
<1>5. reserved' \subseteq Coins
  BY DEF CancelSend, TypeOK
<1> QED
  BY <1>4, <1>5 DEF CancelSend, TypeOK, clockVars, handledVars

\* A plain payment or a stake keeps the types.
LEMMA SpendType ==
    ASSUME TypeOK, NEW n \in Nodes, NEW c \in Coins, SpendCoin(n, c)
    PROVE  TypeOK'
<1>1. [root |-> 0, ins |-> {c}] \in Txs
  BY ConstantsAssumption DEF Txs, Roots
<1>2. pool' \in [Nodes -> SUBSET Txs]
  BY <1>1, ZenonT(20) DEF SpendCoin, TypeOK
<1> QED
  BY <1>2 DEF SpendCoin, TypeOK, clockVars, handledVars

\* Taking a relayed transaction keeps the types.
LEMMA ReceiveType ==
    ASSUME TypeOK, NEW n \in Nodes, NEW k \in Nodes, NEW t \in pool[k],
           ReceiveTx(n, t)
    PROVE  TypeOK'
<1>1. pool' \in [Nodes -> SUBSET Txs]
  BY DEF ReceiveTx, TypeOK
<1> QED
  BY <1>1 DEF ReceiveTx, TypeOK, clockVars, handledVars

\* Each handler of a cloaker keeps the types.
LEMMA RequestType ==
    ASSUME TypeOK, NEW n \in Nodes, NEW m \in net, HandleRequest(n, m)
    PROVE  TypeOK'
<1>1. m \in Messages /\ m.type = "request" /\ m.id \in Ids
  BY DEF HandleRequest, TypeOK, Messages
<1>2. sRequestHashes' \in [Nodes -> SUBSET Ids]
  <2>1. RememberRequest(n, m.id) \/ UNCHANGED sRequestHashes
    BY DEF HandleRequest, AcceptRequest, DeclineRequest
  <2>2. CASE RememberRequest(n, m.id)
    <3>1. sRequestHashes[n] \cup {m.id} \in SUBSET Ids
      BY <1>1 DEF TypeOK
    <3> QED
      BY <2>2, <3>1 DEF RememberRequest, TypeOK
  <2>3. CASE UNCHANGED sRequestHashes
    BY <2>3 DEF TypeOK
  <2> QED
    BY <2>1, <2>2, <2>3
<1>3. CASE \E C \in SUBSET AvailableCoins(n) : AcceptRequest(n, m, C)
  <2>1. PICK C \in SUBSET AvailableCoins(n) : AcceptRequest(n, m, C)
    BY <1>3
  <2>2. C \in SUBSET Coins
    BY ZenonT(60), AvailableCoinsType
  <2>3. inOuts' \in [Nodes -> [Ids -> SUBSET Coins]]
    BY ZenonT(60), <1>1, <2>1, <2>2 DEF AcceptRequest, TypeOK
  <2>4. cloak' \in [Nodes -> [Ids -> {"none", "live", "aborted"}]]
    BY ZenonT(60), <1>1, <2>1 DEF AcceptRequest, TypeOK
  <2>5. [type |-> "accept", id |-> m.id, from |-> n, ins |-> C] \in Messages
    BY <1>1, <2>2 DEF Messages
  <2>6. net' \subseteq Messages /\ reserved' \subseteq Coins
    BY ZenonT(60), <2>1, <2>2, <2>5 DEF AcceptRequest, TypeOK
  <2> QED
    BY <1>2, <2>3, <2>4, <2>6 DEF HandleRequest, TypeOK, clockVars
<1>4. CASE DeclineRequest(n, m)
  BY <1>2, <1>4 DEF DeclineRequest, HandleRequest, TypeOK, clockVars
<1> QED
  BY ZenonT(60), <1>3, <1>4 DEF HandleRequest

\* Signing, or refusing to sign, a joint transaction keeps the types.
LEMMA SignRequestType ==
    ASSUME TypeOK, NEW n \in Nodes, NEW m \in net, HandleSignRequest(n, m)
    PROVE  TypeOK'
<1>1. m \in Messages /\ m.type = "sign" /\ m.id \in Ids /\ m.tx \in Txs
  BY ZenonT(60) DEF HandleSignRequest, TypeOK, Messages
<1>2. sSignRequestHashes' \in [Nodes -> SUBSET Ids]
  BY ZenonT(60), <1>1 DEF HandleSignRequest, TypeOK
<1>3. CASE SignJointTx(n, m)
  <2>1. inOuts[n][m.id] \in SUBSET Coins
    BY <1>1 DEF TypeOK
  <2>2. lockedUntil' \in [Nodes -> [Ids -> Nat]]
    BY <1>1, <1>3, ConstantsAssumption DEF SignJointTx, TypeOK
  <2>3. signatures' \subseteq Coins \X Txs
    BY SMTT(60), <1>1, <1>3, <2>1 DEF SignJointTx, TypeOK
  <2>4. [type |-> "signed", id |-> m.id, from |-> n, tx |-> m.tx,
         ins |-> inOuts[n][m.id]] \in Messages
    BY ZenonT(60), <1>1, <2>1 DEF Messages
  <2>5. net' \subseteq Messages
    BY ZenonT(60), <1>3, <2>4 DEF SignJointTx, TypeOK
  <2> QED
    BY <1>2, <2>2, <2>3, <2>5 DEF HandleSignRequest, TypeOK, clockVars
<1>4. CASE RefuseToSign(m)
  BY ZenonT(60), <1>2, <1>4 DEF RefuseToSign, HandleSignRequest, TypeOK, clockVars
<1> QED
  BY ZenonT(60), <1>3, <1>4 DEF HandleSignRequest

\* The answer that the request is full keeps the types.
LEMMA RejectedType ==
    ASSUME TypeOK, NEW n \in Nodes, NEW m \in net,
           HandleAcceptResponseFromSender(n, m)
    PROVE  TypeOK'
<1>1. m.id \in Ids
  BY DEF HandleAcceptResponseFromSender, TypeOK, Messages
<1>2. cloak' \in [Nodes -> [Ids -> {"none", "live", "aborted"}]]
  <2>1. CASE cloak[n][m.id] = "none"
    BY <2>1 DEF HandleAcceptResponseFromSender, TypeOK
  <2>2. CASE cloak[n][m.id] # "none"
    <3>1. cloak' = [cloak EXCEPT ![n][m.id] = "aborted"]
      BY ZenonT(60), <2>2 DEF HandleAcceptResponseFromSender
    <3> QED
      BY <1>1, <3>1 DEF TypeOK
  <2> QED
    BY ZenonT(60), <2>1, <2>2
<1>3. reserved' \subseteq Coins /\ net' \subseteq Messages
  BY DEF HandleAcceptResponseFromSender, TypeOK
<1> QED
  BY ZenonT(60), <1>2, <1>3
  DEF HandleAcceptResponseFromSender, TypeOK, clockVars, handledVars

\* Each handler of the sender keeps the types.
LEMMA AcceptType ==
    ASSUME TypeOK, NEW n \in Nodes, NEW m \in net, HandleCloakingAccept(n, m)
    PROVE  TypeOK'
<1>1. m \in Messages /\ m.id \in Ids /\ m.from \in Nodes /\ m.ins \in SUBSET Coins
  BY DEF HandleCloakingAccept, TypeOK, Messages
<1>2. req[m.id] \in Requests
  BY <1>1 DEF TypeOK
<1> DEFINE parts == req[m.id].sParticipants \cup {[from |-> m.from, ins |-> m.ins]}
           tx == JointTx(n, m.id, parts)
<1>3. parts \in SUBSET Participants
  BY <1>1, <1>2 DEF Requests, Participants
<1>4. tx \in Txs
  BY <1>1, <1>3, JointTxType
<1>5. req' \in [Ids -> Requests] /\ net' \subseteq Messages
  <2>1. CASE m.id \notin ours
    BY <2>1 DEF HandleCloakingAccept, TypeOK
  <2>2. CASE m.id \in ours /\ AddParticipant(n, m)
    <3>1. /\ [req[m.id] EXCEPT !.sParticipants = parts, !.txCreated = TRUE,
                               !.tx = tx, !.sigs = {}] \in Requests
          /\ [req[m.id] EXCEPT !.sParticipants = parts,
                               !.txCreated = TRUE] \in Requests
      BY <1>2, <1>3, <1>4, ZenonT(20) DEF Requests
    <3>2. [req[m.id] EXCEPT !.sParticipants = parts] \in Requests
      BY ZenonT(60), <1>2, <1>3 DEF Requests
    <3>3. SignMsgs(m.id, parts, tx) \subseteq Messages
      <4>1. req[m.id].aborted \in BOOLEAN
        BY ZenonT(60), <1>2 DEF Requests
      <4>2. \A p \in parts : p.from \in Nodes
        BY <1>3 DEF Participants
      <4> QED
        BY <1>1, <1>4, <4>1, <4>2 DEF SignMsgs, Messages
    <3>4. req \in [Ids -> Requests] /\ net \subseteq Messages
      BY DEF TypeOK
    <3> QED
      BY <1>1, <2>2, <3>1, <3>2, <3>3, <3>4, ZenonT(20) DEF AddParticipant
  <2>3. CASE RejectParticipant(m)
    <3>1. [type |-> "rejected", id |-> m.id, to |-> m.from] \in Messages
      BY <1>1 DEF Messages
    <3> QED
      BY <2>3, <3>1 DEF RejectParticipant, TypeOK
  <2> QED
    BY <2>1, <2>2, <2>3 DEF HandleCloakingAccept
<1> QED
  BY <1>5 DEF HandleCloakingAccept, TypeOK, clockVars, handledVars

\* AddSignedInputsToTx returns a request, with the same transaction.
LEMMA AddSignedType ==
    ASSUME NEW r \in Requests, NEW m,
           m.from \in Nodes, m.ins \in SUBSET Coins
    PROVE  /\ AddSignedInputsToTx(r, m) \in Requests
           /\ AddSignedInputsToTx(r, m).tx = r.tx
BY ZenonT(60) DEF AddSignedInputsToTx, Requests

\* Merging the signatures of a cloaker keeps the types.
LEMMA SignResponseType ==
    ASSUME TypeOK, NEW n \in Nodes, NEW m \in net, HandleSignResponse(n, m)
    PROVE  TypeOK'
<1>1. m.id \in Ids /\ m.from \in Nodes /\ m.ins \in SUBSET Coins
  BY ZenonT(20) DEF HandleSignResponse, TypeOK, Messages
<1> DEFINE r == AddSignedInputsToTx(req[m.id], m)
<1>2. r \in Requests
  <2>1. req[m.id] \in Requests
    BY ZenonT(60), <1>1 DEF TypeOK
  <2> QED
    BY ZenonT(60), <1>1, <2>1, AddSignedType
<1> DEFINE job == [id |-> m.id, tx |-> r.tx, sigs |-> r.sigs]
<1>3. job \in SignJobs
  BY ZenonT(60), <1>1, <1>2 DEF SignJobs, Requests
<1> HIDE DEF r
<1>4. req' = req \/ req' = [req EXCEPT ![m.id] = r]
  BY ZenonT(60) DEF HandleSignResponse, r
<1>5. signing' = signing \/ signing' = [signing EXCEPT ![n] = {job}]
  BY DEF HandleSignResponse, r
<1> HIDE DEF job
<1>6. req' \in [Ids -> Requests]
  BY <1>2, <1>4, ZenonT(60) DEF TypeOK
<1>7. signing' \in [Nodes -> SUBSET SignJobs]
  <2>1. signing \in [Nodes -> SUBSET SignJobs]
    BY Zenon DEF TypeOK
  <2> QED BY SMTT(60), <1>3, <1>5, <2>1
<1>8. sSignResponses' \in [Nodes -> SUBSET (Ids \X Nodes)] /\ net' \subseteq Messages
  BY <1>1 DEF HandleSignResponse, TypeOK
<1> QED
  BY <1>6, <1>7, <1>8 DEF HandleSignResponse, TypeOK, clockVars

\* The sender signing and submitting keeps the types.
LEMMA FinishType ==
    ASSUME TypeOK, NEW n \in Nodes, NEW job \in signing[n], FinishSigning(n, job)
    PROVE  TypeOK'
<1>1. job.id \in Ids /\ job.tx \in Txs /\ job.sigs \in SUBSET Coins
  BY DEF TypeOK, SignJobs
<1>2. signing' \in [Nodes -> SUBSET SignJobs]
  BY ZenonT(60) DEF FinishSigning, TypeOK
<1>3. CASE SubmitJointTx(n, job)
  <2> DEFINE mine == inOuts[n][job.id]
             accepted == AcceptToMemoryPool(n, job.tx, job.sigs \cup mine)
             r == [req[job.id] EXCEPT !.processed = TRUE, !.signedBy = @ \cup {n},
                               !.tx = job.tx, !.sigs = job.sigs \cup mine,
                               !.expired = FALSE,
                               !.completed = @ \/ accepted]
  <2>1. mine \in SUBSET Coins
    BY <1>1 DEF TypeOK
  <2>2. r \in Requests
    <3>1. req[job.id] \in Requests
      BY <1>1 DEF TypeOK
    <3>2. (req[job.id].completed \/ accepted) \in BOOLEAN
      BY Zenon
    <3> QED
      BY <1>1, <2>1, <3>1, <3>2, ZenonT(60) DEF Requests
  <2>3. req' = req \/ req' = [req EXCEPT ![job.id] = r]
    BY <1>3 DEF SubmitJointTx
  <2> HIDE DEF r
  <2>4. req' \in [Ids -> Requests]
    BY <2>2, <2>3, ZenonT(60) DEF TypeOK
  <2>5. pool' \in [Nodes -> SUBSET Txs]
    BY <1>1, <1>3 DEF SubmitJointTx, TypeOK
  <2>6. signatures' \subseteq Coins \X Txs
    BY <1>1, <1>3, <2>1 DEF SubmitJointTx, TypeOK
  <2> QED
    BY ZenonT(60), <1>2, <2>4, <2>5, <2>6 DEF FinishSigning, TypeOK, clockVars, handledVars
<1>4. CASE SignFails
  BY <1>2, <1>4 DEF SignFails, FinishSigning, TypeOK, clockVars, handledVars
<1> QED
  BY ZenonT(60), <1>3, <1>4 DEF FinishSigning

\* Each step of ThreadEnigma2, and of time, keeps the types.
LEMMA ExpireType ==
    ASSUME TypeOK, NEW n \in Nodes, ExpireOldEnigma(n)
    PROVE  TypeOK'
<1>1. todo' \in [Nodes -> SUBSET Ids]
  BY DEF ExpireOldEnigma, TypeOK
<1> QED
  BY ZenonT(60), <1>1 DEF ExpireOldEnigma, TypeOK, clockVars, handledVars

\* Moving a request to a new id keeps the types: ShouldRetry bounds
\* retryCount.
LEMMA RetryType ==
    ASSUME TypeOK, NEW n \in Nodes, NEW id \in todo[n], RetryRequest(n, id)
    PROVE  TypeOK'
<1> DEFINE new == <<n, sec>>
           r == [req[id] EXCEPT !.aborted = FALSE, !.signedBy = {},
                                !.sParticipants = {}, !.expired = FALSE,
                                !.retryCount = @ + 1]
<1>1. id \in Ids /\ new \in Ids
  BY IdType DEF TypeOK
<1>2. r \in Requests
  <2>1. req[id] \in Requests
    BY <1>1 DEF TypeOK
  <2>2. req[id].retryCount + 1 \in 0..MaxRetries
    BY <2>1, ConstantsAssumption DEF RetryRequest, ShouldRetry, Requests
  <2> QED
    BY <2>1, <2>2, ZenonT(20) DEF Requests
<1>3. NewRequest(0) \in Requests
  BY NewRequestType, ConstantsAssumption DEF Roots
<1>4. req' \in [Ids -> Requests]
  <2>1. req' = [req EXCEPT ![id] = NewRequest(0), ![new] = r]
    BY DEF RetryRequest
  <2> HIDE DEF r, new
  <2> QED
    BY <1>1, <1>2, <1>3, <2>1, ZenonT(20) DEF TypeOK
<1>5. inOuts' \in [Nodes -> [Ids -> SUBSET Coins]]
  <2> DEFINE f == [inOuts[n] EXCEPT ![id] = {}, ![new] = inOuts[n][id]]
  <2>1. inOuts[n] \in [Ids -> SUBSET Coins] /\ inOuts[n][id] \in SUBSET Coins
    BY <1>1, SMTT(60) DEF TypeOK
  <2>2. f \in [Ids -> SUBSET Coins]
    BY <1>1, <2>1
  <2>3. inOuts' = [inOuts EXCEPT ![n] = f]
    BY DEF RetryRequest
  <2> HIDE DEF f
  <2> QED
    BY ZenonT(60), <2>2, <2>3 DEF TypeOK
<1>6. net' \subseteq Messages
  BY <1>1, RequestMsgsType DEF RetryRequest, TypeOK
<1>7. ours' \subseteq Ids /\ todo' \in [Nodes -> SUBSET Ids]
  BY <1>1, ZenonT(60) DEF RetryRequest, TypeOK
<1> QED
  BY <1>4, <1>5, <1>6, <1>7, ZenonT(60) DEF RetryRequest, TypeOK, handledVars

\* Giving up an expired request keeps the types.
LEMMA AbortType ==
    ASSUME TypeOK, NEW n \in Nodes, NEW id \in todo[n], AbortRequest(n, id)
    PROVE  TypeOK'
<1>1. todo' \in [Nodes -> SUBSET Ids] /\ reserved' \subseteq Coins
  BY ZenonT(60) DEF AbortRequest, TypeOK
<1> QED
  BY ZenonT(60), <1>1 DEF AbortRequest, TypeOK, clockVars, handledVars

\* Giving up requests of others keeps the types.
LEMMA AbortStoredType ==
    ASSUME TypeOK, NEW n \in Nodes, AbortStored(n)
    PROVE  TypeOK'
<1>1. cloak' \in [Nodes -> [Ids -> {"none", "live", "aborted"}]]
  BY ZenonT(60) DEF AbortStored, TypeOK
<1>2. reserved' \subseteq Coins
  BY DEF AbortStored, TypeOK
<1> QED
  BY ZenonT(60), <1>1, <1>2 DEF AbortStored, TypeOK, clockVars, handledVars

\* The passing of time keeps the types.
LEMMA TimeType ==
    ASSUME TypeOK, Time
    PROVE  TypeOK'
<1>1. CASE NextSecond
  <2>1. sec' \in Secs
    BY SMTT(60), <1>1, ConstantsAssumption DEF NextSecond, TypeOK, Secs
  <2> QED
    BY <1>1, <2>1, ZenonT(60) DEF NextSecond, TypeOK, handledVars
<1>2. CASE NewBlock
  <2>1. height' \in 0..MaxHeight
    BY <1>2, ConstantsAssumption DEF NewBlock, TypeOK
  <2> QED
    BY ZenonT(60), <1>2, <2>1 DEF NewBlock, TypeOK, handledVars
<1>3. ASSUME NEW id \in ours, TimeOut(id)
      PROVE  TypeOK'
  <2>1. id \in Ids /\ req[id] \in Requests
    BY DEF TypeOK
  <2>2. [req[id] EXCEPT !.expired = TRUE] \in Requests
    BY <2>1, ZenonT(20) DEF Requests
  <2>3. req' = [req EXCEPT ![id] = [req[id] EXCEPT !.expired = TRUE]]
    BY <1>3 DEF TimeOut
  <2>4. req' \in [Ids -> Requests]
    BY <2>1, <2>2, <2>3 DEF TypeOK
  <2>5. timedOut' \subseteq Ids
    BY <1>3, <2>1 DEF TimeOut, TypeOK
  <2> QED
    BY ZenonT(60), <1>3, <2>4, <2>5 DEF TimeOut, TypeOK, handledVars
<1> QED
  BY <1>1, <1>2, <1>3 DEF Time

\* Every step keeps the types.
LEMMA StepTypeOK == TypeOK /\ [Next]_vars => TypeOK'
<1> SUFFICES ASSUME TypeOK, [Next]_vars PROVE TypeOK'
  OBVIOUS
<1>1. ASSUME NEW n \in Nodes, User(n) PROVE TypeOK'
  BY <1>1, SendType, CancelType, SpendType, ZenonT(60) DEF User
<1>2. ASSUME NEW n \in Nodes, MessageThread(n) PROVE TypeOK'
  BY ZenonT(60), <1>2, RequestType, SignRequestType, RejectedType, AcceptType,
     SignResponseType, ReceiveType, FinishType DEF MessageThread
<1>3. ASSUME NEW n \in Nodes, EnigmaThread(n) PROVE TypeOK'
  BY <1>3, ExpireType, RetryType, AbortType, AbortStoredType DEF EnigmaThread
<1>4. CASE Time
  BY <1>4, TimeType, ZenonT(60)
<1>5. CASE UNCHANGED vars
  BY <1>5 DEF vars, TypeOK
<1> QED
  BY <1>1, <1>2, <1>3, <1>4, <1>5 DEF Next

\* Type correctness of the protocol; retryCount never passes
\* ENIGMA_MAX_RETRIES.
THEOREM TypeCorrect == Spec => []TypeOK
BY InitTypeOK, StepTypeOK, PTL DEF Spec


-----------------------------------------------------------------------------
\* Offers.

\* No step takes an offer back: a cloaker keeps the inputs it stored for a
\* request and its copy of the request, aborted or not.
LEMMA OfferedStable ==
    ASSUME TypeOK, OffersAgree, [Next]_vars,
           NEW n \in Nodes, NEW id \in Ids, NEW C, Offered(n, id, C)
    PROVE  Offered(n, id, C)'
<1> SUFFICES /\ cloak'[n][id] # "none"
             /\ inOuts'[n][id] = inOuts[n][id]
  BY ZenonT(60) DEF Offered
<1> USE DEF Offered
<1>1. CASE UNCHANGED <<cloak, inOuts>>
  BY ZenonT(60), <1>1
<1>2. ASSUME NEW k \in Nodes, NEW D \in SUBSET AvailableCoins(k),
             SendCloaked(k, D)
      PROVE  cloak'[n][id] # "none" /\ inOuts'[n][id] = inOuts[n][id]
  <2>1. cloak' = cloak
    BY SMTT(60), <1>2 DEF SendCloaked, SendEnigma
  <2>2. inOuts' = inOuts \/ inOuts' = [inOuts EXCEPT ![k][<<k, sec>>] = D]
    BY ZenonT(60), <1>2 DEF SendCloaked, SendEnigma
  <2>3. (k # n \/ id # <<k, sec>>) /\ <<k, sec>> \in Ids
    BY SMTT(60), IdType DEF TypeOK
  <2>4. inOuts \in [Nodes -> [Ids -> SUBSET Coins]]
    BY ZenonT(60) DEF TypeOK
  <2> QED
    BY SMTT(60), <2>1, <2>2, <2>3, <2>4, NestedExcept
<1>3. ASSUME NEW k \in Nodes, NEW m \in net, HandleRequest(k, m)
      PROVE  cloak'[n][id] # "none" /\ inOuts'[n][id] = inOuts[n][id]
  <2>1. CASE UNCHANGED <<cloak, inOuts>>
    BY ZenonT(60), <2>1
  <2>2. ASSUME NEW D, ~AlreadyHandled(k, m.id), AcceptRequest(k, m, D)
        PROVE  cloak'[n][id] # "none" /\ inOuts'[n][id] = inOuts[n][id]
    <3>1. /\ cloak' = [cloak EXCEPT ![k][m.id] = "live"]
          /\ inOuts' = [inOuts EXCEPT ![k][m.id] = D]
      BY ZenonT(60), <2>2 DEF AcceptRequest
    <3>2. k # n \/ id # m.id
      BY ZenonT(60), <2>2 DEF AlreadyHandled
    <3> QED
      BY ZenonT(60), <3>1, <3>2 DEF TypeOK
  <2> QED
    BY <1>3, <2>1, <2>2 DEF HandleRequest, DeclineRequest
<1>4. ASSUME NEW k \in Nodes, NEW m \in net, HandleAcceptResponseFromSender(k, m)
      PROVE  cloak'[n][id] # "none" /\ inOuts'[n][id] = inOuts[n][id]
  <2>1. inOuts' = inOuts
    BY SMTT(60), <1>4 DEF HandleAcceptResponseFromSender
  <2>2. cloak' = cloak \/ cloak' = [cloak EXCEPT ![k][m.id] = "aborted"]
    BY ZenonT(60), <1>4 DEF HandleAcceptResponseFromSender
  <2>3. m.id \in Ids
    BY ZenonT(60), <1>4 DEF HandleAcceptResponseFromSender, TypeOK, Messages
  <2>4. cloak \in [Nodes -> [Ids -> {"none", "live", "aborted"}]]
    BY ZenonT(60) DEF TypeOK
  <2> QED
    BY SMTT(60), <2>1, <2>2, <2>3, <2>4, NestedExcept
<1>5. ASSUME NEW k \in Nodes, NEW i \in todo[k], RetryRequest(k, i)
      PROVE  cloak'[n][id] # "none" /\ inOuts'[n][id] = inOuts[n][id]
  <2>1. cloak' = cloak
    BY <1>5 DEF RetryRequest
  <2>2. inOuts' = [inOuts EXCEPT ![k] =
                    [inOuts[k] EXCEPT ![i] = {}, ![<<k, sec>>] = inOuts[k][i]]]
    BY SMTT(60), <1>5 DEF RetryRequest
  <2>3. k # n \/ (id # i /\ id # <<k, sec>>)
    <3>1. i[1] = k
      BY ZenonT(60) DEF OffersAgree
    <3>2. <<k, sec>>[1] = k
      BY Zenon
    <3>3. n # id[1]
      BY ZenonT(60) DEF Offered
    <3> QED
      BY ZenonT(60), <3>1, <3>2, <3>3
  <2> QED
    BY <2>1, <2>2, <2>3 DEF TypeOK
<1>6. ASSUME NEW k \in Nodes, AbortStored(k)
      PROVE  cloak'[n][id] # "none" /\ inOuts'[n][id] = inOuts[n][id]
  <2>1. inOuts' = inOuts
    BY ZenonT(60), <1>6 DEF AbortStored
  <2>2. cloak'[n][id] = cloak[n][id] \/ cloak'[n][id] = "aborted"
    BY <1>6 DEF AbortStored, TypeOK
  <2> QED
    BY SMTT(60), <2>1, <2>2
<1> QED
  <2>1. ASSUME NEW k \in Nodes, User(k) \/ MessageThread(k) \/ EnigmaThread(k)
        PROVE  cloak'[n][id] # "none" /\ inOuts'[n][id] = inOuts[n][id]
    BY <1>1, <1>2, <1>3, <1>4, <1>5, <1>6, <2>1, ZenonT(60)
    DEF User, MessageThread, EnigmaThread, CancelSend, SpendCoin, ReceiveTx,
        HandleSignRequest, HandleCloakingAccept, HandleSignResponse,
        FinishSigning, ExpireOldEnigma, AbortRequest
  <2>2. CASE Time
    BY ZenonT(60), <1>1, <2>2 DEF Time, NextSecond, NewBlock, TimeOut
  <2>3. CASE UNCHANGED vars
    BY ZenonT(60), <1>1, <2>3 DEF vars
  <2> QED
    BY <2>1, <2>2, <2>3 DEF Next

\* A message that agrees with the stored offers goes on doing so.
LEMMA MessageAgreesStable ==
    ASSUME TypeOK, OffersAgree, [Next]_vars,
           NEW m \in Messages, MessageAgrees(m)
    PROVE  MessageAgrees(m)'
<1>1. CASE m.type = "accept"
  <2>1. m.from \in Nodes /\ m.id \in Ids
    BY <1>1 DEF Messages
  <2>2. Offered(m.from, m.id, m.ins)
    BY <1>1 DEF MessageAgrees
  <2>3. Offered(m.from, m.id, m.ins)'
    BY ZenonT(60), <2>1, <2>2, OfferedStable
  <2> QED
    BY <1>1, <2>3 DEF MessageAgrees
<1>2. CASE m.type = "sign"
  <2>1. m.to \in Nodes /\ m.id \in Ids
    BY ZenonT(60), <1>2 DEF Messages
  <2>2. PICK C \in SUBSET m.tx.ins : Offered(m.to, m.id, C)
    BY SMTT(60), <1>2 DEF MessageAgrees
  <2>3. Offered(m.to, m.id, C)'
    BY ZenonT(60), <2>1, <2>2, OfferedStable
  <2> QED
    BY ZenonT(60), <1>2, <2>3 DEF MessageAgrees
<1>3. CASE m.type \notin {"accept", "sign"}
  BY ZenonT(60), <1>3 DEF MessageAgrees
<1> QED
  BY ZenonT(60), <1>1, <1>2, <1>3

\* Whatever participants a request has after a step were offered before it.
LEMMA ParticipantsOffered ==
    ASSUME TypeOK, OffersAgree, [Next]_vars,
           NEW id \in Ids, NEW p \in req'[id].sParticipants
    PROVE  Offered(p.from, id, p.ins)
<1>1. ASSUME p \in req[id].sParticipants
      PROVE  Offered(p.from, id, p.ins)
  BY <1>1 DEF OffersAgree
<1>2. CASE UNCHANGED req
  BY ZenonT(60), <1>1, <1>2
<1>3. ASSUME NEW n \in Nodes, User(n)
      PROVE  Offered(p.from, id, p.ins)
  <2>1. ASSUME NEW C \in SUBSET AvailableCoins(n), SendCloaked(n, C)
        PROVE  Offered(p.from, id, p.ins)
    <3>1. NewRequest(nSends + 1).sParticipants = {}
      BY DEF NewRequest
    <3> QED
      BY ZenonT(60), <1>1, <2>1, <3>1 DEF SendCloaked, SendEnigma, TypeOK
  <2>2. ASSUME NEW i \in ours, CancelSend(n, i)
        PROVE  Offered(p.from, id, p.ins)
    BY <1>1, <2>2 DEF CancelSend, TypeOK, Requests
  <2> QED
    BY ZenonT(60), <1>2, <1>3, <2>1, <2>2 DEF User, SpendCoin
<1>4. ASSUME NEW n \in Nodes, NEW m \in net, HandleCloakingAccept(n, m)
      PROVE  Offered(p.from, id, p.ins)
  <2>1. m \in Messages /\ m.id \in Ids /\ m.type = "accept"
    BY ZenonT(60), <1>4 DEF HandleCloakingAccept, TypeOK, Messages
  <2>2. Offered(m.from, m.id, m.ins)
    BY ZenonT(60), <2>1 DEF OffersAgree, MessageAgrees
  <2>3. CASE AddParticipant(n, m)
    <3> DEFINE q == [from |-> m.from, ins |-> m.ins]
               parts == req[m.id].sParticipants \cup {q}
               r1 == [req[m.id] EXCEPT !.sParticipants = parts,
                        !.txCreated = TRUE, !.tx = JointTx(n, m.id, parts),
                        !.sigs = {}]
               r2 == [req[m.id] EXCEPT !.sParticipants = parts,
                        !.txCreated = TRUE]
               r3 == [req[m.id] EXCEPT !.sParticipants = parts]
    <3>1. req[m.id] \in Requests
      BY <2>1 DEF TypeOK
    <3>2. /\ r1.sParticipants = parts
          /\ r2.sParticipants = parts
          /\ r3.sParticipants = parts
      BY <3>1 DEF Requests
    <3>4. \/ req' = [req EXCEPT ![m.id] = r1]
          \/ req' = [req EXCEPT ![m.id] = r2]
          \/ req' = [req EXCEPT ![m.id] = r3]
      BY ZenonT(60), <2>3 DEF AddParticipant
    <3> HIDE DEF r1, r2, r3
    <3>3. p \in req[id].sParticipants \/ (id = m.id /\ p = q)
      BY SMTT(60), <2>1, <3>2, <3>4 DEF TypeOK
    <3> QED
      BY SMTT(60), <1>1, <2>2, <3>3
  <2>4. CASE UNCHANGED req
    BY <1>2, <2>4
  <2> QED
    BY <1>4, <2>3, <2>4 DEF HandleCloakingAccept, RejectParticipant
<1>5. ASSUME NEW n \in Nodes, NEW m \in net, HandleSignResponse(n, m)
      PROVE  Offered(p.from, id, p.ins)
  <2>1. m.id \in Ids /\ req[m.id] \in Requests
    BY <1>5 DEF HandleSignResponse, TypeOK, Messages
  <2>2. AddSignedInputsToTx(req[m.id], m).sParticipants = req[m.id].sParticipants
    BY SMTT(60), <2>1 DEF AddSignedInputsToTx, Requests
  <2>3. req' = req \/ req' = [req EXCEPT ![m.id] = AddSignedInputsToTx(req[m.id], m)]
    BY ZenonT(60), <1>5 DEF HandleSignResponse
  <2> QED
    BY <1>1, <2>1, <2>2, <2>3, ZenonT(60) DEF TypeOK
<1>6. ASSUME NEW n \in Nodes, NEW job \in signing[n], FinishSigning(n, job)
      PROVE  Offered(p.from, id, p.ins)
  <2>1. job.id \in Ids /\ req[job.id] \in Requests
    BY DEF TypeOK, SignJobs
  <2> DEFINE mine == inOuts[n][job.id]
             accepted == AcceptToMemoryPool(n, job.tx, job.sigs \cup mine)
             r == [req[job.id] EXCEPT !.processed = TRUE, !.signedBy = @ \cup {n},
                               !.tx = job.tx, !.sigs = job.sigs \cup mine,
                               !.expired = FALSE,
                               !.completed = @ \/ accepted]
  <2>2. r.sParticipants = req[job.id].sParticipants
    BY <2>1 DEF Requests
  <2>3. req' = req \/ req' = [req EXCEPT ![job.id] = r]
    BY <1>6 DEF FinishSigning, SubmitJointTx, SignFails
  <2> HIDE DEF r
  <2> QED
    BY ZenonT(60), <1>1, <2>1, <2>2, <2>3 DEF TypeOK
<1>7. ASSUME NEW n \in Nodes, NEW i \in todo[n], RetryRequest(n, i)
      PROVE  Offered(p.from, id, p.ins)
  <2>1. i \in Ids /\ <<n, sec>> \in Ids /\ req[i] \in Requests
    BY ZenonT(60), IdType DEF TypeOK
  <2>2. NewRequest(0).sParticipants = {}
    BY DEF NewRequest
  <2> QED
    BY <1>1, <1>7, <2>1, <2>2, ZenonT(60) DEF RetryRequest, TypeOK, Requests
<1>8. ASSUME NEW i \in ours, TimeOut(i)
      PROVE  Offered(p.from, id, p.ins)
  BY SMTT(60), <1>1, <1>8 DEF TimeOut, TypeOK, Requests
<1> QED
  <2>1. ASSUME NEW n \in Nodes, MessageThread(n) \/ EnigmaThread(n)
        PROVE  Offered(p.from, id, p.ins)
    BY <1>2, <1>4, <1>5, <1>6, <1>7, <2>1, ZenonT(60)
    DEF MessageThread, EnigmaThread, HandleRequest, HandleSignRequest,
        HandleAcceptResponseFromSender, ReceiveTx, ExpireOldEnigma,
        AbortRequest, AbortStored
  <2>2. CASE Time
    BY ZenonT(60), <1>2, <1>8, <2>2 DEF Time, NextSecond, NewBlock
  <2> QED
    BY <1>2, <1>3, <2>1, <2>2, SMTT(30) DEF Next, vars

\* A message that a step sends agrees with the stored offers from the start.
LEMMA NewMessagesAgree ==
    ASSUME TypeOK, TypeOK', OffersAgree, [Next]_vars,
           NEW m \in net', m \notin net
    PROVE  MessageAgrees(m)'
<1>1. CASE net' \subseteq net
  BY ZenonT(60), <1>1
<1>2. ASSUME NEW id \in Ids, m \in RequestMsgs(id)
      PROVE  MessageAgrees(m)'
  BY SMTT(60), <1>2 DEF RequestMsgs, MessageAgrees
<1>3. ASSUME NEW n \in Nodes, NEW k \in net, HandleRequest(n, k)
      PROVE  MessageAgrees(m)'
  <2>1. PICK C \in SUBSET AvailableCoins(n) : AcceptRequest(n, k, C)
    <3>1. ASSUME DeclineRequest(n, k) PROVE FALSE
      BY <1>1, <3>1, SMTT(60) DEF DeclineRequest
    <3> QED
      BY <1>3, <3>1 DEF HandleRequest
  <2>2. k.type = "request" /\ k.to = n /\ k.id \in Ids /\ n # k.id[1]
    BY ZenonT(60), <1>3 DEF HandleRequest, OffersAgree, MessageAgrees, TypeOK, Messages
  <2>3. m = [type |-> "accept", id |-> k.id, from |-> n, ins |-> C]
    BY SMTT(60), <2>1 DEF AcceptRequest
  <2>4. cloak'[n][k.id] = "live" /\ inOuts'[n][k.id] = C /\ C # {}
    <3>1. cloak'[n][k.id] = "live"
      <4>1. cloak' = [cloak EXCEPT ![n][k.id] = "live"]
        BY ZenonT(60), <2>1 DEF AcceptRequest
      <4> QED
        BY ZenonT(60), <2>2, <4>1 DEF TypeOK
    <3>2. inOuts'[n][k.id] = C
      <4>1. inOuts' = [inOuts EXCEPT ![n][k.id] = C]
        BY ZenonT(60), <2>1 DEF AcceptRequest
      <4> QED
        BY ZenonT(60), <2>2, <4>1 DEF TypeOK
    <3> QED
      BY ZenonT(60), <2>1, <3>1, <3>2 DEF AcceptRequest
  <2>5. Offered(n, k.id, C)'
    BY SMTT(60), <2>2, <2>4 DEF Offered
  <2> QED
    BY ZenonT(60), <2>3, <2>5 DEF MessageAgrees
<1>4. ASSUME NEW n \in Nodes, NEW k \in net, HandleSignRequest(n, k)
      PROVE  MessageAgrees(m)'
  <2>1. m.type = "signed"
    BY <1>1, <1>4 DEF HandleSignRequest, RefuseToSign, SignJointTx
  <2> QED
    BY ZenonT(60), <2>1 DEF MessageAgrees
<1>5. ASSUME NEW n \in Nodes, NEW k \in net, HandleCloakingAccept(n, k)
      PROVE  MessageAgrees(m)'
  <2>1. k.id \in Ids /\ req[k.id] \in Requests
    BY ZenonT(60), <1>5 DEF HandleCloakingAccept, TypeOK, Messages
  <2>2. CASE AddParticipant(n, k)
    <3> DEFINE q == [from |-> k.from, ins |-> k.ins]
               parts == req[k.id].sParticipants \cup {q}
               tx == JointTx(n, k.id, parts)
    <3>1. m \in SignMsgs(k.id, parts, tx)
      BY <1>1, <2>2, ZenonT(60) DEF AddParticipant
    <3>2. PICK p \in parts : m = [type |-> "sign", id |-> k.id, to |-> p.from,
                                  tx |-> tx, aborted |-> req[k.id].aborted]
      BY <3>1, ZenonT(60) DEF SignMsgs
    <3>3. p.ins \subseteq tx.ins
      BY ZenonT(60) DEF JointTx
    <3>4. Offered(p.from, k.id, p.ins) /\ p.from \in Nodes
      <4>1. k.type = "accept" /\ k \in Messages
        BY SMTT(60), <1>5 DEF HandleCloakingAccept, TypeOK
      <4>2. Offered(q.from, k.id, q.ins) /\ q.from \in Nodes
        BY ZenonT(60), <4>1 DEF OffersAgree, MessageAgrees, Messages
      <4>3. \A r \in req[k.id].sParticipants :
               Offered(r.from, k.id, r.ins) /\ r.from \in Nodes
        BY ZenonT(60), <2>1 DEF OffersAgree, Requests, Participants
      <4> QED
        BY <4>2, <4>3
    <3>5. Offered(p.from, k.id, p.ins)'
      BY ZenonT(60), <2>1, <3>4, OfferedStable
    <3> HIDE DEF tx
    <3> QED
      BY <3>2, <3>3, <3>5 DEF MessageAgrees
  <2>3. CASE RejectParticipant(k)
    BY SMTT(60), <1>1, <2>3 DEF RejectParticipant, MessageAgrees
  <2> QED
    BY SMTT(60), <1>1, <1>5, <2>2, <2>3 DEF HandleCloakingAccept
<1> QED
  <2>1. ASSUME NEW n \in Nodes, User(n)
        PROVE  MessageAgrees(m)'
    <3>1. <<n, sec>> \in Ids
      BY IdType DEF TypeOK
    <3> QED
      BY <1>1, <1>2, <2>1, <3>1, ZenonT(60)
      DEF User, SendCloaked, SendEnigma, CancelSend, SpendCoin
  <2>2. ASSUME NEW n \in Nodes, MessageThread(n)
        PROVE  MessageAgrees(m)'
    BY <1>1, <1>3, <1>4, <1>5, <2>2, ZenonT(20)
    DEF MessageThread, HandleAcceptResponseFromSender, HandleSignResponse,
        ReceiveTx, FinishSigning
  <2>3. ASSUME NEW n \in Nodes, EnigmaThread(n)
        PROVE  MessageAgrees(m)'
    <3>1. <<n, sec>> \in Ids
      BY IdType DEF TypeOK
    <3> QED
      BY <1>1, <1>2, <2>3, <3>1, ZenonT(20)
      DEF EnigmaThread, ExpireOldEnigma, RetryRequest, AbortRequest, AbortStored
  <2>4. CASE Time
    BY <1>1, <2>4 DEF Time, NextSecond, NewBlock, TimeOut
  <2> QED
    BY <1>1, <2>1, <2>2, <2>3, <2>4 DEF Next, vars

\* Nothing is offered yet when the wallets start.
LEMMA InitOffersAgree == Init => OffersAgree
<1> SUFFICES ASSUME Init PROVE OffersAgree
  OBVIOUS
<1>1. net = {} /\ todo = [n \in Nodes |-> {}] /\ req = [id \in Ids |-> NewRequest(0)]
  BY ZenonT(60) DEF Init
<1>2. NewRequest(0).sParticipants = {}
  BY DEF NewRequest
<1> QED BY ZenonT(60), <1>1, <1>2 DEF OffersAgree

\* A call under way signs a stored request.
LEMMA JobType ==
    ASSUME TypeOK, NEW n \in Nodes, NEW job \in signing[n]
    PROVE  job.id \in Ids /\ req[job.id] \in Requests
<1>1. signing \in [Nodes -> SUBSET SignJobs] /\ req \in [Ids -> Requests]
  BY Zenon DEF TypeOK
<1>2. job \in SignJobs
  BY Zenon, <1>1
<1>3. job.id \in Ids
  BY ZenonT(60), <1>2 DEF SignJobs
<1> QED BY Zenon, <1>1, <1>3

\* Every step keeps the offers in agreement.
LEMMA StepOffersAgree == TypeOK /\ OffersAgree /\ [Next]_vars => OffersAgree'
<1> SUFFICES ASSUME TypeOK, OffersAgree, [Next]_vars PROVE OffersAgree'
  OBVIOUS
<1>1. TypeOK'
  BY StepTypeOK
<1>2. ASSUME NEW m \in net' PROVE MessageAgrees(m)'
  <2>1. m \in Messages
    BY SMTT(60), <1>1 DEF TypeOK
  <2>2. m \in net => MessageAgrees(m)
    BY ZenonT(60) DEF OffersAgree
  <2> QED
    BY ZenonT(60), <1>1, <2>1, <2>2, MessageAgreesStable, NewMessagesAgree
<1>3. ASSUME NEW id \in Ids, NEW p \in req'[id].sParticipants
      PROVE  Offered(p.from, id, p.ins)'
  <2>1. p.from \in Nodes
    BY SMTT(60), <1>1 DEF TypeOK, Requests, Participants
  <2> QED
    BY ZenonT(60), <2>1, ParticipantsOffered, OfferedStable
<1>4. \A n \in Nodes : \A id \in todo'[n] : id[1] = n
  <2>1. ASSUME NEW k \in Nodes, NEW n \in Nodes, NEW id \in todo'[n],
               User(k) \/ MessageThread(k) \/ EnigmaThread(k)
        PROVE  id[1] = n
    <3>1. todo \in [Nodes -> SUBSET Ids]
      BY ZenonT(60) DEF TypeOK
    <3> DEFINE due == {j \in ours : /\ j[1] = k /\ req[j].expired
                                    /\ ~req[j].completed /\ ~req[j].aborted}
    <3>2. CASE id \in todo[n]
      BY <3>2 DEF OffersAgree
    <3>3. CASE UNCHANGED todo
      BY <3>3, <3>2
    <3>4. CASE ExpireOldEnigma(k)
      <4>1. todo' = [todo EXCEPT ![k] = due]
        BY ZenonT(60), <3>4 DEF ExpireOldEnigma
      <4>2. \A j \in due : j[1] = k
        OBVIOUS
      <4> HIDE DEF due
      <4>3. id \in todo[n] \/ (n = k /\ id \in due)
        BY <3>1, <4>1
      <4> QED
        BY ZenonT(60), <3>2, <4>2, <4>3
    <3>5. ASSUME NEW i, todo' = [todo EXCEPT ![k] = @ \ {i}]
          PROVE  id[1] = n
      <4>1. id \in todo[n]
        BY ZenonT(60), <3>1, <3>5
      <4> QED
        BY <3>2, <4>1
    <3> QED
      BY <2>1, <3>3, <3>4, <3>5, ZenonT(60)
      DEF User, MessageThread, EnigmaThread, SendCloaked, SendEnigma, CancelSend,
          SpendCoin,
          HandleRequest, HandleSignRequest, HandleAcceptResponseFromSender,
          HandleCloakingAccept, HandleSignResponse, ReceiveTx, FinishSigning,
          RetryRequest, AbortRequest, AbortStored
  <2>2. CASE UNCHANGED todo
    BY <2>2 DEF OffersAgree
  <2> QED
    <3>1. CASE Time
      BY <2>2, <3>1, SMTT(60) DEF Time, NextSecond, NewBlock, TimeOut
    <3>2. CASE UNCHANGED vars
      BY Zenon, <2>2, <3>2 DEF vars
    <3> QED
      BY <2>1, <3>1, <3>2 DEF Next
<1> QED
  BY <1>2, <1>3, <1>4 DEF OffersAgree

\* What travels and what senders hold always agrees with what cloakers stored.
THEOREM OffersAlwaysAgree == Spec => []OffersAgree
<1>1. Init => TypeOK /\ OffersAgree
  BY InitTypeOK, InitOffersAgree
<1>2. TypeOK /\ OffersAgree /\ [Next]_vars => (TypeOK /\ OffersAgree)'
  BY StepTypeOK, StepOffersAgree
<1> QED
  BY <1>1, <1>2, PTL DEF Spec

\* A cloaker finds its offer in every joint transaction it is asked to sign.
THEOREM OffersStayIntact == Spec => []OffersIntact
<1>1. OffersAgree => OffersIntact
  BY ZenonT(60) DEF OffersAgree, OffersIntact, MessageAgrees, Offered
<1> QED
  BY <1>1, OffersAlwaysAgree, PTL

\* A cloaker fills at most one place of a request.
THEOREM CloakersDistinct == Spec => []DistinctCloakers
<1>1. TypeOK /\ OffersAgree => DistinctCloakers
  <2> SUFFICES ASSUME TypeOK, OffersAgree, NEW id \in ours,
                      NEW p \in req[id].sParticipants,
                      NEW q \in req[id].sParticipants, p.from = q.from
               PROVE  p = q
    BY ZenonT(60) DEF DistinctCloakers
  <2>1. p \in Participants /\ q \in Participants
    BY SMTT(60) DEF TypeOK, Requests
  <2>2. p.ins = q.ins
    <3>1. id \in Ids
      BY SMTT(60) DEF TypeOK
    <3>2. Offered(p.from, id, p.ins) /\ Offered(q.from, id, q.ins)
      BY Zenon, <3>1 DEF OffersAgree
    <3> QED
      BY ZenonT(60), <3>2 DEF Offered
  <2> QED
    BY SMTT(60), <2>1, <2>2 DEF Participants
<1> QED
  BY <1>1, TypeCorrect, OffersAlwaysAgree, PTL

-----------------------------------------------------------------------------
\* Signatures: SignaturesGenuine, with FullySigned, is inductive.

\* A signature once given stays given.
LEMMA SignaturesGrow == [Next]_vars => signatures \subseteq signatures'
<1>1. ASSUME NEW n \in Nodes, MessageThread(n)
      PROVE  signatures \subseteq signatures'
  BY <1>1, ZenonT(60)
  DEF MessageThread, HandleRequest, HandleSignRequest, SignJointTx, RefuseToSign,
      HandleAcceptResponseFromSender, HandleCloakingAccept, HandleSignResponse,
      ReceiveTx, FinishSigning, SubmitJointTx, SignFails
<1>2. ASSUME NEW n \in Nodes, User(n) \/ EnigmaThread(n)
      PROVE  signatures \subseteq signatures'
  BY <1>2, ZenonT(20)
  DEF User, SendCloaked, SendEnigma, CancelSend, SpendCoin, EnigmaThread,
      ExpireOldEnigma,
      RetryRequest, AbortRequest, AbortStored
<1> QED
  BY <1>1, <1>2, SMTT(30) DEF Next, Time, NextSecond, NewBlock, TimeOut, vars

\* The signatures a "signed" message carries were given for its transaction.
LEMMA SentSignaturesGenuine ==
    ASSUME TypeOK, SignaturesGenuine, [Next]_vars,
           NEW m \in net', m.type = "signed", NEW c \in m.ins
    PROVE  <<c, m.tx>> \in signatures'
<1>1. CASE m \in net
  BY <1>1, SignaturesGrow DEF SignaturesGenuine
<1>2. CASE m \notin net
  <2>0. \A i : m \notin RequestMsgs(i)
    BY SMTT(60) DEF RequestMsgs
  <2>1. ASSUME NEW n \in Nodes, NEW k \in net, HandleSignRequest(n, k)
        PROVE  <<c, m.tx>> \in signatures'
    <3>1. SignJointTx(n, k)
      BY ZenonT(60), <1>2, <2>1 DEF HandleSignRequest, RefuseToSign
    <3>2. m.tx = k.tx /\ m.ins = inOuts[n][k.id]
      BY <1>2, <3>1 DEF SignJointTx
    <3> QED
      BY ZenonT(60), <3>1, <3>2 DEF SignJointTx
  <2>2. ASSUME NEW n \in Nodes, NEW k \in net, HandleCloakingAccept(n, k)
        PROVE  FALSE
    <3>1. CASE AddParticipant(n, k)
      BY SMTT(60), <1>2, <3>1 DEF AddParticipant, SignMsgs
    <3>2. CASE RejectParticipant(k)
      BY <1>2, <3>2 DEF RejectParticipant
    <3> QED
      BY <1>2, <2>2, <3>1, <3>2 DEF HandleCloakingAccept
  <2>3. ASSUME NEW n \in Nodes, User(n)
        PROVE  FALSE
    BY <1>2, <2>0, <2>3, ZenonT(20) DEF User, SendCloaked, SendEnigma, CancelSend, SpendCoin
  <2>4. ASSUME NEW n \in Nodes, EnigmaThread(n)
        PROVE  FALSE
    BY <1>2, <2>0, <2>4, ZenonT(20)
    DEF EnigmaThread, ExpireOldEnigma, RetryRequest, AbortRequest, AbortStored
  <2>5. ASSUME NEW n \in Nodes, MessageThread(n)
        PROVE  <<c, m.tx>> \in signatures'
    <3>1. ASSUME NEW k \in net, HandleRequest(n, k)
          PROVE  FALSE
      BY SMTT(60), <1>2, <3>1 DEF HandleRequest, AcceptRequest, DeclineRequest
    <3> QED
      BY <1>2, <2>1, <2>2, <2>5, <3>1, ZenonT(60)
      DEF MessageThread, HandleAcceptResponseFromSender, HandleSignResponse,
          ReceiveTx, FinishSigning
  <2> QED
    BY ZenonT(60), <1>2, <2>3, <2>4, <2>5 DEF Next, Time, NextSecond, NewBlock, TimeOut, vars
<1> QED
  BY SMTT(60), <1>1, <1>2

\* What AddSignedInputsToTx merges was given for the transaction it is merged
\* into.
LEMMA MergedSignaturesGenuine ==
    ASSUME TypeOK, SignaturesGenuine, NEW m \in net, m.type = "signed",
           m.id \in Ids, NEW c \in AddSignedInputsToTx(req[m.id], m).sigs
    PROVE  <<c, AddSignedInputsToTx(req[m.id], m).tx>> \in signatures
<1> DEFINE r == AddSignedInputsToTx(req[m.id], m)
<1>1. req[m.id] \in Requests
  BY DEF TypeOK
<1>2. r.tx = req[m.id].tx
  BY <1>1 DEF AddSignedInputsToTx, Requests
<1>3. c \in req[m.id].sigs \/ (m.tx = req[m.id].tx /\ c \in m.ins)
  BY SMTT(60), <1>1 DEF AddSignedInputsToTx, Requests
<1> QED
  BY ZenonT(60), <1>2, <1>3 DEF SignaturesGenuine

\* The signatures a stored request holds were given for its transaction.
LEMMA StoredSignaturesGenuine ==
    ASSUME TypeOK, SignaturesGenuine, [Next]_vars,
           NEW id \in Ids, NEW c \in req'[id].sigs
    PROVE  <<c, req'[id].tx>> \in signatures'
<1> DEFINE Goal == <<c, req'[id].tx>> \in signatures'
<1>1. ASSUME req'[id].tx = req[id].tx, c \in req[id].sigs
      PROVE  Goal
  BY SMTT(60), <1>1, SignaturesGrow DEF SignaturesGenuine
<1>2. CASE UNCHANGED req
  BY ZenonT(60), <1>1, <1>2
<1>3. ASSUME NEW n \in Nodes, User(n)
      PROVE  Goal
  <2>1. ASSUME NEW C \in SUBSET AvailableCoins(n), SendCloaked(n, C)
        PROVE  Goal
    <3>1. NewRequest(nSends + 1).sigs = {}
      BY DEF NewRequest
    <3> QED
      BY ZenonT(60), <1>1, <2>1, <3>1 DEF SendCloaked, SendEnigma, TypeOK
  <2>2. ASSUME NEW i \in ours, CancelSend(n, i)
        PROVE  Goal
    BY <1>1, <2>2 DEF CancelSend, TypeOK, Requests
  <2> QED
    BY ZenonT(60), <1>2, <1>3, <2>1, <2>2 DEF User, SpendCoin
<1>4. ASSUME NEW n \in Nodes, NEW m \in net, HandleCloakingAccept(n, m)
      PROVE  Goal
  <2>1. m.id \in Ids /\ req[m.id] \in Requests
    BY <1>4 DEF HandleCloakingAccept, TypeOK, Messages
  <2>2. CASE AddParticipant(n, m)
    <3> DEFINE parts == req[m.id].sParticipants
                          \cup {[from |-> m.from, ins |-> m.ins]}
               r1 == [req[m.id] EXCEPT !.sParticipants = parts,
                        !.txCreated = TRUE, !.tx = JointTx(n, m.id, parts),
                        !.sigs = {}]
               r2 == [req[m.id] EXCEPT !.sParticipants = parts,
                        !.txCreated = TRUE]
               r3 == [req[m.id] EXCEPT !.sParticipants = parts]
    <3>1. /\ r1.sigs = {}
          /\ r2.sigs = req[m.id].sigs /\ r2.tx = req[m.id].tx
          /\ r3.sigs = req[m.id].sigs /\ r3.tx = req[m.id].tx
      BY <2>1 DEF Requests
    <3>2. \/ req' = [req EXCEPT ![m.id] = r1]
          \/ req' = [req EXCEPT ![m.id] = r2]
          \/ req' = [req EXCEPT ![m.id] = r3]
      BY ZenonT(60), <2>2 DEF AddParticipant
    <3> HIDE DEF r1, r2, r3
    <3> QED
      BY <1>1, <2>1, <3>1, <3>2, ZenonT(60) DEF TypeOK
  <2> QED
    BY ZenonT(60), <1>2, <1>4, <2>2 DEF HandleCloakingAccept, RejectParticipant
<1>5. ASSUME NEW n \in Nodes, NEW m \in net, HandleSignResponse(n, m)
      PROVE  Goal
  <2> DEFINE r == AddSignedInputsToTx(req[m.id], m)
  <2>1. m.id \in Ids /\ m.type = "signed"
    BY SMTT(60), <1>5 DEF HandleSignResponse, TypeOK, Messages
  <2>2. req' = req \/ req' = [req EXCEPT ![m.id] = r]
    BY ZenonT(60), <1>5 DEF HandleSignResponse
  <2>3. \A d \in r.sigs : <<d, r.tx>> \in signatures
    BY ZenonT(60), <2>1, MergedSignaturesGenuine
  <2> HIDE DEF r
  <2> QED
    <3>1. req'[id] = req[id] \/ (id = m.id /\ req'[id] = r)
      BY ZenonT(60), <2>1, <2>2 DEF TypeOK
    <3>2. CASE req'[id] = req[id]
      BY SMTT(60), <1>1, <3>2
    <3>3. CASE req'[id] = r
      BY ZenonT(60), <2>3, <3>3, SignaturesGrow
    <3> QED
      BY ZenonT(60), <3>1, <3>2, <3>3
<1>6. ASSUME NEW n \in Nodes, NEW job \in signing[n], FinishSigning(n, job)
      PROVE  Goal
  <2>1. job.id \in Ids /\ req[job.id] \in Requests
    BY Zenon, <1>6, JobType
  <2> DEFINE mine == inOuts[n][job.id]
             accepted == AcceptToMemoryPool(n, job.tx, job.sigs \cup mine)
             r == [req[job.id] EXCEPT !.processed = TRUE, !.signedBy = @ \cup {n},
                               !.tx = job.tx, !.sigs = job.sigs \cup mine,
                               !.expired = FALSE,
                               !.completed = @ \/ accepted]
  <2>2. r.sigs = job.sigs \cup mine /\ r.tx = job.tx
    BY <2>1 DEF Requests
  <2>3. \/ req' = req
        \/ /\ req' = [req EXCEPT ![job.id] = r]
           /\ signatures' = signatures \cup {<<d, job.tx>> : d \in mine}
    BY ZenonT(60), <1>6 DEF FinishSigning, SubmitJointTx, SignFails
  <2>4. \A d \in job.sigs : <<d, job.tx>> \in signatures
    BY ZenonT(60) DEF SignaturesGenuine
  <2> HIDE DEF r
  <2>5. CASE req'[id] = req[id]
    BY SMTT(60), <1>1, <2>5
  <2>6. CASE req'[id] # req[id]
    <3>1. req'[id] = r
      BY ZenonT(60), <2>1, <2>3, <2>6 DEF TypeOK
    <3>2. signatures' = signatures \cup {<<d, job.tx>> : d \in mine}
      BY ZenonT(60), <2>3, <2>6
    <3> QED
      BY ZenonT(60), <2>2, <2>4, <3>1, <3>2
  <2> QED
    BY ZenonT(60), <2>5, <2>6
<1>7. ASSUME NEW n \in Nodes, NEW i \in todo[n], RetryRequest(n, i)
      PROVE  Goal
  <2> DEFINE new == <<n, sec>>
             r == [req[i] EXCEPT !.aborted = FALSE,
                                 !.signedBy = {}, !.sParticipants = {},
                                 !.expired = FALSE, !.retryCount = @ + 1]
  <2>1. i \in Ids /\ new \in Ids /\ req[i] \in Requests
    BY IdType DEF TypeOK
  <2>2. NewRequest(0).sigs = {} /\ r.sigs = req[i].sigs /\ r.tx = req[i].tx
    BY <2>1 DEF NewRequest, Requests
  <2>3. req' = [req EXCEPT ![i] = NewRequest(0), ![new] = r]
    BY <1>7 DEF RetryRequest
  <2>4. signatures' = signatures
    BY SMTT(60), <1>7 DEF RetryRequest
  <2>5. \A d \in req[i].sigs : <<d, req[i].tx>> \in signatures
    BY ZenonT(60), <2>1 DEF SignaturesGenuine
  <2> HIDE DEF r, new
  <2>6. CASE id = new
    <3>1. req'[id] = r
      BY ZenonT(60), <2>1, <2>3, <2>6 DEF TypeOK
    <3> QED
      BY ZenonT(60), <2>2, <2>4, <2>5, <3>1
  <2>7. CASE id # new /\ id = i
    <3>1. req'[id] = NewRequest(0)
      BY ZenonT(60), <2>1, <2>3, <2>7 DEF TypeOK
    <3> QED
      BY ZenonT(60), <2>2, <3>1
  <2>8. CASE id # new /\ id # i
    BY ZenonT(60), <1>1, <2>1, <2>3, <2>8 DEF TypeOK
  <2> QED
    BY ZenonT(60), <2>6, <2>7, <2>8
<1>8. ASSUME NEW i \in ours, TimeOut(i)
      PROVE  Goal
  BY SMTT(60), <1>1, <1>8 DEF TimeOut, TypeOK, Requests
<1> QED
  <2>1. ASSUME NEW n \in Nodes, MessageThread(n) \/ EnigmaThread(n)
        PROVE  Goal
    BY <1>2, <1>4, <1>5, <1>6, <1>7, <2>1, ZenonT(60)
    DEF MessageThread, EnigmaThread, HandleRequest, HandleSignRequest,
        HandleAcceptResponseFromSender, ReceiveTx, ExpireOldEnigma, AbortRequest,
        AbortStored
  <2> QED
    BY Zenon, <1>2, <1>3, <1>8, <2>1 DEF Next, Time, NextSecond, NewBlock, vars

\* The signatures that SignAndRespond(false) starts from were given for the
\* transaction it is about to submit.
LEMMA JobSignaturesGenuine ==
    ASSUME TypeOK, SignaturesGenuine, [Next]_vars,
           NEW n \in Nodes, NEW job \in signing'[n], NEW c \in job.sigs
    PROVE  <<c, job.tx>> \in signatures'
<1>1. CASE job \in signing[n]
  BY Zenon, <1>1, SignaturesGrow DEF SignaturesGenuine
<1>2. CASE job \notin signing[n]
  <2>1. ASSUME NEW k \in Nodes, NEW m \in net, HandleSignResponse(k, m)
        PROVE  <<c, job.tx>> \in signatures'
    <3> DEFINE r == AddSignedInputsToTx(req[m.id], m)
    <3>1. m.id \in Ids /\ m.type = "signed"
      BY ZenonT(60), <2>1 DEF HandleSignResponse, TypeOK, Messages
    <3>2. job = [id |-> m.id, tx |-> r.tx, sigs |-> r.sigs]
      <4> DEFINE started == {[id |-> m.id, tx |-> r.tx, sigs |-> r.sigs]}
      <4>1. signing' = signing \/ signing' = [signing EXCEPT ![k] = started]
        BY Zenon, <2>1 DEF HandleSignResponse
      <4> HIDE DEF r
      <4>2. job \in started
        BY <1>2, <4>1, ZenonT(60) DEF TypeOK
      <4> QED
        BY ZenonT(60), <4>2
    <3>3. \A d \in r.sigs : <<d, r.tx>> \in signatures
      BY SMTT(60), <3>1, MergedSignaturesGenuine
    <3> HIDE DEF r
    <3> QED
      BY SMTT(60), <3>2, <3>3, SignaturesGrow
  <2>2. ASSUME NEW k \in Nodes, NEW j \in signing[k], FinishSigning(k, j)
        PROVE  FALSE
    BY ZenonT(60), <1>2, <2>2 DEF FinishSigning, TypeOK
  <2>3. signing' # signing
    BY <1>2
  <2>4. ASSUME NEW k \in Nodes, User(k) \/ EnigmaThread(k)
        PROVE  FALSE
    BY <2>3, <2>4, ZenonT(20)
    DEF User, SendCloaked, SendEnigma, CancelSend, SpendCoin, EnigmaThread,
      ExpireOldEnigma,
        RetryRequest, AbortRequest, AbortStored
  <2>5. ASSUME NEW k \in Nodes, MessageThread(k)
        PROVE  <<c, job.tx>> \in signatures'
    BY <2>1, <2>2, <2>3, <2>5, ZenonT(20)
    DEF MessageThread, HandleRequest, HandleSignRequest,
        HandleAcceptResponseFromSender, HandleCloakingAccept, ReceiveTx
  <2> QED
    BY ZenonT(60), <2>3, <2>4, <2>5 DEF Next, Time, NextSecond, NewBlock, TimeOut, vars
<1> QED
  BY ZenonT(60), <1>1, <1>2

\* A joint transaction that enters a memory pool is signed by every owner.
LEMMA PooledFullySigned ==
    ASSUME TypeOK, SignaturesGenuine, FullySigned, [Next]_vars,
           NEW n \in Nodes, NEW t \in pool'[n], t.root # 0, NEW c \in t.ins
    PROVE  <<c, t>> \in signatures'
<1>1. ASSUME NEW k \in Nodes, t \in pool[k]
      PROVE  <<c, t>> \in signatures'
  BY ZenonT(60), <1>1, SignaturesGrow DEF FullySigned
<1>2. ASSUME NEW k \in Nodes, NEW x \in Coins, SpendCoin(k, x)
      PROVE  <<c, t>> \in signatures'
  <2>1. t \in pool[n] \/ t = [root |-> 0, ins |-> {x}]
    BY ZenonT(60), <1>2 DEF SpendCoin, TypeOK
  <2>2. t # [root |-> 0, ins |-> {x}]
    <3>1. [root |-> 0, ins |-> {x}].root = 0
      BY ZenonT(60)
    <3> QED
      BY ZenonT(60), <3>1
  <2>3. t \in pool[n]
    BY ZenonT(60), <2>1, <2>2
  <2> QED
    BY <1>1, <2>3, SMTT(60)
<1>3. ASSUME NEW k \in Nodes, NEW j \in Nodes, NEW u \in pool[j], ReceiveTx(k, u)
      PROVE  <<c, t>> \in signatures'
  <2>1. t \in pool[n] \/ t = u
    BY ZenonT(60), <1>3 DEF ReceiveTx, TypeOK
  <2> QED
    BY SMTT(60), <1>1, <2>1
<1>4. ASSUME NEW k \in Nodes, NEW job \in signing[k], FinishSigning(k, job),
             t \notin pool[n]
      PROVE  <<c, t>> \in signatures'
  <2> DEFINE mine == inOuts[k][job.id]
  <2>1. SubmitJointTx(k, job)
    BY <1>4 DEF FinishSigning, SignFails
  <2>2. t = job.tx /\ AcceptToMemoryPool(k, job.tx, job.sigs \cup mine)
    BY <1>4, <2>1 DEF SubmitJointTx, TypeOK
  <2>3. signatures' = signatures \cup {<<d, job.tx>> : d \in mine}
    BY ZenonT(60), <2>1 DEF SubmitJointTx
  <2>4. c \in job.sigs \/ c \in mine
    BY ZenonT(60), <2>2 DEF AcceptToMemoryPool
  <2>5. c \in job.sigs => <<c, job.tx>> \in signatures
    BY ZenonT(60) DEF SignaturesGenuine
  <2> QED
    BY ZenonT(60), <2>2, <2>3, <2>4, <2>5
<1>5. CASE UNCHANGED pool
  BY <1>1, <1>5
<1> QED
  <2>1. ASSUME NEW k \in Nodes, User(k) \/ MessageThread(k) \/ EnigmaThread(k)
        PROVE  <<c, t>> \in signatures'
    BY <1>1, <1>2, <1>3, <1>4, <1>5, <2>1, ZenonT(60)
    DEF User, SendCloaked, SendEnigma, CancelSend, MessageThread, HandleRequest,
        HandleSignRequest, HandleAcceptResponseFromSender, HandleCloakingAccept,
        HandleSignResponse, EnigmaThread, ExpireOldEnigma, RetryRequest,
        AbortRequest, AbortStored
  <2> QED
    BY <1>5, <2>1 DEF Next, Time, NextSecond, NewBlock, TimeOut, vars

\* A joint transaction in any memory pool carries the signature of the owner of
\* every input, in all behaviours.
THEOREM AlwaysFullySigned == Spec => []FullySigned
<1>1. Init => TypeOK /\ SignaturesGenuine /\ FullySigned
  <2>1. Init => SignaturesGenuine
    <3> SUFFICES ASSUME Init PROVE SignaturesGenuine
      OBVIOUS
    <3>1. net = {} /\ \A n \in Nodes : signing[n] = {}
      BY ZenonT(60) DEF Init
    <3>2. \A id \in Ids : req[id].sigs = {}
      BY SMTT(60) DEF Init, NewRequest
    <3> QED
      BY SMTT(60), <3>1, <3>2 DEF SignaturesGenuine
  <2>2. Init => FullySigned
    BY Zenon DEF Init, FullySigned
  <2> QED
    BY ZenonT(60), <2>1, <2>2, InitTypeOK
<1>2. TypeOK /\ SignaturesGenuine /\ FullySigned /\ [Next]_vars
        => (TypeOK /\ SignaturesGenuine /\ FullySigned)'
  <2> SUFFICES ASSUME TypeOK, SignaturesGenuine, FullySigned, [Next]_vars
               PROVE  TypeOK' /\ SignaturesGenuine' /\ FullySigned'
    OBVIOUS
  <2>1. TypeOK'
    BY StepTypeOK, SMTT(60)
  <2>2. SignaturesGenuine'
    BY ZenonT(60), SentSignaturesGenuine, StoredSignaturesGenuine, JobSignaturesGenuine
    DEF SignaturesGenuine
  <2>3. FullySigned'
    BY PooledFullySigned DEF FullySigned
  <2> QED
    BY <2>1, <2>2, <2>3
<1> QED
  BY <1>1, <1>2, PTL DEF Spec
=============================================================================
