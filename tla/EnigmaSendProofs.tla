-------------------------- MODULE EnigmaSendProofs --------------------------
(***************************************************************************)
(* What module Enigma promises the sender: a cancelled send stays          *)
(* cancelled, a pending one keeps its coins, no reservation is forgotten.  *)
(***************************************************************************)
EXTENDS EnigmaProofs

-----------------------------------------------------------------------------
\* What ThreadEnigma2 is about to retry or give up was not cancelled and has
\* been expired, or submitted, since an earlier second.
ExpiredInTime ==
    /\ \A id \in Ids : req[id].expired => id[2] < sec
    /\ \A n \in Nodes : \A id \in todo[n] :
         /\ id \in ours /\ id[2] < sec
         /\ ~req[id].aborted /\ (req[id].expired \/ req[id].processed)

\* A request that is over for wallet n, and will not come back under its id.
Settled(n, id) == Over(n, id) /\ (id[1] = n => id[2] < sec)

\* A coin of wallet n is named by a request that is over for good.
Doubtful(n, c) == \E w \in Ids : Settled(n, w) /\ c \in inOuts[n][w]

\* The inductive form of PendingSendHeld: a wallet stores its own coins, and a
\* coin two of its requests name, or one that is not reserved, is named by a
\* request that is over.
CoinsHeld ==
    \A n \in Nodes : \A id \in Ids :
        /\ \A c \in inOuts[n][id] : Owner[c] = n
        /\ id[1] = n => cloak[n][id] = "none"
        /\ (id[1] # n /\ cloak[n][id] = "none") => inOuts[n][id] = {}
        /\ (id[1] = n /\ inOuts[n][id] # {}) => id[2] <= sec
        /\ \A o \in Ids : o # id =>
             \A c \in inOuts[n][id] \cap inOuts[n][o] : Doubtful(n, c)
        /\ \A c \in inOuts[n][id] \ reserved : Over(n, id) \/ Doubtful(n, c)

-----------------------------------------------------------------------------
\* How a step changes the flags of a stored request.

\* Abort and expiry are final for a request that keeps its id; only a user who
\* finds cs_mapOurCloakingRequests free cancels, only time expires, and only
\* SignAndRespond completes.
FlagsKept(id) ==
    /\ req[id].aborted => req'[id].aborted
    /\ req'[id].aborted => req[id].aborted \/ todo[id[1]] = {}
    /\ req'[id].retryCount = req[id].retryCount
    /\ req[id].processed => req'[id].processed
    /\ req[id].expired => req'[id].expired \/ req'[id].processed
    /\ req'[id].expired => req[id].expired \/ id[2] < sec
    /\ req'[id].completed => req[id].completed \/ BeingSigned(id)

\* The id is given to a new request, or Retry moves a request from it or to it.
Created(id) ==
    \E n \in Nodes : /\ id = <<n, sec>> /\ id \notin ours
                     /\ \E C \in SUBSET AvailableCoins(n) : SendCloaked(n, C)
Moved(id) ==
    \E n \in Nodes : \E old \in todo[n] :
        RetryRequest(n, old) /\ id \in {old, <<n, sec>>}

\* A record updated in fields that are not flags has the same flags.
LEMMA SameRequest ==
    ASSUME NEW id, req'[id] = req[id]
    PROVE  FlagsKept(id)
BY DEF FlagsKept

\* Storing a participant or the joint transaction keeps the flags.
LEMMA AcceptKeepsFlags ==
    ASSUME TypeOK, NEW n \in Nodes, NEW m \in net, HandleCloakingAccept(n, m),
           NEW id \in Ids
    PROVE  FlagsKept(id)
<1>1. m.id \in Ids /\ req[m.id] \in Requests
  BY DEF HandleCloakingAccept, TypeOK, Messages
<1>2. CASE AddParticipant(n, m)
  <2> DEFINE parts == req[m.id].sParticipants
                        \cup {[from |-> m.from, ins |-> m.ins]}
             r1 == [req[m.id] EXCEPT !.sParticipants = parts,
                      !.txCreated = TRUE, !.tx = JointTx(n, m.id, parts),
                      !.sigs = {}]
             r2 == [req[m.id] EXCEPT !.sParticipants = parts,
                      !.txCreated = TRUE]
             r3 == [req[m.id] EXCEPT !.sParticipants = parts]
             Same(r) == /\ r.aborted = req[m.id].aborted
                        /\ r.completed = req[m.id].completed
                        /\ r.processed = req[m.id].processed
                        /\ r.expired = req[m.id].expired
                        /\ r.retryCount = req[m.id].retryCount
  <2>1. Same(r1) /\ Same(r2) /\ Same(r3)
    BY <1>1, ZenonT(20) DEF Requests
  <2>2. \/ req' = [req EXCEPT ![m.id] = r1]
        \/ req' = [req EXCEPT ![m.id] = r2]
        \/ req' = [req EXCEPT ![m.id] = r3]
    BY <1>2 DEF AddParticipant
  <2> HIDE DEF r1, r2, r3
  <2>3. req'[id] = req[id] \/ (id = m.id /\ Same(req'[id]))
    BY <1>1, <2>1, <2>2, ZenonT(20) DEF TypeOK
  <2> QED
    BY <2>3, SameRequest, ZenonT(20) DEF FlagsKept
<1>3. CASE UNCHANGED req
  BY <1>3, SameRequest
<1> QED
  BY ZenonT(60), <1>2, <1>3 DEF HandleCloakingAccept, RejectParticipant

\* Merging signatures keeps the flags.
LEMMA SignResponseKeepsFlags ==
    ASSUME TypeOK, NEW n \in Nodes, NEW m \in net, HandleSignResponse(n, m),
           NEW id \in Ids
    PROVE  FlagsKept(id)
<1> DEFINE r == AddSignedInputsToTx(req[m.id], m)
           Same == /\ r.aborted = req[m.id].aborted
                   /\ r.completed = req[m.id].completed
                   /\ r.processed = req[m.id].processed
                   /\ r.expired = req[m.id].expired
                   /\ r.retryCount = req[m.id].retryCount
<1>1. m.id \in Ids /\ req[m.id] \in Requests
  BY DEF HandleSignResponse, TypeOK, Messages
<1>2. Same
  BY <1>1, ZenonT(20) DEF AddSignedInputsToTx, Requests
<1>3. req' = req \/ req' = [req EXCEPT ![m.id] = r]
  BY DEF HandleSignResponse
<1> HIDE DEF r
<1>4. req'[id] = req[id] \/ (id = m.id /\ req'[id] = r)
  BY <1>1, <1>3 DEF TypeOK
<1> QED
  BY <1>2, <1>4, SameRequest, ZenonT(60) DEF FlagsKept

\* SignAndRespond(false) marks the request it was started for, and no other.
LEMMA FinishKeepsFlags ==
    ASSUME TypeOK, NEW n \in Nodes, NEW job \in signing[n], FinishSigning(n, job),
           NEW id \in Ids
    PROVE  FlagsKept(id)
<1>1. job.id \in Ids /\ req[job.id] \in Requests
  BY DEF TypeOK, SignJobs
<1> DEFINE mine == inOuts[n][job.id]
           accepted == AcceptToMemoryPool(n, job.tx, job.sigs \cup mine)
           r == [req[job.id] EXCEPT !.processed = TRUE, !.signedBy = @ \cup {n},
                             !.tx = job.tx, !.sigs = job.sigs \cup mine,
                             !.expired = FALSE,
                             !.completed = @ \/ accepted]
<1>2. /\ r.aborted = req[job.id].aborted /\ r.retryCount = req[job.id].retryCount
      /\ r.processed = TRUE /\ r.expired = FALSE
  BY <1>1, ZenonT(20) DEF Requests
<1>3. req' = req \/ req' = [req EXCEPT ![job.id] = r]
  BY DEF FinishSigning, SubmitJointTx, SignFails
<1> HIDE DEF r
<1>4. req'[id] = req[id] \/ (id = job.id /\ req'[id] = r)
  BY ZenonT(60), <1>1, <1>3 DEF TypeOK
<1>5. BeingSigned(job.id)
  BY DEF BeingSigned
<1> QED
  BY <1>2, <1>4, <1>5, SameRequest, ZenonT(20) DEF FlagsKept

\* The flags of a request change only as FlagsKept says, unless its id is given
\* to another request.
LEMMA FlagsChange ==
    ASSUME TypeOK, [Next]_vars, NEW id \in Ids
    PROVE  FlagsKept(id) \/ Created(id) \/ Moved(id)
<1> DEFINE Goal == FlagsKept(id) \/ Created(id) \/ Moved(id)
<1>1. CASE UNCHANGED req
  BY <1>1, SameRequest
<1>2. ASSUME NEW n \in Nodes, NEW C \in SUBSET AvailableCoins(n), SendCloaked(n, C)
      PROVE  Goal
  <2>1. CASE id = <<n, sec>> /\ id \notin ours
    BY <1>2, <2>1 DEF Created
  <2>2. CASE id # <<n, sec>> \/ <<n, sec>> \in ours
    <3>1. req'[id] = req[id]
      BY ZenonT(60), <1>2, <2>2 DEF SendCloaked, SendEnigma, TypeOK
    <3> QED
      BY ZenonT(60), <3>1, SameRequest
  <2> QED
    BY <2>1, <2>2
<1>3. ASSUME NEW n \in Nodes, NEW i \in ours, CancelSend(n, i)
      PROVE  Goal
  <2>1. i \in Ids /\ req[i] \in Requests /\ i[1] = n /\ todo[n] = {}
    BY <1>3 DEF CancelSend, TypeOK, OurRequestsUnlocked
  <2> DEFINE r == [req[i] EXCEPT !.aborted = TRUE]
  <2>2. /\ r.aborted = TRUE /\ r.completed = req[i].completed
        /\ r.processed = req[i].processed /\ r.expired = req[i].expired
        /\ r.retryCount = req[i].retryCount
    BY <2>1, ZenonT(20) DEF Requests
  <2>3. req' = [req EXCEPT ![i] = r]
    BY <1>3 DEF CancelSend
  <2> HIDE DEF r
  <2>4. req'[id] = req[id] \/ (id = i /\ req'[id] = r)
    BY ZenonT(60), <2>1, <2>3 DEF TypeOK
  <2> QED
    BY <2>1, <2>2, <2>4, SameRequest, ZenonT(20) DEF FlagsKept
<1>4. ASSUME NEW n \in Nodes, NEW i \in todo[n], RetryRequest(n, i)
      PROVE  Goal
  <2>1. CASE id \in {i, <<n, sec>>}
    BY <1>4, <2>1 DEF Moved
  <2>2. CASE id \notin {i, <<n, sec>>}
    <3>1. req'[id] = req[id]
      BY <1>4, <2>2 DEF RetryRequest, TypeOK
    <3> QED
      BY <3>1, SameRequest
  <2> QED
    BY <2>1, <2>2
<1>5. ASSUME NEW i \in ours, TimeOut(i)
      PROVE  Goal
  <2>1. i \in Ids /\ req[i] \in Requests /\ i[2] < sec
    BY ZenonT(60), <1>5, ConstantsAssumption DEF TimeOut, TypeOK, Ids, Secs
  <2> DEFINE r == [req[i] EXCEPT !.expired = TRUE]
  <2>2. /\ r.aborted = req[i].aborted /\ r.completed = req[i].completed
        /\ r.processed = req[i].processed /\ r.expired = TRUE
        /\ r.retryCount = req[i].retryCount
    BY <2>1, ZenonT(20) DEF Requests
  <2>3. req' = [req EXCEPT ![i] = r]
    BY <1>5 DEF TimeOut
  <2> HIDE DEF r
  <2>4. req'[id] = req[id] \/ (id = i /\ req'[id] = r)
    BY <2>1, <2>3 DEF TypeOK
  <2> QED
    BY <2>1, <2>2, <2>4, SameRequest, ZenonT(60) DEF FlagsKept
<1>6. ASSUME NEW n \in Nodes, User(n)
      PROVE  Goal
  BY <1>1, <1>2, <1>3, <1>6, ZenonT(20) DEF User, SpendCoin
<1>7. ASSUME NEW n \in Nodes, MessageThread(n) \/ EnigmaThread(n)
      PROVE  Goal
  BY <1>1, <1>4, <1>7, AcceptKeepsFlags, SignResponseKeepsFlags,
     FinishKeepsFlags, ZenonT(20)
  DEF MessageThread, EnigmaThread, HandleRequest, HandleSignRequest,
      HandleAcceptResponseFromSender, ReceiveTx, ExpireOldEnigma,
      AbortRequest, AbortStored
<1> QED
  BY <1>1, <1>5, <1>6, <1>7 DEF Next, Time, NextSecond, NewBlock, vars

\* The clock does not run backwards.
LEMMA SecGrows ==
    ASSUME TypeOK, [Next]_vars
    PROVE  sec \in Nat /\ sec' \in Nat /\ sec <= sec'
<1>1. sec \in Nat
  BY ConstantsAssumption DEF TypeOK, Secs
<1>2. sec' = sec \/ sec' = sec + 1
  <2>1. ASSUME NEW n \in Nodes, User(n) \/ MessageThread(n) \/ EnigmaThread(n)
        PROVE  sec' = sec
    BY <2>1, ZenonT(60)
    DEF User, SendCloaked, CancelSend, SpendCoin, MessageThread, HandleRequest,
        HandleSignRequest, HandleAcceptResponseFromSender, HandleCloakingAccept,
        HandleSignResponse, ReceiveTx, FinishSigning, EnigmaThread,
        ExpireOldEnigma, RetryRequest, AbortRequest, AbortStored, clockVars
  <2> QED
    BY <2>1 DEF Next, Time, NextSecond, NewBlock, TimeOut, vars
<1> QED
  BY <1>1, <1>2

\* A request stays stored unless Retry moves it.
LEMMA OursKept ==
    ASSUME TypeOK, [Next]_vars, NEW id \in ours
    PROVE  id \in ours' \/ Moved(id)
<1>1. ASSUME NEW n \in Nodes, NEW i \in todo[n], RetryRequest(n, i)
      PROVE  id \in ours' \/ Moved(id)
  BY Zenon, <1>1 DEF RetryRequest, Moved
<1>2. CASE ours \subseteq ours'
  BY <1>2
<1>3. ASSUME NEW n \in Nodes, User(n) \/ MessageThread(n) \/ EnigmaThread(n)
      PROVE  id \in ours' \/ Moved(id)
  BY <1>1, <1>2, <1>3, ZenonT(20)
  DEF User, SendCloaked, SendEnigma, CancelSend, SpendCoin, MessageThread,
      HandleRequest, HandleSignRequest, HandleAcceptResponseFromSender,
      HandleCloakingAccept, HandleSignResponse, ReceiveTx, FinishSigning,
      EnigmaThread, ExpireOldEnigma, AbortRequest, AbortStored
<1> QED
  BY <1>2, <1>3 DEF Next, Time, NextSecond, NewBlock, TimeOut, vars

\* ThreadEnigma2 lists the expired requests that are neither completed nor
\* cancelled, and takes each off the list as it retries or gives it up.
LEMMA TodoChange ==
    ASSUME TypeOK, [Next]_vars, NEW n \in Nodes, NEW id \in todo'[n]
    PROVE  \/ id \in todo[n] /\ ~RetryRequest(n, id)
           \/ /\ id \in ours /\ id[1] = n /\ req[id].expired /\ ~req[id].aborted
              /\ UNCHANGED <<ours, req, sec>>
<1> DEFINE Goal == \/ id \in todo[n] /\ ~RetryRequest(n, id)
                   \/ /\ id \in ours /\ id[1] = n
                      /\ req[id].expired /\ ~req[id].aborted
                      /\ UNCHANGED <<ours, req, sec>>
<1>1. todo \in [Nodes -> SUBSET Ids]
  BY DEF TypeOK
<1>2. id \in todo[n] => Goal
  BY <1>1 DEF RetryRequest
<1>3. ASSUME NEW k \in Nodes, ExpireOldEnigma(k)
      PROVE  Goal
  <2> DEFINE due == {j \in ours : /\ j[1] = k /\ req[j].expired
                                  /\ ~req[j].completed /\ ~req[j].aborted}
  <2>1. todo' = [todo EXCEPT ![k] = due]
    BY <1>3 DEF ExpireOldEnigma
  <2>2. \A j \in due : /\ j \in ours /\ j[1] = k
                       /\ req[j].expired /\ ~req[j].aborted
    OBVIOUS
  <2> HIDE DEF due
  <2>3. id \in todo[n] \/ (n = k /\ id \in due)
    BY <1>1, <2>1
  <2>4. UNCHANGED <<ours, req, sec>>
    BY <1>3 DEF ExpireOldEnigma, clockVars
  <2> QED
    BY <1>2, <2>2, <2>3, <2>4, ZenonT(20)
<1>4. ASSUME NEW k \in Nodes, NEW i, todo' = [todo EXCEPT ![k] = @ \ {i}]
      PROVE  Goal
  <2>1. id \in todo[n]
    BY ZenonT(60), <1>1, <1>4
  <2> QED
    BY <1>2, <2>1
<1>5. CASE UNCHANGED todo
  BY <1>2, <1>5
<1>6. ASSUME NEW k \in Nodes, User(k) \/ MessageThread(k) \/ EnigmaThread(k)
      PROVE  Goal
  BY <1>3, <1>4, <1>5, <1>6, ZenonT(60)
  DEF User, MessageThread, EnigmaThread, SendCloaked, SendEnigma, CancelSend,
      SpendCoin, HandleRequest, HandleSignRequest,
      HandleAcceptResponseFromSender, HandleCloakingAccept, HandleSignResponse,
      ReceiveTx, FinishSigning, RetryRequest, AbortRequest, AbortStored
<1> QED
  BY <1>5, <1>6, ZenonT(60) DEF Next, Time, NextSecond, NewBlock, TimeOut, vars

\* A request just created, moved or left behind has not expired.
LEMMA FreshNotExpired ==
    ASSUME TypeOK, NEW id \in Ids, Created(id) \/ Moved(id)
    PROVE  ~req'[id].expired
<1>1. CASE Created(id)
  <2>1. PICK n \in Nodes : /\ id = <<n, sec>> /\ id \notin ours
                           /\ \E C \in SUBSET AvailableCoins(n) : SendCloaked(n, C)
    BY <1>1 DEF Created
  <2>2. req'[id] = NewRequest(nSends + 1)
    BY <2>1 DEF SendCloaked, SendEnigma, TypeOK
  <2>3. NewRequest(nSends + 1).expired = FALSE
    BY DEF NewRequest
  <2> QED
    BY <2>2, <2>3, ZenonT(20)
<1>2. CASE Moved(id)
  <2>0. PICK n \in Nodes : \E i \in todo[n] :
               RetryRequest(n, i) /\ id \in {i, <<n, sec>>}
    BY <1>2 DEF Moved
  <2>1. PICK i \in todo[n] : RetryRequest(n, i) /\ id \in {i, <<n, sec>>}
    BY <2>0
  <2> DEFINE r == [req[i] EXCEPT !.aborted = FALSE, !.signedBy = {},
                                 !.sParticipants = {}, !.expired = FALSE,
                                 !.retryCount = @ + 1]
             new == <<n, sec>>
  <2>2. i \in Ids /\ new \in Ids /\ req[i] \in Requests
    BY ZenonT(60), IdType DEF TypeOK
  <2>3. r.expired = FALSE /\ NewRequest(0).expired = FALSE
    BY <2>2, ZenonT(20) DEF Requests, NewRequest
  <2>4. req' = [req EXCEPT ![i] = NewRequest(0), ![new] = r]
    BY ZenonT(60), <2>1 DEF RetryRequest
  <2> HIDE DEF r
  <2>5. req'[id] = r \/ req'[id] = NewRequest(0)
    BY ZenonT(60), <2>1, <2>2, <2>4 DEF TypeOK
  <2> QED
    BY <2>3, <2>5, ZenonT(20)
<1> QED
  BY <1>1, <1>2

\* What ThreadEnigma2 has listed is neither cancelled, nor given to another
\* request, before it is dealt with.
LEMMA StepExpiredInTime ==
    ASSUME TypeOK, OffersAgree, ExpiredInTime, [Next]_vars
    PROVE  ExpiredInTime'
<1>1. sec \in Nat /\ sec' \in Nat /\ sec <= sec'
  BY SecGrows
<1>2. \A id \in Ids : id[2] \in Nat
  BY ConstantsAssumption DEF Ids, Secs
<1>3. ASSUME NEW id \in Ids, req'[id].expired
      PROVE  id[2] < sec'
  <2>1. CASE FlagsKept(id)
    <3>1. req[id].expired \/ id[2] < sec
      BY <1>3, <2>1 DEF FlagsKept
    <3>2. id[2] < sec
      BY <3>1 DEF ExpiredInTime
    <3> QED
      BY <1>1, <1>2, <3>2
  <2> QED
    BY <1>3, <2>1, FlagsChange, FreshNotExpired
<1>4. ASSUME NEW n \in Nodes, NEW id \in todo'[n]
      PROVE  /\ id \in ours' /\ id[2] < sec'
             /\ ~req'[id].aborted /\ (req'[id].expired \/ req'[id].processed)
  <2>1. CASE id \in todo[n] /\ ~RetryRequest(n, id)
    <3>1. /\ id \in Ids /\ id[1] = n /\ id \in ours /\ id[2] < sec
          /\ ~req[id].aborted /\ (req[id].expired \/ req[id].processed)
      BY <2>1 DEF OffersAgree, ExpiredInTime, TypeOK
    <3>2. id[2] # sec /\ id[2] < sec'
      BY SMTT(60), <1>1, <1>2, <3>1
    <3>3. ~Created(id)
      BY <3>1 DEF Created
    <3>4. ~Moved(id)
      <4> SUFFICES ASSUME NEW k \in Nodes, NEW i \in todo[k],
                          RetryRequest(k, i), id \in {i, <<k, sec>>}
                   PROVE  FALSE
        BY DEF Moved
      <4>1. id = i
        BY <3>2
      <4>2. k = n
        BY <3>1, <4>1 DEF OffersAgree
      <4> QED
        BY <2>1, <4>1, <4>2
    <3>5. FlagsKept(id)
      BY ZenonT(60), <3>1, <3>3, <3>4, FlagsChange
    <3>6. ~req'[id].aborted /\ (req'[id].expired \/ req'[id].processed)
      BY <2>1, <3>1, <3>5 DEF FlagsKept
    <3> QED
      BY ZenonT(60), <3>1, <3>2, <3>4, <3>6, OursKept
  <2>2. CASE /\ id \in ours /\ id[1] = n /\ req[id].expired /\ ~req[id].aborted
             /\ UNCHANGED <<ours, req, sec>>
    <3>1. id[2] < sec
      BY ZenonT(60), <2>2 DEF ExpiredInTime, TypeOK
    <3> QED
      BY ZenonT(60), <2>2, <3>1
  <2> QED
    BY SMTT(60), <2>1, <2>2, TodoChange
<1> QED
  BY <1>3, <1>4 DEF ExpiredInTime

-----------------------------------------------------------------------------
\* A cancelled send stays cancelled.

\* SignAndRespond is not started for a cancelled request.
LEMMA SigningStarts ==
    ASSUME TypeOK, [Next]_vars, NEW id \in Ids, BeingSigned(id)'
    PROVE  BeingSigned(id) \/ ~req[id].aborted
<1>1. PICK n \in Nodes : \E job \in signing'[n] : job.id = id
  BY DEF BeingSigned
<1>2. PICK job \in signing'[n] : job.id = id
  BY <1>1
<1>3. CASE job \in signing[n]
  BY ZenonT(60), <1>2, <1>3 DEF BeingSigned
<1>4. CASE job \notin signing[n]
  <2>1. ASSUME NEW k \in Nodes, NEW m \in net, HandleSignResponse(k, m)
        PROVE  ~req[id].aborted
    <3> DEFINE r == AddSignedInputsToTx(req[m.id], m)
               started == [id |-> m.id, tx |-> r.tx, sigs |-> r.sigs]
    <3>1. \/ signing' = signing
          \/ ~req[m.id].aborted /\ signing' = [signing EXCEPT ![k] = {started}]
      BY <2>1 DEF HandleSignResponse, ResponseIgnored
    <3>2. started.id = m.id
      OBVIOUS
    <3> HIDE DEF started
    <3> HIDE DEF r
    <3>3. job = started /\ ~req[m.id].aborted
      <4>1. signing' = [signing EXCEPT ![k] = {started}] /\ ~req[m.id].aborted
        BY ZenonT(60), <1>4, <3>1
      <4>2. job \in {started}
        BY ZenonT(60), <1>4, <4>1 DEF TypeOK
      <4> QED
        BY <4>1, <4>2
    <3> QED
      BY ZenonT(60), <1>2, <3>2, <3>3
  <2>2. ASSUME NEW k \in Nodes, NEW j \in signing[k], FinishSigning(k, j)
        PROVE  FALSE
    BY ZenonT(60), <1>4, <2>2 DEF FinishSigning, TypeOK
  <2>3. signing' # signing
    BY <1>4
  <2>4. ASSUME NEW k \in Nodes, User(k) \/ EnigmaThread(k)
        PROVE  FALSE
    BY <2>3, <2>4, ZenonT(20)
    DEF User, SendCloaked, SendEnigma, CancelSend, SpendCoin, EnigmaThread,
        ExpireOldEnigma, RetryRequest, AbortRequest, AbortStored
  <2>5. ASSUME NEW k \in Nodes, MessageThread(k)
        PROVE  ~req[id].aborted
    BY <2>1, <2>2, <2>3, <2>5, ZenonT(20)
    DEF MessageThread, HandleRequest, HandleSignRequest,
        HandleAcceptResponseFromSender, HandleCloakingAccept, ReceiveTx
  <2> QED
    BY ZenonT(60), <2>3, <2>4, <2>5 DEF Next, Time, NextSecond, NewBlock, TimeOut, vars
<1> QED
  BY <1>3, <1>4

\* No step ends the cancellation of a send, but a retry that takes over its id.
LEMMA StepStaysCancelled ==
    ASSUME TypeOK, OffersAgree, ExpiredInTime, [Next]_vars,
           NEW id \in Ids, Cancelled(id)
    PROVE  Cancelled(id)' \/ Replaced(id)
<1>1. /\ id \in ours /\ req[id].aborted /\ ~req[id].completed
      /\ ~BeingSigned(id)
  BY DEF Cancelled
<1>2. ~Created(id)
  BY <1>1 DEF Created
<1>3. CASE Moved(id)
  <2>1. PICK n \in Nodes : \E i \in todo[n] :
               RetryRequest(n, i) /\ id \in {i, <<n, sec>>}
    BY <1>3 DEF Moved
  <2>2. PICK i \in todo[n] : RetryRequest(n, i) /\ id \in {i, <<n, sec>>}
    BY ZenonT(60), <2>1
  <2>3. i \in ours /\ i[1] = n /\ i[2] < sec /\ ~req[i].aborted
    BY ZenonT(60) DEF ExpiredInTime, OffersAgree
  <2>4. id = <<n, sec>>
    BY ZenonT(60), <1>1, <2>2, <2>3
  <2>5. i # <<n, sec>>
    BY <2>3, SecGrows
  <2>6. i \notin ours'
    BY ZenonT(60), <2>2, <2>5 DEF RetryRequest
  <2> QED
    BY ZenonT(60), <2>3, <2>4, <2>6 DEF Replaced
<1>4. CASE ~Moved(id)
  <2>1. FlagsKept(id)
    BY ZenonT(60), <1>2, <1>4, FlagsChange
  <2>2. req'[id].aborted /\ ~req'[id].completed
    BY <1>1, <2>1 DEF FlagsKept
  <2>3. id \in ours'
    BY <1>1, <1>4, OursKept
  <2>4. ~BeingSigned(id)'
    BY <1>1, SigningStarts
  <2> QED
    BY <2>2, <2>3, <2>4 DEF Cancelled
<1> QED
  BY <1>3, <1>4

\* Initially nothing is listed or expired.
LEMMA InitExpiredInTime == Init => ExpiredInTime
<1> SUFFICES ASSUME Init PROVE ExpiredInTime
  OBVIOUS
<1>1. NewRequest(0).expired = FALSE
  BY DEF NewRequest
<1>2. \A id \in Ids : ~req[id].expired
  BY <1>1, ZenonT(20) DEF Init
<1>3. \A n \in Nodes : todo[n] = {}
  BY DEF Init
<1> QED
  BY <1>2, <1>3 DEF ExpiredInTime

\* A cancelled send is never completed or taken up again, in any behaviour.
THEOREM CancelStaysFinal == Spec => CancelIsFinal
<1> DEFINE Inv == TypeOK /\ OffersAgree /\ ExpiredInTime
<1>1. Init => Inv
  BY InitTypeOK, InitOffersAgree, InitExpiredInTime
<1>2. Inv /\ [Next]_vars => Inv'
  BY StepTypeOK, StepOffersAgree, StepExpiredInTime
<1>3. Inv /\ [Next]_vars
        => [\A id \in Ids : Cancelled(id) => Cancelled(id)' \/ Replaced(id)]_vars
  BY ZenonT(60), StepStaysCancelled
<1> QED
  BY <1>1, <1>2, <1>3, PTL DEF Spec, CancelIsFinal

-----------------------------------------------------------------------------
\* A pending send keeps its coins.

\* A request that is over stays over while it keeps its id.
LEMMA OverStable ==
    ASSUME NEW n, NEW id, FlagsKept(id), Over(n, id)
    PROVE  Over(n, id)'
BY DEF FlagsKept, Over, ShouldRetry

\* A request that is over for good is neither replaced nor moved.
LEMMA SettledKept ==
    ASSUME TypeOK, OffersAgree, ExpiredInTime, [Next]_vars,
           NEW n \in Nodes, NEW w \in Ids, w[1] = n, Settled(n, w)
    PROVE  FlagsKept(w) /\ ~Created(w) /\ ~Moved(w)
<1>1. w[2] < sec /\ Over(n, w) /\ sec \in Nat
  BY SecGrows DEF Settled
<1>2. w[2] # sec
  BY <1>1
<1>3. ~Created(w)
  BY <1>2 DEF Created
<1>4. ~Moved(w)
  <2> SUFFICES ASSUME NEW k \in Nodes, NEW i \in todo[k],
                      RetryRequest(k, i), w \in {i, <<k, sec>>}
               PROVE  FALSE
    BY DEF Moved
  <2>1. w = i
    BY <1>2
  <2>2. ~req[w].aborted /\ ShouldRetry(w)
    BY ZenonT(60), <2>1 DEF ExpiredInTime, RetryRequest
  <2> QED
    BY <1>1, <2>2 DEF Over
<1> QED
  BY <1>3, <1>4, FlagsChange

\* The inputs of a wallet's own request change only when it gets its id.
LEMMA OwnInputsKept ==
    ASSUME TypeOK, OffersAgree, [Next]_vars, NEW id \in Ids
    PROVE  inOuts'[id[1]][id] = inOuts[id[1]][id] \/ Created(id) \/ Moved(id)
<1> DEFINE Goal == \/ inOuts'[id[1]][id] = inOuts[id[1]][id]
                   \/ Created(id) \/ Moved(id)
<1>0. id[1] \in Nodes /\ inOuts \in [Nodes -> [Ids -> SUBSET Coins]]
  BY DEF Ids, TypeOK
<1>1. CASE UNCHANGED inOuts
  BY ZenonT(60), <1>1
<1>2. ASSUME NEW n \in Nodes, NEW C \in SUBSET AvailableCoins(n), SendCloaked(n, C)
      PROVE  Goal
  <2>1. <<n, sec>> \in Ids
    BY ZenonT(60), IdType DEF TypeOK
  <2>2. CASE id = <<n, sec>> /\ id \notin ours
    BY ZenonT(60), <1>2, <2>2 DEF Created
  <2>3. CASE id # <<n, sec>> /\ <<n, sec>> \notin ours
    <3>1. inOuts' = [inOuts EXCEPT ![n][<<n, sec>>] = C]
      BY ZenonT(60), <1>2, <2>3 DEF SendCloaked, SendEnigma
    <3> QED
      BY SMTT(60), <1>0, <2>1, <2>3, <3>1, NestedExcept
  <2>4. CASE <<n, sec>> \in ours
    BY SMTT(60), <1>1, <1>2, <2>4 DEF SendCloaked, SendEnigma
  <2> QED
    BY ZenonT(60), <2>2, <2>3, <2>4
<1>3. ASSUME NEW n \in Nodes, NEW m \in net, HandleRequest(n, m)
      PROVE  Goal
  <2>1. m.id \in Ids /\ n # m.id[1]
    BY ZenonT(60), <1>3 DEF HandleRequest, TypeOK, Messages, OffersAgree, MessageAgrees
  <2>2. ASSUME NEW C, inOuts' = [inOuts EXCEPT ![n][m.id] = C]
        PROVE  Goal
    BY SMTT(60), <1>0, <2>1, <2>2, NestedExcept
  <2> QED
    BY ZenonT(60), <1>1, <1>3, <2>2 DEF HandleRequest, AcceptRequest, DeclineRequest
<1>4. ASSUME NEW n \in Nodes, NEW i \in todo[n], RetryRequest(n, i)
      PROVE  Goal
  <2>1. CASE id \in {i, <<n, sec>>}
    BY ZenonT(60), <1>4, <2>1 DEF Moved
  <2>2. CASE id \notin {i, <<n, sec>>}
    <3> DEFINE f == [inOuts[n] EXCEPT ![i] = {}, ![<<n, sec>>] = inOuts[n][i]]
    <3>1. f[id] = inOuts[n][id]
      BY <1>0, <2>2
    <3>2. inOuts' = [inOuts EXCEPT ![n] = f]
      BY <1>4 DEF RetryRequest
    <3> HIDE DEF f
    <3> QED
      BY ZenonT(60), <1>0, <3>1, <3>2
  <2> QED
    BY ZenonT(60), <2>1, <2>2
<1>5. ASSUME NEW n \in Nodes, User(n) \/ MessageThread(n) \/ EnigmaThread(n)
      PROVE  Goal
  BY <1>1, <1>2, <1>3, <1>4, <1>5, ZenonT(60)
  DEF User, CancelSend, SpendCoin, MessageThread, HandleSignRequest,
      HandleAcceptResponseFromSender, HandleCloakingAccept, HandleSignResponse,
      ReceiveTx, FinishSigning, EnigmaThread, ExpireOldEnigma, AbortRequest,
      AbortStored
<1> QED
  BY ZenonT(60), <1>1, <1>5 DEF Next, Time, NextSecond, NewBlock, TimeOut, vars

\* A coin that a request which is over names stays named by it.
LEMMA DoubtfulStable ==
    ASSUME TypeOK, OffersAgree, ExpiredInTime, CoinsHeld, [Next]_vars,
           NEW n \in Nodes, NEW c, Doubtful(n, c)
    PROVE  Doubtful(n, c)'
<1>1. PICK w \in Ids : Settled(n, w) /\ c \in inOuts[n][w]
  BY DEF Doubtful
<1>2. CASE w[1] # n
  <2>1. cloak[n][w] # "none"
    BY <1>1, <1>2 DEF CoinsHeld
  <2>2. PICK C : C = inOuts[n][w]
    BY ZenonT(60)
  <2>3. Offered(n, w, C)
    BY ZenonT(60), <1>1, <1>2, <2>1, <2>2 DEF Offered
  <2>4. c \in inOuts'[n][w]
    <3>1. Offered(n, w, C)'
      BY ZenonT(60), <2>3, OfferedStable
    <3> QED
      BY <1>1, <2>2, <3>1 DEF Offered
  <2>5. Settled(n, w)'
    BY <1>2 DEF Settled, Over
  <2> QED
    BY ZenonT(60), <2>4, <2>5 DEF Doubtful
<1>3. CASE w[1] = n
  <2>1. FlagsKept(w) /\ ~Created(w) /\ ~Moved(w)
    BY ZenonT(60), <1>1, <1>3, SettledKept
  <2>2. c \in inOuts'[n][w]
    BY ZenonT(60), <1>1, <1>3, <2>1, OwnInputsKept
  <2>3. Over(n, w)'
    BY ZenonT(60), <1>1, <2>1, OverStable DEF Settled
  <2>4. w[2] < sec'
    <3>1. w[2] \in Nat
      BY ConstantsAssumption DEF Ids, Secs
    <3> QED
      BY <1>1, <1>3, <3>1, SecGrows DEF Settled
  <2> QED
    BY ZenonT(60), <2>2, <2>3, <2>4 DEF Doubtful, Settled
<1> QED
  BY <1>2, <1>3

\* A step that leaves the stored inputs alone and releases, in one wallet, only
\* inputs of requests that are over.
LEMMA ReleaseCoinsHeld ==
    ASSUME TypeOK, OffersAgree, ExpiredInTime, CoinsHeld, [Next]_vars,
           UNCHANGED inOuts, \A id \in Ids : FlagsKept(id),
           \A n \in Nodes : \A id \in Ids :
             cloak'[n][id] = "none" <=> cloak[n][id] = "none",
           NEW k \in Nodes, NEW S \in SUBSET Ids,
           \A id \in S : Over(k, id)',
           reserved \ AbortedInputs(k, S) \subseteq reserved'
    PROVE  CoinsHeld'
<1> SUFFICES ASSUME NEW n \in Nodes, NEW id \in Ids
             PROVE  /\ \A c \in inOuts'[n][id] : Owner[c] = n
                    /\ id[1] = n => cloak'[n][id] = "none"
                    /\ (id[1] # n /\ cloak'[n][id] = "none") => inOuts'[n][id] = {}
                    /\ (id[1] = n /\ inOuts'[n][id] # {}) => id[2] <= sec'
                    /\ \A o \in Ids : o # id =>
                         \A c \in inOuts'[n][id] \cap inOuts'[n][o] :
                           Doubtful(n, c)'
                    /\ \A c \in inOuts'[n][id] \ reserved' :
                         Over(n, id)' \/ Doubtful(n, c)'
  BY ZenonT(60) DEF CoinsHeld
<1>1. \A c \in inOuts'[n][id] : Owner[c] = n
  BY ZenonT(60) DEF CoinsHeld
<1>2. id[1] = n => cloak'[n][id] = "none"
  BY ZenonT(60) DEF CoinsHeld
<1>3. (id[1] # n /\ cloak'[n][id] = "none") => inOuts'[n][id] = {}
  BY ZenonT(60) DEF CoinsHeld
<1>4. (id[1] = n /\ inOuts'[n][id] # {}) => id[2] <= sec'
  <2>1. id[2] \in Nat
    BY SMTT(60), ConstantsAssumption DEF Ids, Secs
  <2>2. (id[1] = n /\ inOuts[n][id] # {}) => id[2] <= sec
    BY SMTT(60) DEF CoinsHeld
  <2> QED
    BY SMTT(60), <2>1, <2>2, SecGrows
<1>5. ASSUME NEW o \in Ids, o # id, NEW c \in inOuts'[n][id] \cap inOuts'[n][o]
      PROVE  Doubtful(n, c)'
  <2>1. Doubtful(n, c)
    BY ZenonT(60), <1>5 DEF CoinsHeld
  <2> QED
    BY ZenonT(60), <2>1, DoubtfulStable
<1>6. ASSUME NEW c \in inOuts'[n][id] \ reserved'
      PROVE  Over(n, id)' \/ Doubtful(n, c)'
  <2>1. CASE c \in reserved
    <3>1. PICK z \in S : c \in inOuts[k][z]
      BY <1>6, <2>1 DEF AbortedInputs
    <3>2. z \in Ids /\ Over(k, z)'
      BY ZenonT(60), <3>1
    <3>3. k = n
      BY SMTT(60), <1>6, <3>1, <3>2 DEF CoinsHeld
    <3>4. CASE z = id
      BY SMTT(60), <3>2, <3>3, <3>4
    <3>5. CASE z # id
      <4>1. Doubtful(n, c)
        BY SMTT(60), <1>6, <3>1, <3>2, <3>3, <3>5 DEF CoinsHeld
      <4> QED
        BY ZenonT(60), <4>1, DoubtfulStable
    <3> QED
      BY ZenonT(60), <3>4, <3>5
  <2>2. CASE c \notin reserved
    <3>1. Over(n, id) \/ Doubtful(n, c)
      BY ZenonT(60), <1>6, <2>2 DEF CoinsHeld
    <3> QED
      BY ZenonT(60), <3>1, DoubtfulStable, OverStable
  <2> QED
    BY ZenonT(60), <2>1, <2>2
<1> QED
  BY <1>1, <1>2, <1>3, <1>4, <1>5, <1>6, ZenonT(20)

\* A step that leaves inputs, reservations and the requests of others alone.
LEMMA QuietCoinsHeld ==
    ASSUME TypeOK, OffersAgree, ExpiredInTime, CoinsHeld, [Next]_vars,
           UNCHANGED <<inOuts, cloak>>, reserved \subseteq reserved',
           \A id \in Ids : FlagsKept(id),
           NEW k \in Nodes
    PROVE  CoinsHeld'
<1>1. \A id \in {} : Over(k, id)'
  OBVIOUS
<1>2. reserved \ AbortedInputs(k, {}) \subseteq reserved'
  OBVIOUS
<1> QED
  BY <1>1, <1>2, ReleaseCoinsHeld

\* The user sends: what the new request names was free.
LEMMA SendCoinsHeld ==
    ASSUME TypeOK, OffersAgree, ExpiredInTime, CoinsHeld, [Next]_vars,
           NEW k \in Nodes, NEW C \in SUBSET AvailableCoins(k), SendCloaked(k, C)
    PROVE  CoinsHeld'
<1> DEFINE new == <<k, sec>>
<1>0. /\ new \in Ids /\ reserved' = reserved \cup C /\ sec' = sec
      /\ cloak' = cloak
  BY ZenonT(60), IdType DEF SendCloaked, TypeOK
<1>1. CASE new \in ours
  <2>1. UNCHANGED <<inOuts, cloak, req>>
    BY <1>1 DEF SendCloaked, SendEnigma
  <2>2. \A id \in Ids : FlagsKept(id)
    BY <2>1, SameRequest
  <2> QED
    BY ZenonT(60), <1>0, <2>1, <2>2, QuietCoinsHeld
<1>2. CASE new \notin ours
  <2>1. inOuts' = [inOuts EXCEPT ![k][new] = C]
    BY ZenonT(60), <1>2 DEF SendCloaked, SendEnigma
  <2>2. inOuts \in [Nodes -> [Ids -> SUBSET Coins]]
    BY ZenonT(60) DEF TypeOK
  <2>3. \A n \in Nodes : \A id \in Ids :
          inOuts'[n][id] = IF n = k /\ id = new THEN C ELSE inOuts[n][id]
    BY <1>0, <2>1, <2>2, NestedExcept
  <2>4. \A c \in C : Owner[c] = k /\ c \notin reserved
    BY ZenonT(60) DEF AvailableCoins
  <2>5. \A id \in Ids : id # new => req'[id] = req[id]
    BY ZenonT(60), <1>2 DEF SendCloaked, SendEnigma, TypeOK
  <2>6. \A n \in Nodes : \A id \in Ids : id # new /\ Over(n, id) => Over(n, id)'
    BY <2>5, SameRequest, OverStable
  <2> HIDE DEF new
  <2>7. ASSUME NEW id \in Ids, id # new, NEW c \in C, c \in inOuts[k][id]
        PROVE  Doubtful(k, c)'
    <3>1. CASE Doubtful(k, c)
      BY SMTT(60), <3>1, DoubtfulStable
    <3>2. CASE ~Doubtful(k, c)
      <4>1. Over(k, id)
        BY <2>4, <2>7, <3>2 DEF CoinsHeld
      <4>2. id[1] = k => id[2] < sec
        <5>1. id[1] = k => id[2] <= sec
          BY ZenonT(60), <2>7 DEF CoinsHeld
        <5>2. id[1] = k => id[2] # sec
          BY <2>7 DEF new, Ids
        <5>3. id[2] \in Nat /\ sec \in Nat
          BY ConstantsAssumption, SecGrows DEF Ids, Secs
        <5> QED
          BY SMTT(60), <5>1, <5>2, <5>3
      <4>3. Settled(k, id)
        BY <4>1, <4>2 DEF Settled
      <4> QED
        BY ZenonT(60), <2>7, <3>2, <4>3 DEF Doubtful
    <3> QED
      BY <3>1, <3>2
  <2> SUFFICES ASSUME NEW n \in Nodes, NEW id \in Ids
               PROVE  /\ \A c \in inOuts'[n][id] : Owner[c] = n
                      /\ id[1] = n => cloak'[n][id] = "none"
                      /\ (id[1] # n /\ cloak'[n][id] = "none")
                           => inOuts'[n][id] = {}
                      /\ (id[1] = n /\ inOuts'[n][id] # {}) => id[2] <= sec'
                      /\ \A o \in Ids : o # id =>
                           \A c \in inOuts'[n][id] \cap inOuts'[n][o] :
                             Doubtful(n, c)'
                      /\ \A c \in inOuts'[n][id] \ reserved' :
                           Over(n, id)' \/ Doubtful(n, c)'
    BY ZenonT(60) DEF CoinsHeld
  <2>a. /\ \A c \in inOuts[n][id] : Owner[c] = n
        /\ id[1] = n => cloak[n][id] = "none"
        /\ (id[1] # n /\ cloak[n][id] = "none") => inOuts[n][id] = {}
    BY Zenon DEF CoinsHeld
  <2>8. \A c \in inOuts'[n][id] : Owner[c] = n
    BY ZenonT(60), <2>3, <2>4, <2>a
  <2>9. /\ id[1] = n => cloak'[n][id] = "none"
        /\ (id[1] # n /\ cloak'[n][id] = "none") => inOuts'[n][id] = {}
    BY SMTT(60), <1>0, <2>3, <2>a DEF new
  <2>10. (id[1] = n /\ inOuts'[n][id] # {}) => id[2] <= sec'
    BY SMTT(60), <1>0, <2>3, SecGrows DEF CoinsHeld, new
  <2>11. ASSUME NEW o \in Ids, o # id, NEW c \in inOuts'[n][id] \cap inOuts'[n][o]
         PROVE  Doubtful(n, c)'
    <3>1. CASE n = k /\ id = new
      BY ZenonT(60), <2>3, <2>7, <2>11, <3>1
    <3>2. CASE n = k /\ o = new
      BY ZenonT(60), <2>3, <2>7, <2>11, <3>2
    <3>3. CASE n # k \/ (id # new /\ o # new)
      <4>1. c \in inOuts[n][id] \cap inOuts[n][o]
        BY ZenonT(60), <2>3, <2>11, <3>3
      <4>2. Doubtful(n, c)
        BY ZenonT(60), <2>11, <4>1 DEF CoinsHeld
      <4> QED
        BY SMTT(60), <4>2, DoubtfulStable
    <3> QED
      BY ZenonT(60), <3>1, <3>2, <3>3
  <2>12. ASSUME NEW c \in inOuts'[n][id] \ reserved'
         PROVE  Over(n, id)' \/ Doubtful(n, c)'
    <3>1. ~(n = k /\ id = new)
      BY SMTT(60), <1>0, <2>3, <2>12
    <3>2. c \in inOuts[n][id] \ reserved
      BY ZenonT(60), <1>0, <2>3, <2>12, <3>1
    <3>3. Over(n, id) \/ Doubtful(n, c)
      BY ZenonT(60), <3>2 DEF CoinsHeld
    <3>4. CASE id = new
      <4>1. id[1] # n
        BY <3>1, <3>4 DEF new
      <4> QED
        BY ZenonT(60), <4>1 DEF Over
    <3> QED
      BY ZenonT(60), <2>6, <3>3, <3>4, DoubtfulStable
  <2> QED
    BY <2>8, <2>9, <2>10, <2>11, <2>12, ZenonT(60)
<1> QED
  BY ZenonT(60), <1>1, <1>2

\* A cloaker offers coins that were free.
LEMMA AcceptCoinsHeld ==
    ASSUME TypeOK, OffersAgree, ExpiredInTime, CoinsHeld, [Next]_vars,
           NEW k \in Nodes, NEW m \in net, HandleRequest(k, m),
           ~AlreadyHandled(k, m.id), NEW C \in SUBSET AvailableCoins(k),
           AcceptRequest(k, m, C)
    PROVE  CoinsHeld'
<1>1. m.id \in Ids /\ m.id[1] # k
  BY ZenonT(60) DEF HandleRequest, TypeOK, Messages, OffersAgree, MessageAgrees
<1>2. cloak[k][m.id] = "none" /\ inOuts[k][m.id] = {}
  BY ZenonT(60), <1>1 DEF AlreadyHandled, CoinsHeld
<1>3. /\ reserved' = reserved \cup C /\ req' = req /\ sec' = sec
      /\ \A n \in Nodes : \A id \in Ids :
           inOuts'[n][id] = IF n = k /\ id = m.id THEN C ELSE inOuts[n][id]
      /\ \A n \in Nodes : \A id \in Ids :
           cloak'[n][id] = IF n = k /\ id = m.id THEN "live" ELSE cloak[n][id]
  <2>1. /\ inOuts \in [Nodes -> [Ids -> SUBSET Coins]]
        /\ cloak \in [Nodes -> [Ids -> {"none", "live", "aborted"}]]
    BY ZenonT(60) DEF TypeOK
  <2>2. /\ inOuts' = [inOuts EXCEPT ![k][m.id] = C]
        /\ cloak' = [cloak EXCEPT ![k][m.id] = "live"]
        /\ reserved' = reserved \cup C /\ req' = req /\ sec' = sec
    BY ZenonT(60) DEF AcceptRequest, HandleRequest, clockVars
  <2>3. \A n \in Nodes : \A id \in Ids :
          inOuts'[n][id] = IF n = k /\ id = m.id THEN C ELSE inOuts[n][id]
    BY SMTT(60), <1>1, <2>1, <2>2, NestedExcept
  <2>4. \A n \in Nodes : \A id \in Ids :
          cloak'[n][id] = IF n = k /\ id = m.id THEN "live" ELSE cloak[n][id]
    BY SMTT(60), <1>1, <2>1, <2>2, NestedExcept
  <2> QED
    BY ZenonT(60), <2>2, <2>3, <2>4
<1>4. \A c \in C : Owner[c] = k /\ c \notin reserved
  BY ZenonT(60) DEF AvailableCoins
<1>5. \A n \in Nodes : \A id \in Ids : Over(n, id) => Over(n, id)'
  BY ZenonT(60), <1>3, SameRequest, OverStable
<1>6. ASSUME NEW c \in C
      PROVE  Doubtful(k, c)'
  <2>1. Over(k, m.id)' /\ Settled(k, m.id)'
    BY <1>1 DEF Settled, Over
  <2> QED
    BY ZenonT(60), <1>1, <1>3, <2>1 DEF Doubtful
<1> SUFFICES ASSUME NEW n \in Nodes, NEW id \in Ids
             PROVE  /\ \A c \in inOuts'[n][id] : Owner[c] = n
                    /\ id[1] = n => cloak'[n][id] = "none"
                    /\ (id[1] # n /\ cloak'[n][id] = "none") => inOuts'[n][id] = {}
                    /\ (id[1] = n /\ inOuts'[n][id] # {}) => id[2] <= sec'
                    /\ \A o \in Ids : o # id =>
                         \A c \in inOuts'[n][id] \cap inOuts'[n][o] :
                           Doubtful(n, c)'
                    /\ \A c \in inOuts'[n][id] \ reserved' :
                         Over(n, id)' \/ Doubtful(n, c)'
  BY ZenonT(60) DEF CoinsHeld
<1>a. /\ \A c \in inOuts[n][id] : Owner[c] = n
      /\ id[1] = n => cloak[n][id] = "none"
      /\ (id[1] # n /\ cloak[n][id] = "none") => inOuts[n][id] = {}
      /\ (id[1] = n /\ inOuts[n][id] # {}) => id[2] <= sec
  BY Zenon DEF CoinsHeld
<1>b. /\ inOuts'[n][id] = IF n = k /\ id = m.id THEN C ELSE inOuts[n][id]
      /\ cloak'[n][id] = IF n = k /\ id = m.id THEN "live" ELSE cloak[n][id]
      /\ sec' = sec
  BY Zenon, <1>3
<1>7. \A c \in inOuts'[n][id] : Owner[c] = n
  BY Zenon, <1>4, <1>a, <1>b
<1>8. /\ id[1] = n => cloak'[n][id] = "none"
      /\ (id[1] # n /\ cloak'[n][id] = "none") => inOuts'[n][id] = {}
      /\ (id[1] = n /\ inOuts'[n][id] # {}) => id[2] <= sec'
  BY ZenonT(60), <1>1, <1>a, <1>b
<1>9. ASSUME NEW o \in Ids, o # id, NEW c \in inOuts'[n][id] \cap inOuts'[n][o]
      PROVE  Doubtful(n, c)'
  <2>1. CASE n = k /\ c \in C
    BY ZenonT(60), <1>6, <2>1
  <2>2. CASE ~(n = k /\ c \in C)
    <3>1. c \in inOuts[n][id] \cap inOuts[n][o]
      BY SMTT(60), <1>3, <1>9, <2>2
    <3>2. Doubtful(n, c)
      BY ZenonT(60), <1>9, <3>1 DEF CoinsHeld
    <3> QED
      BY ZenonT(60), <3>2, DoubtfulStable
  <2> QED
    BY ZenonT(60), <2>1, <2>2
<1>10. ASSUME NEW c \in inOuts'[n][id] \ reserved'
       PROVE  Over(n, id)' \/ Doubtful(n, c)'
  <2>1. c \in inOuts[n][id] \ reserved
    BY ZenonT(60), <1>3, <1>10
  <2>2. Over(n, id) \/ Doubtful(n, c)
    BY Zenon, <2>1 DEF CoinsHeld
  <2> QED
    BY ZenonT(60), <1>5, <2>2, DoubtfulStable
<1> QED
  BY <1>7, <1>8, <1>9, <1>10, ZenonT(60)

\* Retry moves the inputs of a request that is not over.
LEMMA RetryCoinsHeld ==
    ASSUME TypeOK, OffersAgree, ExpiredInTime, CoinsHeld, [Next]_vars,
           NEW k \in Nodes, NEW i \in todo[k], RetryRequest(k, i)
    PROVE  CoinsHeld'
<1> DEFINE new == <<k, sec>>
<1>1. /\ i \in Ids /\ new \in Ids /\ i[1] = k /\ i # new
      /\ ~req[i].aborted /\ ShouldRetry(i)
  <2>1. i \in Ids /\ new \in Ids
    BY ZenonT(60), IdType DEF TypeOK
  <2>2. i[1] = k /\ i[2] < sec /\ ~req[i].aborted /\ ShouldRetry(i)
    BY ZenonT(60) DEF OffersAgree, ExpiredInTime, RetryRequest
  <2>3. i # new
    BY SMTT(60), <2>2, SecGrows
  <2> QED
    BY ZenonT(60), <2>1, <2>2, <2>3
<1>2. ~Over(k, i)
  BY ZenonT(60), <1>1 DEF Over
<1>3. /\ reserved' = reserved /\ cloak' = cloak /\ sec' = sec
      /\ \A id \in Ids : id \notin {i, new} => req'[id] = req[id]
  BY ZenonT(60) DEF RetryRequest, TypeOK
<1>4. \A n \in Nodes : \A id \in Ids :
        inOuts'[n][id] = IF n = k /\ id = new THEN inOuts[k][i]
                         ELSE IF n = k /\ id = i THEN {} ELSE inOuts[n][id]
  <2> DEFINE f == [inOuts[k] EXCEPT ![i] = {}, ![new] = inOuts[k][i]]
  <2>1. inOuts \in [Nodes -> [Ids -> SUBSET Coins]]
    BY DEF TypeOK
  <2>2. \A id \in Ids : f[id] = IF id = new THEN inOuts[k][i]
                                ELSE IF id = i THEN {} ELSE inOuts[k][id]
    BY ZenonT(60), <1>1, <2>1
  <2>3. inOuts' = [inOuts EXCEPT ![k] = f]
    BY ZenonT(60) DEF RetryRequest
  <2> HIDE DEF f, new
  <2>4. \A n \in Nodes : inOuts'[n] = IF n = k THEN f ELSE inOuts[n]
    BY ZenonT(60), <2>1, <2>3
  <2> QED
    BY ZenonT(60), <2>2, <2>4
<1>5. \A n \in Nodes : \A id \in Ids : id # i /\ Over(n, id)
                                        => Over(n, id)' \/ (n = k /\ id = new)
  <2> SUFFICES ASSUME NEW n \in Nodes, NEW id \in Ids, id # i, Over(n, id),
                      ~(n = k /\ id = new)
               PROVE  Over(n, id)'
    BY ZenonT(60)
  <2>1. CASE id = new
    BY ZenonT(60), <2>1 DEF Over
  <2>2. CASE id # new
    BY ZenonT(60), <1>3, <2>2, SameRequest, OverStable
  <2> QED
    BY SMTT(60), <2>1, <2>2
<1> HIDE DEF new
\* What is named twice afterwards was named twice before.
<1>6. ASSUME NEW n \in Nodes, NEW id \in Ids, NEW o \in Ids, o # id,
             NEW c \in inOuts'[n][id] \cap inOuts'[n][o]
      PROVE  Doubtful(n, c)'
  <2> DEFINE Was(x) == IF n = k /\ x = new THEN i ELSE x
  <2>1. id # i \/ n # k
    BY ZenonT(60), <1>1, <1>4, <1>6
  <2>2. o # i \/ n # k
    BY ZenonT(60), <1>1, <1>4, <1>6
  <2>3. Was(id) \in Ids /\ Was(o) \in Ids /\ Was(id) # Was(o)
    BY ZenonT(60), <1>1, <1>6, <2>1, <2>2
  <2>4. c \in inOuts[n][Was(id)] \cap inOuts[n][Was(o)]
    BY ZenonT(60), <1>4, <1>6, <2>1, <2>2
  <2>5. Doubtful(n, c)
    BY ZenonT(60), <2>3, <2>4 DEF CoinsHeld
  <2> QED
    BY ZenonT(60), <2>5, DoubtfulStable
<1>7. ASSUME NEW n \in Nodes, NEW id \in Ids, NEW c \in inOuts'[n][id] \ reserved'
      PROVE  Over(n, id)' \/ Doubtful(n, c)'
  <2>1. CASE n = k /\ id = new
    <3>1. c \in inOuts[k][i] \ reserved
      BY ZenonT(60), <1>3, <1>4, <1>7, <2>1
    <3>2. Doubtful(k, c)
      BY ZenonT(60), <1>1, <1>2, <3>1 DEF CoinsHeld
    <3> QED
      BY SMTT(60), <2>1, <3>2, DoubtfulStable
  <2>2. CASE ~(n = k /\ id = new)
    <3>1. c \in inOuts[n][id] \ reserved /\ ~(n = k /\ id = i)
      BY ZenonT(60), <1>1, <1>3, <1>4, <1>7, <2>2
    <3>2. Over(n, id) \/ Doubtful(n, c)
      BY ZenonT(60), <3>1 DEF CoinsHeld
    <3>3. CASE id = i
      <4>1. id[1] # n
        BY ZenonT(60), <1>1, <3>1, <3>3
      <4> QED
        BY SMTT(60), <4>1 DEF Over
    <3> QED
      BY ZenonT(60), <1>5, <2>2, <3>2, <3>3, DoubtfulStable
  <2> QED
    BY ZenonT(60), <2>1, <2>2
<1>8. ASSUME NEW n \in Nodes, NEW id \in Ids
      PROVE  /\ \A c \in inOuts'[n][id] : Owner[c] = n
             /\ id[1] = n => cloak'[n][id] = "none"
             /\ (id[1] # n /\ cloak'[n][id] = "none") => inOuts'[n][id] = {}
             /\ (id[1] = n /\ inOuts'[n][id] # {}) => id[2] <= sec'
  <2>a. \A x \in Ids : /\ \A c \in inOuts[n][x] : Owner[c] = n
                       /\ x[1] = n => cloak[n][x] = "none"
                       /\ (x[1] # n /\ cloak[n][x] = "none") => inOuts[n][x] = {}
    BY Zenon DEF CoinsHeld
  <2>1. \A c \in inOuts'[n][id] : Owner[c] = n
    BY SMTT(60), <1>1, <1>4, <2>a
  <2>2. /\ id[1] = n => cloak'[n][id] = "none"
        /\ (id[1] # n /\ cloak'[n][id] = "none") => inOuts'[n][id] = {}
    <3>1. new[1] = k
      BY ZenonT(60) DEF new
    <3> QED BY SMTT(60), <1>3, <1>4, <2>a, <3>1
  <2>3. (id[1] = n /\ inOuts'[n][id] # {}) => id[2] <= sec'
    BY <1>3, <1>4, SecGrows DEF CoinsHeld, new
  <2> QED
    BY ZenonT(60), <2>1, <2>2, <2>3
<1> QED
  BY <1>6, <1>7, <1>8, ZenonT(60) DEF CoinsHeld

\* A step that neither sends nor retries keeps the flags of every request.
LEMMA NoNewId ==
    ASSUME TypeOK, [Next]_vars, UNCHANGED <<nSends, todo>>, NEW id \in Ids
    PROVE  FlagsKept(id)
<1>1. ~Created(id)
  <2>1. nSends \in Nat
    BY SMTT(60), ConstantsAssumption DEF TypeOK
  <2>2. ASSUME NEW n, NEW C, SendCloaked(n, C) PROVE FALSE
    BY SMTT(60), <2>1, <2>2 DEF SendCloaked
  <2> QED
    BY ZenonT(60), <2>2 DEF Created
<1>2. ~Moved(id)
  <2>1. ASSUME NEW n \in Nodes, NEW i \in todo[n], RetryRequest(n, i) PROVE FALSE
    <3>1. todo' = [todo EXCEPT ![n] = @ \ {i}]
      BY Zenon, <2>1 DEF RetryRequest
    <3> QED
      BY <3>1 DEF TypeOK
  <2> QED
    BY ZenonT(60), <2>1 DEF Moved
<1> QED
  BY <1>1, <1>2, FlagsChange

\* Every step keeps CoinsHeld.
LEMMA StepCoinsHeld ==
    ASSUME TypeOK, OffersAgree, ExpiredInTime, CoinsHeld, [Next]_vars
    PROVE  CoinsHeld'
<1>1. ASSUME UNCHANGED <<inOuts, cloak, reserved>>, \A id \in Ids : FlagsKept(id)
      PROVE  CoinsHeld'
  <2>1. CASE Nodes = {}
    BY Zenon, <2>1 DEF CoinsHeld
  <2>2. CASE Nodes # {}
    BY <1>1, <2>2, QuietCoinsHeld
  <2> QED
    BY ZenonT(60), <2>1, <2>2
<1>2. ASSUME UNCHANGED <<inOuts, cloak, reserved, req>>
      PROVE  CoinsHeld'
  BY <1>1, <1>2, SameRequest
<1>3. ASSUME UNCHANGED <<inOuts, cloak, reserved, nSends, todo>>
      PROVE  CoinsHeld'
  BY <1>1, <1>3, NoNewId
<1>4. ASSUME NEW n \in Nodes, NEW i \in ours, CancelSend(n, i)
      PROVE  CoinsHeld'
  <2>1. i \in Ids /\ req[i] \in Requests
    BY DEF TypeOK
  <2>2. /\ UNCHANGED <<inOuts, cloak, nSends, todo>>
        /\ reserved' = reserved \ AbortedInputs(n, {i})
        /\ req' = [req EXCEPT ![i].aborted = TRUE]
    BY <1>4 DEF CancelSend, clockVars
  <2>3. req'[i].aborted
    BY ZenonT(60), <2>1, <2>2 DEF TypeOK, Requests
  <2>4. \A id \in {i} : Over(n, id)'
    BY ZenonT(60), <2>3 DEF Over
  <2> QED
    BY SMTT(60), <2>1, <2>2, <2>4, NoNewId, ReleaseCoinsHeld
<1>5. ASSUME NEW n \in Nodes, NEW i \in todo[n], AbortRequest(n, i)
      PROVE  CoinsHeld'
  <2>1. i \in Ids /\ Over(n, i)
    BY ZenonT(60), <1>5 DEF TypeOK, AbortRequest, ExpiredInTime, Over
  <2>2. /\ UNCHANGED <<inOuts, cloak, req>>
        /\ reserved' = reserved \ AbortedInputs(n, {i})
    BY SMTT(60), <1>5 DEF AbortRequest
  <2>3. \A id \in Ids : FlagsKept(id)
    BY ZenonT(60), <2>2, SameRequest
  <2>4. \A id \in {i} : Over(n, id)'
    BY SMTT(60), <2>1, <2>3, OverStable
  <2>5. {i} \in SUBSET Ids /\ reserved \ AbortedInputs(n, {i}) \subseteq reserved'
    BY Zenon, <2>1, <2>2
  <2>6. /\ UNCHANGED inOuts
        /\ \A w \in Nodes : \A id \in Ids : cloak'[w][id] = "none" <=> cloak[w][id] = "none"
    BY Zenon, <2>2
  <2> QED
    BY ZenonT(60), <2>3, <2>4, <2>5, <2>6, ReleaseCoinsHeld
<1>6. ASSUME NEW n \in Nodes, NEW m \in net, HandleAcceptResponseFromSender(n, m)
      PROVE  CoinsHeld'
  <2>1. m.id \in Ids
    BY ZenonT(60), <1>6 DEF HandleAcceptResponseFromSender, TypeOK, Messages
  <2>2. UNCHANGED <<inOuts, req>> /\ \A id \in Ids : FlagsKept(id)
    BY ZenonT(60), <1>6, SameRequest DEF HandleAcceptResponseFromSender
  <2>3. CASE cloak[n][m.id] = "none"
    BY ZenonT(60), <1>1, <1>6, <2>2, <2>3 DEF HandleAcceptResponseFromSender
  <2>4. CASE cloak[n][m.id] # "none"
    <3>1. /\ cloak' = [cloak EXCEPT ![n][m.id] = "aborted"]
          /\ reserved' = reserved \ AbortedInputs(n, {m.id})
      BY SMTT(60), <1>6, <2>4 DEF HandleAcceptResponseFromSender
    <3>2. m.id[1] # n
      BY ZenonT(60), <2>1, <2>4 DEF CoinsHeld
    <3>3. \A id \in {m.id} : Over(n, id)'
      BY ZenonT(60), <3>2 DEF Over
    <3>4. ASSUME NEW k \in Nodes, NEW id \in Ids
          PROVE  cloak'[k][id] = "none" <=> cloak[k][id] = "none"
      <4>1. cloak \in [Nodes -> [Ids -> {"none", "live", "aborted"}]]
        BY ZenonT(60) DEF TypeOK
      <4>2. cloak'[k][id] = IF k = n /\ id = m.id THEN "aborted" ELSE cloak[k][id]
        BY SMTT(60), <2>1, <3>1, <4>1, NestedExcept
      <4> QED
        BY ZenonT(60), <2>4, <4>2
    <3> QED
      BY SMTT(60), <2>1, <2>2, <3>1, <3>3, <3>4, ReleaseCoinsHeld
  <2> QED
    BY ZenonT(60), <2>3, <2>4
<1>7. ASSUME NEW n \in Nodes, AbortStored(n)
      PROVE  CoinsHeld'
  <2> DEFINE gone == {id \in Ids : cloak[n][id] = "live" /\ ShouldAbort(n, id)}
             f == [id \in Ids |-> IF id \in gone THEN "aborted" ELSE cloak[n][id]]
  <2>1. /\ UNCHANGED <<inOuts, req>> /\ cloak' = [cloak EXCEPT ![n] = f]
        /\ reserved' = reserved \ AbortedInputs(n, gone)
    BY SMTT(60), <1>7 DEF AbortStored
  <2>2. \A id \in Ids : FlagsKept(id)
    BY ZenonT(60), <2>1, SameRequest
  <2>3. \A id \in gone : Over(n, id)'
    BY SMTT(60) DEF CoinsHeld, Over
  <2>4. \A id \in Ids : f[id] = "none" <=> cloak[n][id] = "none"
    BY ZenonT(60)
  <2> HIDE DEF f
  <2>5. \A k \in Nodes : \A id \in Ids :
          cloak'[k][id] = "none" <=> cloak[k][id] = "none"
    BY ZenonT(60), <2>1, <2>4 DEF TypeOK
  <2>6. gone \in SUBSET Ids
    OBVIOUS
  <2> HIDE DEF gone
  <2> QED
    BY ZenonT(60), <2>1, <2>2, <2>3, <2>5, <2>6, ReleaseCoinsHeld
<1>8. ASSUME NEW n \in Nodes, User(n)
      PROVE  CoinsHeld'
  BY <1>3, <1>4, <1>8, SendCoinsHeld, ZenonT(20) DEF User, SpendCoin, clockVars
<1>9. ASSUME NEW n \in Nodes, MessageThread(n)
      PROVE  CoinsHeld'
  <2>1. ASSUME NEW m \in net, HandleRequest(n, m)
        PROVE  CoinsHeld'
    BY <1>2, <2>1, AcceptCoinsHeld, ZenonT(20) DEF HandleRequest, DeclineRequest
  <2> QED
    BY <1>3, <1>6, <1>9, <2>1, ZenonT(60)
    DEF MessageThread, HandleSignRequest, HandleCloakingAccept,
        HandleSignResponse, ReceiveTx, FinishSigning, clockVars
<1>10. ASSUME NEW n \in Nodes, EnigmaThread(n)
       PROVE  CoinsHeld'
  BY <1>2, <1>5, <1>7, <1>10, RetryCoinsHeld, ZenonT(20)
  DEF EnigmaThread, ExpireOldEnigma
<1>11. CASE Time \/ UNCHANGED vars
  BY ZenonT(60), <1>3, <1>11 DEF Time, NextSecond, NewBlock, TimeOut, vars
<1> QED
  BY <1>8, <1>9, <1>10, <1>11 DEF Next

\* Initially nothing is named.
LEMMA InitCoinsHeld == Init => CoinsHeld
BY DEF Init, CoinsHeld

\* The coins of a send that can still complete stay reserved, in all behaviours,
\* unless a request that is over names them too.
THEOREM PendingSendsHeld == Spec => []PendingSendHeld
<1> DEFINE Inv == TypeOK /\ OffersAgree /\ ExpiredInTime /\ CoinsHeld
<1>1. Init => Inv
  BY SMTT(60), InitTypeOK, InitOffersAgree, InitExpiredInTime, InitCoinsHeld
<1>2. Inv /\ [Next]_vars => Inv'
  BY ZenonT(60), StepTypeOK, StepOffersAgree, StepExpiredInTime, StepCoinsHeld
<1>3. Inv => PendingSendHeld
  <2> SUFFICES ASSUME Inv, NEW id \in Ids, Pending(id), NEW c \in inOuts[id[1]][id],
                      c \notin reserved
               PROVE  \E o \in Ids : Over(id[1], o) /\ c \in inOuts[id[1]][o]
    BY ZenonT(60) DEF PendingSendHeld
  <2>1. id[1] \in Nodes
    BY ZenonT(60) DEF Ids
  <2>2. Over(id[1], id) \/ Doubtful(id[1], c)
    BY ZenonT(60), <2>1 DEF CoinsHeld
  <2> QED
    BY ZenonT(60), <2>2 DEF Pending, Doubtful, Settled
<1> QED
  BY <1>1, <1>2, <1>3, PTL DEF Spec

-----------------------------------------------------------------------------
\* No reservation is forgotten.

\* Inputs kept under an id of the wallet belong to a request it has stored.
InputsOfStored == \A id \in Ids : inOuts[id[1]][id] # {} => id \in ours

\* Every step keeps InputsOfStored.
LEMMA StepInputsOfStored ==
    ASSUME TypeOK, OffersAgree, ExpiredInTime, InputsOfStored, [Next]_vars
    PROVE  InputsOfStored'
<1> SUFFICES ASSUME NEW id \in Ids, inOuts'[id[1]][id] # {}
             PROVE  id \in ours'
  BY ZenonT(60) DEF InputsOfStored
<1>1. CASE Created(id)
  BY ZenonT(60), <1>1 DEF Created, SendCloaked, SendEnigma
<1>2. CASE Moved(id)
  <2>1. PICK n \in Nodes : \E i \in todo[n] :
               RetryRequest(n, i) /\ id \in {i, <<n, sec>>}
    BY ZenonT(60), <1>2 DEF Moved
  <2>2. PICK i \in todo[n] : RetryRequest(n, i) /\ id \in {i, <<n, sec>>}
    BY <2>1
  <2>3. CASE id = <<n, sec>>
    BY ZenonT(60), <2>2, <2>3 DEF RetryRequest
  <2>4. CASE id = i /\ i # <<n, sec>>
    <3> DEFINE new == <<n, sec>>
               f == [inOuts[n] EXCEPT ![i] = {}, ![new] = inOuts[n][i]]
    <3>1. i \in Ids /\ i[1] = n /\ inOuts \in [Nodes -> [Ids -> SUBSET Coins]]
      BY ZenonT(60) DEF TypeOK, OffersAgree
    <3>2. f[i] = {}
      BY ZenonT(60), <2>4, <3>1
    <3>3. inOuts' = [inOuts EXCEPT ![n] = f]
      BY ZenonT(60), <2>2 DEF RetryRequest
    <3> HIDE DEF f
    <3>4. inOuts'[n][i] = {}
      BY ZenonT(60), <3>1, <3>2, <3>3
    <3> QED
      BY ZenonT(60), <2>4, <3>1, <3>4
  <2> QED
    BY ZenonT(60), <2>2, <2>3, <2>4
<1>3. CASE ~Created(id) /\ ~Moved(id)
  <2>1. inOuts[id[1]][id] # {}
    BY ZenonT(60), <1>3, OwnInputsKept
  <2>2. id \in ours
    BY ZenonT(60), <2>1 DEF InputsOfStored
  <2> QED
    BY ZenonT(60), <1>3, <2>2, OursKept
<1> QED
  BY ZenonT(60), <1>1, <1>2, <1>3

\* A coin a stored request names stays named, unless a request takes over the id
\* of another.
LEMMA NamedStable ==
    ASSUME TypeOK, OffersAgree, ExpiredInTime, CoinsHeld, InputsOfStored,
           [Next]_vars, ~SameSecond,
           NEW n \in Nodes, NEW c, NEW id \in Ids, c \in inOuts[n][id]
    PROVE  \E o \in Ids : c \in inOuts'[n][o]
<1>1. CASE id[1] # n
  <2>1. PICK C : C = inOuts[n][id]
    BY ZenonT(60)
  <2>2. Offered(n, id, C)
    BY ZenonT(60), <1>1, <2>1 DEF Offered, CoinsHeld
  <2>3. Offered(n, id, C)'
    BY ZenonT(60), <2>2, OfferedStable
  <2> QED
    BY SMTT(60), <2>1, <2>3 DEF Offered
<1>2. CASE id[1] = n /\ Moved(id)
  <2>1. id \in ours
    BY ZenonT(60), <1>2 DEF InputsOfStored
  <2>2. PICK k \in Nodes : \E i \in todo[k] :
               RetryRequest(k, i) /\ id \in {i, <<k, sec>>}
    BY SMTT(60), <1>2 DEF Moved
  <2>3. PICK i \in todo[k] : RetryRequest(k, i) /\ id \in {i, <<k, sec>>}
    BY ZenonT(60), <2>2
  <2>4. id # <<k, sec>>
    BY ZenonT(60), <2>1, <2>3 DEF SameSecond
  <2>5. id = i /\ k = n
    BY ZenonT(60), <1>2, <2>3, <2>4 DEF OffersAgree
  <2> DEFINE new == <<n, sec>>
             f == [inOuts[n] EXCEPT ![id] = {}, ![new] = inOuts[n][id]]
  <2>6. new \in Ids /\ inOuts \in [Nodes -> [Ids -> SUBSET Coins]]
    BY ZenonT(60), IdType DEF TypeOK
  <2>7. f[new] = inOuts[n][id]
    BY <2>6
  <2>8. inOuts' = [inOuts EXCEPT ![n] = f]
    BY ZenonT(60), <2>3, <2>5 DEF RetryRequest
  <2> HIDE DEF f
  <2>9. c \in inOuts'[n][new]
    BY ZenonT(60), <2>6, <2>7, <2>8
  <2> QED
    BY ZenonT(60), <2>6, <2>9
<1>3. CASE id[1] = n /\ ~Moved(id)
  <2>1. id \in ours
    BY ZenonT(60), <1>3 DEF InputsOfStored
  <2>2. ~Created(id)
    BY SMTT(60), <2>1 DEF Created
  <2> QED
    BY ZenonT(60), <1>3, <2>2, OwnInputsKept
<1> QED
  BY ZenonT(60), <1>1, <1>2, <1>3

\* A coin that a step reserves is named by the request it is reserved for.
LEMMA NewReservationNamed ==
    ASSUME TypeOK, OffersAgree, [Next]_vars, ~SameSecond,
           NEW c \in reserved', c \notin reserved
    PROVE  \E o \in Ids : c \in inOuts'[Owner[c]][o]
<1> DEFINE Goal == \E o \in Ids : c \in inOuts'[Owner[c]][o]
<1>0. inOuts \in [Nodes -> [Ids -> SUBSET Coins]]
  BY ZenonT(60) DEF TypeOK
<1>1. ASSUME NEW n \in Nodes, NEW C \in SUBSET AvailableCoins(n), SendCloaked(n, C)
      PROVE  Goal
  <2> DEFINE new == <<n, sec>>
  <2>1. new \in Ids /\ new \notin ours
    BY ZenonT(60), <1>1, IdType DEF SameSecond, TypeOK
  <2>2. c \in C /\ Owner[c] = n
    BY ZenonT(60), <1>1 DEF SendCloaked, AvailableCoins
  <2>3. inOuts' = [inOuts EXCEPT ![n][new] = C]
    BY ZenonT(60), <1>1, <2>1 DEF SendCloaked, SendEnigma
  <2> HIDE DEF new
  <2>4. inOuts'[n][new] = C
    BY ZenonT(60), <1>0, <2>1, <2>3, NestedExcept
  <2> QED
    BY ZenonT(60), <2>1, <2>2, <2>4
<1>2. ASSUME NEW n \in Nodes, NEW m \in net, HandleRequest(n, m)
      PROVE  Goal
  <2>1. m.id \in Ids
    BY ZenonT(60), <1>2 DEF HandleRequest, TypeOK, Messages
  <2>2. PICK C \in SUBSET AvailableCoins(n) : AcceptRequest(n, m, C)
    BY ZenonT(60), <1>2 DEF HandleRequest, DeclineRequest
  <2>3. c \in C /\ Owner[c] = n
    BY ZenonT(60), <2>2 DEF AcceptRequest, AvailableCoins
  <2>4. inOuts'[n][m.id] = C
    BY ZenonT(60), <1>0, <2>1, <2>2, NestedExcept DEF AcceptRequest
  <2> QED
    BY ZenonT(60), <2>1, <2>3, <2>4
<1>3. ASSUME NEW n \in Nodes, User(n) \/ MessageThread(n) \/ EnigmaThread(n)
      PROVE  Goal
  <2>1. ~(reserved' \subseteq reserved)
    OBVIOUS
  <2>2. ASSUME NEW S, reserved' = reserved \ S PROVE FALSE
    BY <2>2
  <2>3. ASSUME reserved' = reserved PROVE FALSE
    BY <2>3
  <2> QED
    BY <1>1, <1>2, <1>3, <2>2, <2>3, ZenonT(60)
    DEF User, CancelSend, SpendCoin, MessageThread, HandleSignRequest,
        HandleAcceptResponseFromSender, HandleCloakingAccept,
        HandleSignResponse, ReceiveTx, FinishSigning, EnigmaThread,
        ExpireOldEnigma, RetryRequest, AbortRequest, AbortStored
<1> QED
  BY ZenonT(60), <1>3 DEF Next, Time, NextSecond, NewBlock, TimeOut, vars

\* While no request gets the id of one the wallet holds, every reserved coin
\* is named by a stored request, so that some Abort can give it back.
THEOREM ReservationsStayTracked ==
    Spec /\ [][~SameSecond]_vars => []ReservationsTracked
<1> DEFINE Inv == /\ TypeOK /\ OffersAgree /\ ExpiredInTime /\ CoinsHeld
                  /\ InputsOfStored /\ ReservationsTracked
<1>1. Init => Inv
  <2>1. Init => InputsOfStored /\ ReservationsTracked
    BY SMTT(60) DEF Init, InputsOfStored, ReservationsTracked, Ids
  <2> QED
    BY ZenonT(60), <2>1, InitTypeOK, InitOffersAgree, InitExpiredInTime, InitCoinsHeld
<1>2. Inv /\ [Next]_vars /\ [~SameSecond]_vars => Inv'
  <2> SUFFICES ASSUME Inv, [Next]_vars, [~SameSecond]_vars PROVE Inv'
    BY ZenonT(60)
  <2>1. ASSUME ~SameSecond, NEW c \in reserved'
        PROVE  \E id \in Ids : c \in inOuts'[Owner[c]][id]
    <3>1. CASE c \notin reserved
      BY ZenonT(60), <2>1, <3>1, NewReservationNamed
    <3>2. CASE c \in reserved
      <4>1. Owner[c] \in Nodes
        BY ZenonT(60), <3>2, ConstantsAssumption DEF TypeOK
      <4>2. PICK id \in Ids : c \in inOuts[Owner[c]][id]
        BY SMTT(60), <3>2 DEF ReservationsTracked
      <4> QED
        BY ZenonT(60), <2>1, <4>1, <4>2, NamedStable
    <3> QED
      BY SMTT(60), <3>1, <3>2
  <2>2. ReservationsTracked'
    <3>1. CASE UNCHANGED vars
      BY <3>1 DEF vars, ReservationsTracked
    <3> QED
      BY ZenonT(60), <2>1, <3>1 DEF ReservationsTracked
  <2> QED
    BY ZenonT(60), <2>2, StepTypeOK, StepOffersAgree, StepExpiredInTime, StepCoinsHeld,
       StepInputsOfStored
<1>3. Inv => ReservationsTracked
  OBVIOUS
<1> HIDE DEF Inv
<1> QED
  BY <1>1, <1>2, <1>3, PTL DEF Spec

=============================================================================
