----------------------------- MODULE EnigmaLocks -----------------------------
(***************************************************************************)
(* The critical sections the Enigma code takes, thread by thread.  An       *)
(* operation is its trace of lock steps: everything it does between two of  *)
(* them is abstracted away, and what is nested in a scope is nested in      *)
(* Holding.  CCriticalSection is a recursive mutex, LOCK waits for it,      *)
(* TRY_LOCK never waits.  The locks that are only taken last and released   *)
(* at once (key store, sockets, packet hashes, mempool) cannot be part of a *)
(* cycle and are left out.                                                  *)
(***************************************************************************)
EXTENDS Naturals, SequencesExt

CONSTANTS
    Threads,     \* the threads of the process that are modelled
    Operations   \* Operations[t]: the traces thread t may run, over and over

VARIABLES
    todo,        \* todo[t]: the rest of the trace t is running
    held         \* held[t]: the locks t has, in the order it took them

vars == <<todo, held>>

(* The locks, named for the critical sections of CWallet, main and net. *)
Locks == {"cs_main", "cs_wallet", "our", "requests", "inouts", "request",
          "accepts", "signs", "responses", "anns", "vNodes"}

-----------------------------------------------------------------------------
(* Traces.  The scoped lock objects of sync.h. *)

Lock(l) == <<[op |-> "lock", lock |-> l, skip |-> 0]>>
Unlock(l) == <<[op |-> "unlock", lock |-> l, skip |-> 0]>>

(* LOCK(l) at the start of a scope whose lock steps are body. *)
Holding(l, body) == Lock(l) \o body \o Unlock(l)

(* LOCK2(l, m) *)
Holding2(l, m, body) == Holding(l, Holding(m, body))

(* TRY_LOCK(l); if (l) body; the lock lives to the end of the function, so  *)
(* rest runs with it when it was taken.                                     *)
TryHolding(l, body, rest) ==
    <<[op |-> "try", lock |-> l, skip |-> Len(body)]>> \o body \o rest \o Unlock(l)

Nothing == <<>>

-----------------------------------------------------------------------------
(* What the operations are made of. *)

(* BanPeer, ClearBan, IsEnigmaPeerBanned *)
Banning == Holding("anns", Nothing)

(* CCloakingData::Transmit: elects the relays, copies the list of nodes. *)
Transmit == Holding("anns", Nothing) \o Holding("vNodes", Nothing)

(* CCloakingRequest::WasUpdated, which marks the wallet's coins dirty. *)
WasUpdated == Holding("cs_wallet", Nothing)

(* CCloakingRequest::Abort *)
Abort == Holding("inouts", Nothing)

(* CCloakingRequest::Retry *)
Retry == Holding2("inouts", "our", WasUpdated \o Transmit)

(* Enigma::SendEnigma *)
SendEnigma ==
    Holding("our", Nothing) \o Holding("inouts", Nothing) \o WasUpdated \o Transmit

-----------------------------------------------------------------------------
(* The Enigma thread. *)

(* Fault: LOCK for the second TRY_LOCK. *)
ExpireOldEnigmaWaits(renew) ==
    TryHolding("our", Banning \o renew, Holding("requests", Banning \o Abort))
    \o TryHolding("anns", Nothing, Nothing)

(* CWallet::ExpireOldEnigma, then CullEnigmaAnns.  The cloakers who did not *)
(* sign an expired request of ours are banned and the request is renewed    *)
(* (retried or aborted); an expired one of somebody else's is aborted.      *)
ExpireOldEnigma(renew) ==
    TryHolding("our", Banning \o renew,
        TryHolding("requests", Banning \o Abort, Nothing))
    \o TryHolding("anns", Nothing, Nothing)

-----------------------------------------------------------------------------
(* The message thread: ProcessMessages holds cs_main around each message.   *)

ProcessRequest ==
    Holding2("requests", "our", Nothing)
    \o Holding("cs_wallet", Nothing)                                \* GetBalance
    \o Holding2("request", "inouts",                                \* GetCloakingInputsMine
           Holding("cs_wallet", Nothing) \o Holding("inouts", Nothing))
    \o Holding2("accepts", "cs_wallet", Nothing)
    \o Transmit

CreateTransactionAndRequestSign == Holding("inouts", WasUpdated \o Transmit)

HandleCloakingAccept ==
    Banning
    \o Holding2("requests", "accepts",
           Holding("our", Nothing) \o Transmit \o CreateTransactionAndRequestSign)

(* SignAndRespond as the cloaker: signs what is ours, answers the sender. *)
SignAsCloaker ==
    Holding("request",
        Holding("requests", Nothing) \o Holding("inouts", Banning \o Transmit))

(* SignAndRespond as the sender: the transaction goes to the wallet. *)
SignAsSender ==
    Holding("request",
        Holding("our", Nothing) \o
        Holding("inouts", Holding("vNodes", Nothing) \o Holding("cs_wallet", Nothing) \o Banning))

HandleSignRequest == Banning \o Holding("signs", SignAsCloaker)

HandleSignResponse ==
    Banning \o Holding("responses", Nothing) \o Holding("our", Nothing) \o SignAsSender

HandleAcceptResponseFromSender == Holding("requests", Abort)

Message(handler) == Holding("cs_main", handler)

-----------------------------------------------------------------------------
(* The user interface and the RPC server. *)

(* EnigmaStatusPage::cancelSend *)
CancelSend == Holding("our", Abort)

(* WalletModel::sendCoinsEnigma: chooses the coins, then sends. *)
SendCoinsEnigma == Holding("cs_wallet", Nothing) \o SendEnigma

(* CRPCTable::execute holds both locks around a command. *)
Execute(command) == Holding2("cs_main", "cs_wallet", command)

(* The commands that list the cloaking requests. *)
ListRequests == Holding("requests", Nothing)

-----------------------------------------------------------------------------
(* The threads run. *)

Holders(l) == {t \in Threads : \E i \in DOMAIN held[t] : held[t][i] = l}

(* boost::recursive_mutex: free, or already mine. *)
Available(l, t) == Holders(l) \subseteq {t}

Running(t, op) == todo[t] # <<>> /\ Head(todo[t]).op = op

Init == /\ todo = [t \in Threads |-> <<>>]
        /\ held = [t \in Threads |-> <<>>]

Begin(t) == /\ todo[t] = <<>>
            /\ \E trace \in Operations[t] : todo' = [todo EXCEPT ![t] = trace]
            /\ UNCHANGED held

Advance(t) == todo' = [todo EXCEPT ![t] = Tail(@)]

Enter(t) == /\ Running(t, "lock")
            /\ Available(Head(todo[t]).lock, t)
            /\ held' = [held EXCEPT ![t] = Append(@, Head(todo[t]).lock)]
            /\ Advance(t)

TryEnter(t) == /\ Running(t, "try")
               /\ Available(Head(todo[t]).lock, t)
               /\ held' = [held EXCEPT ![t] = Append(@, Head(todo[t]).lock)]
               /\ Advance(t)

(* The scope is skipped; the rest of the function runs without the lock. *)
TrySkip(t) == /\ Running(t, "try")
              /\ ~Available(Head(todo[t]).lock, t)
              /\ todo' = [todo EXCEPT ![t] =
                              SubSeq(@, 2 + Head(@).skip, Len(@))]
              /\ UNCHANGED held

(* The scope ends: a lock object that owns its lock releases it. *)
Leave(t) == /\ Running(t, "unlock")
            /\ LET l == Head(todo[t]).lock IN
               held' = IF t \in Holders(l)
                       THEN [held EXCEPT ![t] = RemoveAt(@, CHOOSE i \in DOMAIN @ :
                                /\ @[i] = l
                                /\ \A j \in DOMAIN @ : @[j] = l => j <= i)]
                       ELSE held
            /\ Advance(t)

Next == \E t \in Threads : Begin(t) \/ Enter(t) \/ TryEnter(t) \/ TrySkip(t) \/ Leave(t)

Spec == Init /\ [][Next]_vars

-----------------------------------------------------------------------------
(* Properties *)

(* t waits for a lock that u has. *)
WaitsFor(t, u) == Running(t, "lock") /\ u # t /\ u \in Holders(Head(todo[t]).lock)

(* Nobody in S can go on before somebody else in S does. *)
Stuck(S) == S # {} /\ \A t \in S : \E u \in S : WaitsFor(t, u)

(* A command of the RPC server, which has cs_wallet, and Retry, which waits  *)
(* for it in WasUpdated, are in each other's way.                            *)
ServerAndRetry(S) ==
    \E t, u \in S :
        /\ {"cs_main", "cs_wallet"} \subseteq Range(held[t]) /\ WaitsFor(t, u)
        /\ {"our", "inouts"} \subseteq Range(held[u]) /\ WaitsFor(u, t)

(* Threads get stuck in one way only: the Enigma thread retries a request    *)
(* while a cloaked send of the RPC server is under way.  Everything else     *)
(* that holds several locks (ExpireOldEnigma, the message handlers, the      *)
(* window of the wallet), whatever the order it takes them in, goes on.      *)
NoOtherDeadlock == \A S \in SUBSET Threads : Stuck(S) => ServerAndRetry(S)
=============================================================================
