---------------------------- MODULE MCEnigmaLocks ----------------------------
(* The threads of a wallet that cloaks, is cloaked for and stakes.          *)
EXTENDS EnigmaLocks

Handlers == {Message(h) : h \in {ProcessRequest, HandleCloakingAccept, HandleSignRequest,
                                 HandleSignResponse, HandleAcceptResponseFromSender}}

NodeThreads == {"enigma", "message", "gui", "rpc"}
NodeOperations ==
    [enigma  |-> {ExpireOldEnigma(Retry), ExpireOldEnigma(Abort)},
     message |-> Handlers,
     gui     |-> {CancelSend, SendCoinsEnigma},
     rpc     |-> {Execute(ListRequests), Execute(SendEnigma)}]
=============================================================================
