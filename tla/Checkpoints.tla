----------------------------- MODULE Checkpoints -----------------------------
(***************************************************************************)
(* Synchronised checkpoints on top of BestChain: the "checkpoint" message, *)
(* the checkpoint that waits for its block, the check of every new block   *)
(* against the current checkpoint, and the start-up that resets it when    *)
(* the master key has changed.  The checkpoint is written in a commit of   *)
(* its own, after that of SetBestChain.                                    *)
(***************************************************************************)
EXTENDS BestChain

CONSTANTS
    Checkpointed,   \* blocks a "checkpoint" message may name
    Keys,           \* the master keys of the program's versions, in order
    Hardened        \* Hardened[v]: the blocks of mapCheckpoints in version v

ASSUME CheckpointAssumption ==
    /\ Checkpointed \subseteq Block
    /\ Keys \in Seq(STRING) /\ Keys # <<>>
    /\ Hardened \in [DOMAIN Keys -> SUBSET Block]
    /\ \A v \in DOMAIN Keys : Genesis \in Hardened[v]

VARIABLES
    cp,             \* in memory: sync, pending and invalid checkpoint; target:
                    \* the one SetBestChain works for, then: where it returns
                    \* to; checked: AcceptBlock has looked at the pending one
    saved,          \* on disk: hashSyncCheckpoint and the key it goes with, and
                    \* strCheckpointPubKey
    boot            \* the version that runs, and how far its start-up is

cpVars == <<cp, saved, boot>>
allVars == <<vars, cpVars>>

-----------------------------------------------------------------------------
InMainChain(b) == pnext[b] # NoBlock \/ b = pindexBest

\* Fault: an older checkpoint is not ignored.
ValidatedOlder(b) ==
    IF cp.sync \in Ancestors(b) \/ b \in Ancestors(cp.sync)
    THEN "valid" ELSE "conflicting"

\* ValidateSyncCheckpoint of a block in the index: only a descendant of the
\* current checkpoint is valid.
Validated(b) ==
    IF b \in Ancestors(cp.sync) THEN "older"
    ELSE IF cp.sync \in Ancestors(b) THEN "valid" ELSE "conflicting"

\* Fault: blocks beside the checkpoint pass.
CheckSyncAbove(b) == Height(b) > Height(cp.sync)

\* CheckSync of a block that is not in the index yet.
CheckSync(b) == cp.sync \in Ancestors(b) \ {b}

CheckHardened(b) ==
    \A h \in Hardened[boot.version] : Height(h) = Height(b) => h = b
LastHardened(bs) == CHOOSE h \in bs : \A x \in bs : Height(x) <= Height(h)

\* Fault: the parent of an orphan is wanted, the checkpoint itself is not.
WantedByOrphanOnly(b) ==
    /\ cp.pending \in mapOrphanBlocks
    /\ b \in Ancestors(cp.pending) \ mapOrphanBlocks
    /\ \A x \in Ancestors(cp.pending) :
          Height(x) > Height(b) => x \in mapOrphanBlocks

\* WantedByPendingSyncCheckpoint: the block itself, or the parent that the
\* first of the orphans before it waits for.
Wanted(b) ==
    \/ b = cp.pending
    \/ /\ cp.pending \in mapOrphanBlocks
       /\ b \in Ancestors(cp.pending) \ mapOrphanBlocks
       /\ \A x \in Ancestors(cp.pending) :
             Height(x) > Height(b) => x \in mapOrphanBlocks

-----------------------------------------------------------------------------
\* What is in memory after a start with checkpoint b.
Started(b) == [sync |-> b, pending |-> NoBlock, invalid |-> NoBlock,
               target |-> NoBlock, then |-> Idle, checked |-> FALSE]

\* The first start resets to the genesis block, the last hardened checkpoint
\* pending.
CpInit ==
    /\ Init
    /\ cp = [Started(Genesis) EXCEPT !.pending =
                 IF LastHardened(Hardened[1]) = Genesis THEN NoBlock
                 ELSE LastHardened(Hardened[1])]
    /\ saved = [sync |-> Genesis, by |-> Head(Keys), key |-> Head(Keys)]
    /\ boot = [version |-> 1, step |-> "up"]

Up == boot.step = "up"
Resting == Up /\ proc.step = "idle" /\ ~rx.busy

\* SetBestChain for the checkpoint b, unless b is in the main chain already.
SetBestFor(b, then) ==
    /\ cp' = [cp EXCEPT !.target = b, !.then = then, !.checked = TRUE]
    /\ proc' = [Idle EXCEPT !.step = IF InMainChain(b) THEN "accepted" ELSE "best",
                            !.block = b]

\* ProcessSyncCheckpoint of a block we do not have.
CheckpointUnknown(b) ==
    /\ Resting /\ b \notin mapBlockIndex
    /\ cp' = [cp EXCEPT !.pending = b]
    /\ UNCHANGED <<vars, saved, boot>>

\* ProcessSyncCheckpoint of a block we have; an older one is ignored.
CheckpointKnown(b) ==
    /\ Resting /\ b \in mapBlockIndex
    /\ \/ /\ Validated(b) = "conflicting"
          /\ cp' = [cp EXCEPT !.invalid = b]
          /\ UNCHANGED proc
       \/ Validated(b) = "valid" /\ SetBestFor(b, Idle)
    /\ UNCHANGED <<poolVars, memVars, seenVars, disk, bestInvalidTrust, histVars,
                   saved, boot>>

\* AcceptPendingSyncCheckpoint, at the end of AcceptBlock.
AcceptPending ==
    /\ Up /\ proc.step = "accepted" /\ cp.target = NoBlock /\ ~cp.checked
    /\ cp.pending \in mapBlockIndex
    /\ \/ /\ Validated(cp.pending) # "valid"
          /\ cp' = [cp EXCEPT !.pending = NoBlock, !.checked = TRUE, !.invalid =
                       IF Validated(cp.pending) = "conflicting" THEN cp.pending ELSE @]
          /\ UNCHANGED proc
       \/ Validated(cp.pending) = "valid" /\ SetBestFor(cp.pending, proc)
    /\ UNCHANGED <<poolVars, memVars, seenVars, disk, bestInvalidTrust, histVars,
                   saved, boot>>

\* SetBestChain has returned true, or was not needed: WriteSyncCheckpoint.
WriteSyncCheckpoint ==
    /\ Up /\ proc.step = "accepted" /\ cp.target # NoBlock
    /\ saved' = [saved EXCEPT !.sync = cp.target, !.by = Keys[boot.version]]
    /\ cp' = [cp EXCEPT !.sync = cp.target, !.pending = NoBlock,
                        !.target = NoBlock, !.then = Idle,
                        !.checked = cp.then # Idle]
    /\ proc' = cp.then
    /\ UNCHANGED <<poolVars, memVars, seenVars, disk, bestInvalidTrust, histVars,
                   boot>>

\* It has failed: the checkpoint is remembered as invalid.  A pending one
\* stays pending.
SetBestFailed ==
    /\ Up /\ proc.step = "refused" /\ cp.target # NoBlock
    /\ cp' = [cp EXCEPT !.invalid = cp.target, !.target = NoBlock, !.then = Idle,
                        !.checked = cp.then # Idle]
    /\ proc' = cp.then
    /\ UNCHANGED <<poolVars, memVars, seenVars, disk, bestInvalidTrust, histVars,
                   saved, boot>>

-----------------------------------------------------------------------------
\* ProcessBlock, with the checks of the checkpoints.
AcceptableHere(b) == b \notin Unacceptable /\ CheckHardened(b) /\ CheckSync(b)

CpReceivable(b) ==
    /\ Resting
    /\ b \notin mapBlockIndex \cup mapOrphanBlocks
    /\ StakeAllowed(b, setStakeSeen) \/ Wanted(b)

CpProcessBlock(b) ==
    /\ CpReceivable(b) /\ Prev[b] \in mapBlockIndex
    /\ AcceptableHere(b)
    /\ AddToBlockIndex(b)
    /\ proc' = [Idle EXCEPT !.step = StepAfterIndex(b), !.block = b]
    /\ UNCHANGED cpVars

CpStoreOrphan(b) ==
    /\ CpReceivable(b) /\ Prev[b] \notin mapBlockIndex
    /\ StakeAllowed(b, setStakeSeenOrphan) \/ Wanted(b)
    /\ mapOrphanBlocks' = mapOrphanBlocks \cup {b}
    /\ setStakeSeenOrphan' = setStakeSeenOrphan \cup Stakes({b})
    /\ UNCHANGED <<poolVars, memVars, setStakeSeen, proc, disk,
                   bestInvalidTrust, histVars, cpVars>>

CpProcessOrphan(o) ==
    /\ Up /\ AcceptableHere(o) /\ ProcessOrphan(o)
    /\ UNCHANGED cpVars

CpRefuseOrphan(o) ==
    /\ Up /\ proc.step = "work" /\ o \in WaitingFor(Head(proc.work))
    /\ ~AcceptableHere(o)
    /\ DropOrphan(o)
    /\ UNCHANGED <<poolVars, memVars, setStakeSeen, proc, disk,
                   bestInvalidTrust, histVars, cpVars>>

\* AcceptBlock returns to ProcessBlock when it has seen to the pending
\* checkpoint.
CpBlockAccepted ==
    /\ Up /\ cp.target = NoBlock
    /\ cp.checked \/ cp.pending \notin mapBlockIndex
    /\ BlockAccepted
    /\ cp' = [cp EXCEPT !.checked = FALSE]
    /\ UNCHANGED <<saved, boot>>

CpBlockRefused == Up /\ cp.target = NoBlock /\ BlockRefused /\ UNCHANGED cpVars

SetBestChain ==
    /\ ExtendBestChain \/ ReorganizeChain \/ ConnectRest
    /\ UNCHANGED cpVars

CpNextWork == NextWork /\ UNCHANGED cpVars

-----------------------------------------------------------------------------
\* The process dies and starts again, perhaps as the next version: hashes are
\* read from the disk, everything else about checkpoints is gone.
Restart ==
    /\ Crash
    /\ cp' = Started(saved.sync)
    /\ \E v \in {boot.version, boot.version + 1} \cap DOMAIN Keys :
          boot' = [version |-> v, step |-> IF saved.key = Keys[v] THEN "up" ELSE "key"]
    /\ UNCHANGED saved

\* LoadBlockIndex: the new master key is committed before the reset.
WriteCheckpointPubKey ==
    /\ boot.step = "key"
    /\ saved' = [saved EXCEPT !.key = Keys[boot.version]]
    /\ boot' = [boot EXCEPT !.step = "reset"]
    /\ UNCHANGED <<vars, cp>>

\* ResetSyncCheckpoint: SetBestChain to the last hardened checkpoint, or wait
\* for its block.
ResetSyncCheckpoint ==
    /\ boot.step = "reset" /\ proc.step = "idle"
    /\ \E h \in {LastHardened(Hardened[boot.version])} :
          IF h \in mapBlockIndex
          THEN /\ proc' = [Idle EXCEPT !.step = IF InMainChain(h) THEN "accepted" ELSE "best",
                                       !.block = h]
               /\ UNCHANGED <<cp, boot>>
          ELSE /\ cp' = [cp EXCEPT !.pending = h]
               /\ boot' = [boot EXCEPT !.step = "write"]
               /\ UNCHANGED proc
    /\ UNCHANGED <<poolVars, memVars, seenVars, disk, bestInvalidTrust, histVars,
                   saved>>

\* Fault: the last hardened checkpoint becomes the current one, here or not.
WriteResetLast ==
    /\ \/ boot.step = "write"
       \/ boot.step = "reset" /\ proc.step = "accepted"
    /\ \E h \in {LastHardened(Hardened[boot.version])} :
          /\ saved' = [saved EXCEPT !.sync = h, !.by = Keys[boot.version]]
          /\ cp' = [cp EXCEPT !.sync = h]
    /\ boot' = [boot EXCEPT !.step = "up"]
    /\ proc' = Idle
    /\ UNCHANGED <<poolVars, memVars, seenVars, disk, bestInvalidTrust, histVars>>

\* The last hardened checkpoint in the main chain becomes the current one.
WriteReset ==
    /\ \/ boot.step = "write"
       \/ boot.step = "reset" /\ proc.step = "accepted"
    /\ \E h \in {LastHardened({x \in Hardened[boot.version] : InMainChain(x)})} :
          /\ saved' = [saved EXCEPT !.sync = h, !.by = Keys[boot.version]]
          /\ cp' = [cp EXCEPT !.sync = h]
    /\ boot' = [boot EXCEPT !.step = "up"]
    /\ proc' = Idle
    /\ UNCHANGED <<poolVars, memVars, seenVars, disk, bestInvalidTrust, histVars>>

-----------------------------------------------------------------------------
CheckpointSteps ==
    \/ \E b \in Checkpointed : CheckpointUnknown(b) \/ CheckpointKnown(b)
    \/ AcceptPending \/ WriteSyncCheckpoint \/ SetBestFailed
    \/ WriteCheckpointPubKey \/ ResetSyncCheckpoint \/ WriteReset

BlockSteps ==
    \/ \E b \in Block : \/ CpProcessBlock(b) \/ CpStoreOrphan(b)
                        \/ CpProcessOrphan(b) \/ CpRefuseOrphan(b)
    \/ SetBestChain \/ CpBlockAccepted \/ CpBlockRefused \/ CpNextWork

CpNext == CheckpointSteps \/ BlockSteps \/ Restart

CpSpec == CpInit /\ [][CpNext]_allVars

\* The message thread goes on with what it has begun, and so does the start-up;
\* peers send a block again as long as it would be taken: an orphan asks for its
\* ancestors, getblocks for what follows the best chain, and
\* AskForPendingSyncCheckpoint for the pending checkpoint with every block.
GoOn ==
    /\ ~Up \/ proc.step # "idle"
    /\ BlockSteps \/ CheckpointSteps
CpLiveSpec ==
    /\ CpSpec /\ WF_allVars(GoOn)
    /\ \A b \in Block : WF_allVars(CpProcessBlock(b) \/ CpStoreOrphan(b))

-----------------------------------------------------------------------------
\* Properties

\* "sync-checkpoint should always be accepted block" (the assertions of
\* CheckSync and IsMatureSyncCheckpoint), also after a crash between the
\* commits of AddToBlockIndex, SetBestChain and WriteSyncCheckpoint.
SyncCheckpointAccepted == cp.sync \in mapBlockIndex /\ saved.sync \in disk.index

\* While the process is up, the best chain on disk goes through the checkpoint
\* on disk, whatever chain has more trust and wherever the process died before:
\* the two are written by two commits.  There are two exceptions.  SetBestChain
\* returns true for a block it has postponed, connected or not, so the chain of
\* the checkpoint may not connect.  And the new master key is written before the
\* reset, so a crash between the two leaves the checkpoint of the old key.
CheckpointInBestChain ==
    Up => \/ saved.sync \in Ancestors(disk.best)
          \/ ~Replay[saved.sync].ok
          \/ saved.by # Keys[boot.version]

\* "only descendant of current sync-checkpoint is allowed": unless a new
\* version resets it, the checkpoint moves forward along one chain, however
\* late, repeated or reordered the messages are.
CheckpointAdvances ==
    [][boot.step = "up" => saved.sync \in Ancestors(saved'.sync)]_allVars

\* A checkpoint whose block is not here becomes the current one in the end,
\* also when its block, or an ancestor of it, repeats a stake.
PendingTaken ==
    \A c \in Checkpointed : cp.pending = c ~> c \in Ancestors(cp.sync)

\* When blocks are valid and peers keep sending them, the best chain ends up
\* with at least the trust of every chain through the checkpoint to a block with
\* a stake of its own, also when a parent of that block repeats a stake and is
\* refused at first, and when the checkpoint pulls the chain to another branch.
CheckpointedChainConverges ==
    <>[](\A b \in Block :
            /\ cp.sync \in Ancestors(b) /\ Replay[b].ok
            /\ \A c \in Block \ {b} : Stake[c] # Stake[b] \/ Stake[b] = NoStake
            => ChainTrust[pindexBest] >= ChainTrust[b])
=============================================================================
