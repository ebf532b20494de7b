----------------------------- MODULE BlockKeeper ----------------------------
(***************************************************************************)
(* netsync.blockKeeper: the goroutine syncWorker, which on each tick asks  *)
(* the best peer for what this node lacks.  Up to the next checkpoint it   *)
(* asks a fast-sync peer for headers until they reach the checkpoint, and  *)
(* then for the blocks, whose proof of work it does not verify; otherwise  *)
(* it asks for one block after the other by height.                        *)
(*                                                                         *)
(* An answer is put into a channel by the receive routine of its peer.  A  *)
(* request that was answered late leaves its answer in the channel, where  *)
(* a later request finds it.                                               *)
(***************************************************************************)
EXTENDS NetChain, NetPeers

CONSTANTS
  Honest,           \* the peers that run this program, and answer what they are asked
  Checkpoints,      \* consensus.ActiveNetParams.Checkpoints, as blocks
  ChCap             \* blockProcessChSize, blocksProcessChSize, headersProcessChSize

VARIABLES
  pc,               \* where syncWorker stands
  syncPeer,         \* blockKeeper.syncPeer
  cp,               \* the checkpoint of the fast sync
  headerList,       \* blockKeeper.headerList
  fast,             \* the position of fastHeader in headerList
  todo,             \* the blocks of the last answer not processed yet
  i, want,          \* regularBlockSync: the height asked for, wantHeight
  asked,            \* asked[p]: the requests an honest peer p has not answered yet
  blockCh, blocksCh, headersCh,  \* the three channels, of [peer, body]
  lost,             \* the connection of syncPeer is over, whether or not its key is back
  stale             \* the answer in hand was not the one to the last request

keeperVars == <<pc, syncPeer, cp, headerList, fast, todo, i, want, lost, stale>>
channelVars == <<asked, blockCh, blocksCh, headersCh>>

Answers(S) == [peer : Peer, body : S]

KeeperTypeOK ==
  /\ pc \in {"idle", "reset", "headers", "wait headers", "blocks", "wait blocks", "process",
             "begin", "regular", "wait block", "panic"}
  /\ syncPeer \in Peer \cup {None}
  /\ cp \in Checkpoints \cup {None}
  /\ headerList \in Seq(Block)
  /\ fast \in 0..Len(headerList)
  /\ todo \in Seq(Block)
  /\ i \in Nat /\ want \in Nat
  /\ lost \in BOOLEAN /\ stale \in BOOLEAN
  /\ blockCh \in Seq(Answers(Block)) /\ Len(blockCh) <= ChCap
  /\ blocksCh \in Seq(Answers(Seq(Block))) /\ Len(blocksCh) <= ChCap
  /\ headersCh \in Seq(Answers(Seq(Block))) /\ Len(headersCh) <= ChCap

KeeperInit ==
  /\ pc = "idle" /\ syncPeer = None /\ cp = None /\ headerList = <<>> /\ fast = 0
  /\ todo = <<>> /\ i = 0 /\ want = 0 /\ lost = FALSE /\ stale = FALSE
  /\ asked = [p \in Honest |-> <<>>] /\ blockCh = <<>> /\ blocksCh = <<>> /\ headersCh = <<>>

\* nextCheckpoint: the lowest checkpoint above the best block.
NextCheckpoint ==
  LET above == {c \in Checkpoints : Height[c] > BestBlockHeight}
  IN IF above = {} THEN None ELSE CHOOSE c \in above : \A d \in above : Height[c] <= Height[d]

\* What startSync does not need any more when it returns (the field syncPeer keeps
\* its value in the code, but is not read before startSync sets it again).
Forget ==
  /\ pc' = "idle"
  /\ cp' = None /\ headerList' = <<>> /\ fast' = 0 /\ todo' = <<>>
  /\ i' = 0 /\ want' = 0 /\ lost' = FALSE /\ stale' = FALSE
  /\ syncPeer' = None

\* The connection to a peer that is removed takes its requests with it.
Asked(S) == [p \in Honest |-> IF p \in S THEN asked[p] ELSE <<>>]

\* startSync returns an error and hands it to errorHandler.
Fail(misbehaved) ==
  /\ Forget
  /\ ErrorHandler(syncPeer, misbehaved)
  /\ asked' = Asked(peers')

\* startSync returns true: syncWorker broadcasts the best block and the status,
\* and removes the peers whose send queue is full.
Finish ==
  /\ Forget
  /\ \E S \in SUBSET peers : RemovePeers(S) /\ asked' = Asked(peers \ S)
-----------------------------------------------------------------------------
(***************************************************************************)
(* startSync.  The best block may move between any two of its reads, and   *)
(* resetHeaderState reads it once more than fastBlockSync allows for: past *)
(* the last checkpoint the list stays empty, and headerList.Back() is nil. *)
(***************************************************************************)
StartFast(p, checkpoint) ==
  /\ checkpoint # None
  /\ p \in BestPeers(peers \cap fastSync)
  /\ claim[p] >= Height[checkpoint]
  /\ pc' = "reset"
  /\ syncPeer' = p
  /\ cp' = checkpoint
  /\ UNCHANGED <<headerList, fast, todo, i, want, lost, stale, chainVars, peerVars, channelVars>>

StartRegular(p, checkpoint) ==
  /\ claim[p] > BestBlockHeight
  /\ p \in BestPeers(peers)
  /\ checkpoint # None => \A q \in BestPeers(peers \cap fastSync) : claim[q] < Height[checkpoint]
  /\ pc' = "begin"
  /\ syncPeer' = p
  /\ want' = IF BestBlockHeight + MaxBlocks > claim[p] THEN claim[p] ELSE BestBlockHeight + MaxBlocks
  /\ UNCHANGED <<cp, headerList, fast, todo, i, lost, stale, chainVars, peerVars, channelVars>>

StartSync ==
  /\ pc = "idle"
  /\ LET checkpoint == NextCheckpoint
     IN \E p \in peers : StartFast(p, checkpoint) \/ StartRegular(p, checkpoint)

ResetHeaderState ==
  /\ pc = "reset"
  /\ headerList' = IF NextCheckpoint # None THEN <<best>> ELSE <<>>
  /\ pc' = IF headerList' = <<>> THEN "panic" ELSE "headers"
  /\ UNCHANGED <<syncPeer, cp, fast, todo, i, want, lost, stale, chainVars, peerVars, channelVars>>
-----------------------------------------------------------------------------
(***************************************************************************)
(* requireBlock, requireBlocks, requireHeaders.  A request fails at once   *)
(* if the peer is gone or its send queue full.  While the goroutine waits  *)
(* it takes the answers out of the channel, those of other peers too, and  *)
(* it gives up after syncTimeout.                                          *)
(***************************************************************************)
Send(request, at) ==
  \/ /\ syncPeer \in peers /\ ~lost
     /\ asked' = [p \in Honest |-> IF p = syncPeer THEN Append(asked[p], request) ELSE asked[p]]
     /\ pc' = at
     /\ UNCHANGED <<syncPeer, cp, headerList, fast, todo, i, want, lost, stale, chainVars, peerVars,
                    blockCh, blocksCh, headersCh>>
  \/ Fail(FALSE) /\ UNCHANGED <<chainVars, blockCh, blocksCh, headersCh>>

Timeout ==
  /\ pc \in {"wait headers", "wait blocks", "wait block"}
  /\ Fail(FALSE)
  /\ UNCHANGED <<chainVars, blockCh, blocksCh, headersCh>>

\* An answer of syncPeer to the last request is still to come, or in the channel.
Pending(channel) ==
  \/ syncPeer \in Honest /\ asked[syncPeer] # <<>>
  \/ \E k \in 1..Len(channel) : channel[k].peer = syncPeer
-----------------------------------------------------------------------------
(***************************************************************************)
(* fastBlockSync, the headers: they must link up and end in the checkpoint.*)
(***************************************************************************)
LastHeader == headerList[Len(headerList)]

HeadersDone ==
  /\ pc = "headers"
  /\ LastHeader = cp
  /\ pc' = "blocks"
  /\ fast' = 1
  /\ UNCHANGED <<syncPeer, cp, headerList, todo, i, want, lost, stale, chainVars, peerVars, channelVars>>

OffBranch ==
  /\ pc = "headers"
  /\ LastHeader # cp
  /\ Height[LastHeader] >= Height[cp]
  /\ Fail(TRUE)
  /\ UNCHANGED <<chainVars, blockCh, blocksCh, headersCh>>

RequireHeaders ==
  /\ pc = "headers"
  /\ LastHeader # cp
  /\ Height[LastHeader] < Height[cp]
  /\ Send([kind |-> "headers", locator |-> <<LastHeader>>, stop |-> cp],
          "wait headers")

\* appendHeaderList: each header must name the one before it.
LinksUp(list, headers) ==
  LET all == list \o headers
  IN \A k \in (Len(list) + 1)..Len(all) : Prev[all[k]] = all[k - 1]

AppendHeaderList(headers) ==
  IF LinksUp(headerList, headers)
  THEN /\ headerList' = headerList \o headers
       /\ pc' = "headers"
       /\ UNCHANGED <<syncPeer, cp, fast, todo, i, want, lost, stale, peerVars, asked>>
  ELSE Fail(FALSE)

TakeHeaders ==
  /\ pc = "wait headers"
  /\ headersCh # <<>>
  /\ headersCh' = Tail(headersCh)
  /\ LET m == Head(headersCh)
     IN \/ m.peer # syncPeer /\ UNCHANGED <<keeperVars, peerVars, asked>>
        \/ m.peer = syncPeer /\ m.body = <<>> /\ Fail(TRUE)
        \/ m.peer = syncPeer /\ m.body # <<>> /\ AppendHeaderList(m.body)
  /\ UNCHANGED <<chainVars, blockCh, blocksCh>>
-----------------------------------------------------------------------------
(***************************************************************************)
(* fastBlockSync, the blocks: the next one of an answer must be the next   *)
(* one of the header list.                                                 *)
(***************************************************************************)
FastDone ==
  /\ pc = "blocks"
  /\ BestBlockHeight >= Height[cp]
  /\ Finish
  /\ UNCHANGED <<chainVars, blockCh, blocksCh, headersCh>>

RequireBlocks ==
  /\ pc = "blocks"
  /\ BestBlockHeight < Height[cp]
  /\ Send([kind |-> "blocks", locator |-> BlockLocator, stop |-> cp],
          "wait blocks")

TakeBlocks ==
  /\ pc = "wait blocks"
  /\ blocksCh # <<>>
  /\ blocksCh' = Tail(blocksCh)
  /\ LET m == Head(blocksCh)
     IN \/ m.peer # syncPeer /\ UNCHANGED <<keeperVars, peerVars, asked>>
        \/ m.peer = syncPeer /\ m.body = <<>> /\ Fail(TRUE)
        \/ /\ m.peer = syncPeer /\ m.body # <<>>
           /\ todo' = m.body
           /\ pc' = "process"
           /\ stale' = Pending(Tail(blocksCh))
           /\ UNCHANGED <<syncPeer, cp, headerList, fast, i, want, lost, peerVars, asked>>
  /\ UNCHANGED <<chainVars, blockCh, headersCh>>

\* Mutant: the block is compared by its height.
HeightMismatch == fast < Len(headerList) /\ Height[Head(todo)] # Height[headerList[fast + 1]]

\* The block in hand is not the one the header list has next.
Mismatch == fast < Len(headerList) /\ Head(todo) # headerList[fast + 1]

RejectBlocks ==
  /\ pc = "process"
  /\ todo # <<>>
  /\ fast = Len(headerList) \/ Mismatch
  /\ Fail(Mismatch)
  /\ UNCHANGED <<chainVars, blockCh, blocksCh, headersCh>>

\* AddCache, ProcessBlock, RemoveCache; CalcNextSeed needs the parent's node.
FastProcess ==
  /\ pc = "process"
  /\ todo # <<>>
  /\ fast < Len(headerList) /\ ~Mismatch
  /\ IF Prev[Head(todo)] \notin known
     THEN Fail(FALSE) /\ UNCHANGED chainVars
     ELSE \E r \in ProcessBlock(Head(todo), TRUE) :
            /\ Becomes(r)
            /\ IF r.err THEN Fail(FALSE)
               ELSE /\ fast' = fast + 1
                    /\ todo' = Tail(todo)
                    /\ UNCHANGED <<pc, syncPeer, cp, headerList, i, want, lost, stale, peerVars, asked>>
  /\ UNCHANGED <<blockCh, blocksCh, headersCh>>

FastNext ==
  /\ pc = "process"
  /\ todo = <<>>
  /\ pc' = "blocks"
  /\ stale' = FALSE
  /\ UNCHANGED <<syncPeer, cp, headerList, fast, todo, i, want, lost, chainVars, peerVars, channelVars>>
-----------------------------------------------------------------------------
(***************************************************************************)
(* regularBlockSync.  An orphan makes it ask for the block below; i is a   *)
(* uint64, so below 0 it is larger than any height and the loop ends.      *)
(***************************************************************************)
BeginRegular ==
  /\ pc = "begin"
  /\ pc' = "regular"
  /\ i' = BestBlockHeight + 1
  /\ UNCHANGED <<syncPeer, cp, headerList, fast, todo, want, lost, stale, chainVars, peerVars, channelVars>>

RegularDone ==
  /\ pc = "regular"
  /\ i > want
  /\ Finish
  /\ UNCHANGED <<chainVars, blockCh, blocksCh, headersCh>>

RequireBlock ==
  /\ pc = "regular"
  /\ i <= want
  /\ Send([kind |-> "block", height |-> i], "wait block")

\* Mutant: an orphan does not make it ask for the block below.
NextHeightUp(r) == Height[r.best] + 1

\* The height to ask for after a block was processed.
NextHeight(r) ==
  IF ~r.isOrphan THEN Height[r.best] + 1
  ELSE IF i = 0 THEN want + 1 ELSE i - 1

TakeBlock ==
  /\ pc = "wait block"
  /\ blockCh # <<>>
  /\ blockCh' = Tail(blockCh)
  /\ LET m == Head(blockCh)
     IN \/ /\ m.peer # syncPeer \/ Height[m.body] # i
           /\ UNCHANGED <<keeperVars, peerVars, asked, chainVars>>
        \/ /\ m.peer = syncPeer /\ Height[m.body] = i
           /\ \E r \in ProcessBlock(m.body, FALSE) :
                /\ Becomes(r)
                /\ IF r.err THEN Fail(FALSE)
                   ELSE /\ i' = NextHeight(r)
                        /\ pc' = "regular"
                        /\ UNCHANGED <<syncPeer, cp, headerList, fast, todo, want, lost, stale, peerVars, asked>>
  /\ UNCHANGED <<blocksCh, headersCh>>

\* The steps that send, and the others.
KeeperSend == RequireHeaders \/ RequireBlocks \/ RequireBlock \/ FastDone \/ RegularDone

KeeperStep ==
  \/ ResetHeaderState \/ HeadersDone \/ OffBranch \/ TakeHeaders
  \/ TakeBlocks \/ RejectBlocks \/ FastProcess \/ FastNext
  \/ BeginRegular \/ TakeBlock
=============================================================================
