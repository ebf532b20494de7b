------------------------------ MODULE BlockSync -----------------------------
(***************************************************************************)
(* Block synchronisation: the block keeper and the block fetcher run at    *)
(* the same time on one chain and one peer set, with peers that connect,   *)
(* disconnect, answer late or not at all.  An honest peer answers as this  *)
(* program does, for a main chain of its own; any other peer is faulty and *)
(* sends stray messages, whether it was asked or not.                      *)
(***************************************************************************)
EXTENDS BlockKeeper, BlockFetcher

CONSTANTS
  Tip,              \* Tip[p]: the best block of an honest peer
  Claims,           \* the heights the faulty peers may claim
  Strays,           \* the messages [kind, body] they may send
  MaxStrays,        \* bound on the messages they send
  MaxEvents         \* bound on what else happens unasked: see events

VARIABLES
  strays,           \* how many messages they sent
  events            \* how often a peer left or announced a block, a faulty one changed its
                    \* status, and an honest one was too slow or its send queue full

vars == <<chainVars, peerVars, keeperVars, channelVars, fetcherVars, strays, events>>

TypeOK ==
  /\ ChainTypeOK /\ PeersTypeOK /\ KeeperTypeOK /\ FetcherTypeOK
  /\ strays \in 0..MaxStrays /\ events \in 0..MaxEvents

Init == ChainInit /\ PeersInit /\ KeeperInit /\ FetcherInit /\ strays = 0 /\ events = 0

Unasked == events < MaxEvents /\ events' = events + 1 /\ UNCHANGED strays
-----------------------------------------------------------------------------
\* handleStatusResponseMsg: the first status of a connection adds the peer, a
\* later one changes the height it claims.
Status(p, height) ==
  /\ p \in Honest => height = Height[Tip[p]]
  /\ p \notin Honest => height \in Claims
  /\ IF p \in peers
     THEN /\ claim[p] # height
          /\ SetStatus(p, height)
          /\ IF p \in Honest THEN UNCHANGED <<strays, events>> ELSE Unasked
     ELSE AddPeer(p, height) /\ UNCHANGED <<strays, events>>
  /\ lost' = (lost \/ (p = syncPeer /\ p \notin peers))
  /\ UNCHANGED <<pc, syncPeer, cp, headerList, fast, todo, i, want, stale,
                 chainVars, channelVars, fetcherVars>>

Disconnect(p) ==
  /\ p \in peers
  /\ Unasked
  /\ RemovePeers({p})
  /\ asked' = Asked(peers')
  /\ UNCHANGED <<chainVars, keeperVars, blockCh, blocksCh, headersCh, fetcherVars>>

\* handleBlockMsg, handleBlocksMsg and handleHeadersMsg: the receive routine of
\* the peer waits while the channel is full, and so does what the peer sends next.
Channel(kind) == CASE kind = "block" -> blockCh [] kind = "blocks" -> blocksCh [] kind = "headers" -> headersCh

Deliver(p, kind, body) ==
  /\ p \in peers
  /\ Len(Channel(kind)) < ChCap
  /\ LET new == [peer |-> p, body |-> body]
     IN /\ blockCh' = IF kind = "block" THEN Append(blockCh, new) ELSE blockCh
        /\ blocksCh' = IF kind = "blocks" THEN Append(blocksCh, new) ELSE blocksCh
        /\ headersCh' = IF kind = "headers" THEN Append(headersCh, new) ELSE headersCh

\* What an honest peer answers: handleGetBlockMsg, handleGetBlocksMsg (which may
\* shorten the list to what fits in a message; one block always does) and
\* handleGetHeadersMsg.
Replies(tip, r) ==
  CASE r.kind = "block" ->
         IF r.height \in 1..Height[tip] THEN {HeaderByHeight(tip, r.height)} ELSE {}
    [] r.kind = "blocks" ->
         LET blocks == LocateBlocks(tip, OnBranch(tip), r.locator, r.stop)
         IN {SubSeq(blocks, 1, k) : k \in 1..Len(blocks)}
    [] r.kind = "headers" ->
         {LocateHeaders(tip, OnBranch(tip), r.locator, r.stop)} \ {<<>>}

\* A request without a reply is taken and left at that.
Answer(p) ==
  /\ asked[p] # <<>>
  /\ asked' = [asked EXCEPT ![p] = Tail(@)]
  /\ UNCHANGED <<chainVars, peerVars, keeperVars, fetcherVars, strays, events>>
  /\ \/ \E body \in Replies(Tip[p], Head(asked[p])) : Deliver(p, Head(asked[p]).kind, body)
     \/ Replies(Tip[p], Head(asked[p])) = {} /\ UNCHANGED <<blockCh, blocksCh, headersCh>>

Stray(p) ==
  /\ p \notin Honest
  /\ strays < MaxStrays /\ strays' = strays + 1
  /\ \E m \in Strays : Deliver(p, m.kind, m.body)
  /\ UNCHANGED <<chainVars, peerVars, keeperVars, asked, fetcherVars, events>>

\* handleMineBlockMsg: the block goes to the fetcher, its height is the peer's.
MineBlock(p, b) ==
  /\ p \in peers
  /\ p \in Honest => b \in OnBranch(Tip[p])
  /\ b # Genesis
  /\ Unasked
  /\ Len(newBlockCh) < NewBlockCap
  /\ newBlockCh' = Append(newBlockCh, [peer |-> p, block |-> b])
  /\ SetStatus(p, Height[b])
  /\ UNCHANGED <<chainVars, keeperVars, channelVars, queue, msgSet, fpc, fheight>>
-----------------------------------------------------------------------------
\* A step that sends to all peers may lose some; to lose an honest one is unasked.
Lossy == IF Honest \cap (peers \ peers') # {} THEN Unasked ELSE UNCHANGED <<strays, events>>

Here(channel) == \E n \in 1..Len(channel) : channel[n].peer = syncPeer

\* The answer is there, or nothing keeps an honest peer from giving it: to give up
\* now is unasked too.
InTime ==
  \/ pc = "wait headers" /\ Here(headersCh)
  \/ pc = "wait blocks" /\ Here(blocksCh)
  \/ pc = "wait block" /\ Here(blockCh)
  \/ syncPeer \in Honest /\ asked[syncPeer] # <<>> /\ Len(Channel(Head(asked[syncPeer]).kind)) < ChCap

Start == UNCHANGED <<fetcherVars, strays, events>> /\ StartSync

Keeper ==
  /\ UNCHANGED fetcherVars
  /\ \/ KeeperSend /\ IF lost THEN UNCHANGED <<strays, events>> ELSE Lossy
     \/ KeeperStep /\ UNCHANGED <<strays, events>>
     \/ Timeout /\ IF InTime THEN Unasked ELSE UNCHANGED <<strays, events>>

Fetcher ==
  /\ \/ (FetcherAdd \/ FetcherLook \/ FetcherWait) /\ UNCHANGED <<strays, events>>
     \/ (\E m \in queue : FetcherInsert(m)) /\ Lossy
  /\ asked' = Asked(peers')
  /\ UNCHANGED <<keeperVars, blockCh, blocksCh, headersCh>>

\* SyncManager.IsCaughtUp.
IsCaughtUp == \A p \in BestPeers(peers) : claim[p] <= BestBlockHeight

Expire == OrphanExpire /\ UNCHANGED <<peerVars, keeperVars, channelVars, fetcherVars, strays, events>>

Next ==
  \/ Start \/ Keeper \/ Fetcher
  \/ Expire
  \/ \E p \in Honest : Answer(p)
  \/ \E p \in Peer :
       \/ Disconnect(p)
       \/ Stray(p)
       \/ \E b \in Block : MineBlock(p, b) \/ Status(p, Height[b])

Spec == Init /\ [][Next]_vars

\* The block keeper runs, a timer that is not stopped fires, and a request that can be
\* answered is answered or its connection ends; nothing else is promised,
\* not even that the fetcher runs.
FairSpec ==
  /\ Spec
  /\ WF_vars(Start \/ Keeper)
  /\ \A p \in Honest : WF_vars(Answer(p))
-----------------------------------------------------------------------------
(***************************************************************************)
(* Proof of work is verified for every block in the index but those below  *)
(* a checkpoint: fastBlockSync switches the check off (AddCache) only for  *)
(* blocks it has matched with a header list that ends in the checkpoint,   *)
(* whatever the peers send and in whatever order.                          *)
(***************************************************************************)
WorkVerified == known \ UNION {OnBranch(c) : c \in Checkpoints} \subseteq Worked

(***************************************************************************)
(* An honest peer is charged with a misbehaviour only by fastBlockSync,    *)
(* and only in two cases: the fetcher moved the best block after the       *)
(* header list was begun, or the blocks in hand answer an older request.   *)
(***************************************************************************)
BlameJust ==
  [][\A p \in Honest : score'[p] > score[p] =>
       pc = "process" /\ (stale \/ best # headerList[fast])]_vars

(***************************************************************************)
(* If from some time on honest peers are connected and no others, the node *)
(* reports time and again that it has caught up with them: no stale        *)
(* answer, late timer, side branch or half-finished synchronisation keeps  *)
(* it behind (the panic is the race of resetHeaderState).                  *)
(***************************************************************************)
SyncCatchesUp ==
  <>[](peers # {} /\ peers \subseteq Honest) => []<>(IsCaughtUp \/ pc = "panic")
=============================================================================
