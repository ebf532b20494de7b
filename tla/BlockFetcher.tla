---------------------------- MODULE BlockFetcher ----------------------------
(***************************************************************************)
(* netsync.blockFetcher: the goroutine blockProcessor, which takes newly   *)
(* mined blocks from the channel newBlockCh, keeps those that are not yet  *)
(* due in a queue ordered by height, and hands the others to the chain.    *)
(* The queue is looked at only after a message has arrived.                *)
(***************************************************************************)
EXTENDS NetChain, NetPeers

CONSTANTS
  NewBlockCap,      \* newBlockChSize
  MaxMsgSet,        \* maxMsgSetSize
  MaxDistance       \* maxBlockDistance

VARIABLES
  newBlockCh,       \* blockFetcher.newBlockCh: announcements [peer, block]
  queue,            \* blockFetcher.queue, the announcements in it
  msgSet,           \* blockFetcher.msgSet: the blocks that are its keys
  fpc,              \* where blockProcessor stands
  fheight           \* the best height it read before it looked at the queue

fetcherVars == <<newBlockCh, queue, msgSet, fpc, fheight>>

Announcement == [peer : Peer, block : Block]

FetcherTypeOK ==
  /\ newBlockCh \in Seq(Announcement) /\ Len(newBlockCh) <= NewBlockCap
  /\ queue \subseteq Announcement
  /\ msgSet \subseteq Block
  /\ fpc \in {"receive", "look", "drain"}
  /\ fheight \in Nat

FetcherInit ==
  newBlockCh = <<>> /\ queue = {} /\ msgSet = {} /\ fpc = "receive" /\ fheight = 0

\* add: a block is queued once, if it is not too far from the best block.
Wanted(b) ==
  /\ Cardinality(msgSet) <= MaxMsgSet
  /\ Height[b] >= BestBlockHeight
  /\ Height[b] - BestBlockHeight <= MaxDistance

FetcherAdd ==
  /\ fpc = "receive"
  /\ newBlockCh # <<>>
  /\ newBlockCh' = Tail(newBlockCh)
  /\ LET msg == Head(newBlockCh)
     IN IF Wanted(msg.block) /\ msg.block \notin msgSet
        THEN msgSet' = msgSet \cup {msg.block} /\ queue' = queue \cup {msg}
        ELSE UNCHANGED <<msgSet, queue>>
  /\ fpc' = "look"
  /\ UNCHANGED <<fheight, chainVars, peerVars>>

FetcherLook ==
  /\ fpc = "look"
  /\ fheight' = BestBlockHeight
  /\ fpc' = "drain"
  /\ UNCHANGED <<newBlockCh, queue, msgSet, chainVars, peerVars>>

\* The queue is empty, or its lowest block is not due.
FetcherWait ==
  /\ fpc = "drain"
  /\ \A m \in queue : Height[m.block] > fheight + 1
  /\ fpc' = "receive"
  /\ fheight' = 0
  /\ UNCHANGED <<newBlockCh, queue, msgSet, chainVars, peerVars>>

(***************************************************************************)
(* insert, and the deletion from msgSet.  A block the chain refuses costs  *)
(* its sender points; any other is sent on, and the peers whose send queue *)
(* is full are removed.                                                    *)
(***************************************************************************)
FetcherInsert(m) ==
  /\ fpc = "drain"
  /\ m \in queue
  /\ Height[m.block] <= fheight + 1
  /\ \A n \in queue : Height[m.block] <= Height[n.block]
  /\ queue' = queue \ {m}
  /\ \E r \in ProcessBlock(m.block, FALSE) :
       /\ Becomes(r)
       /\ msgSet' = msgSet \ {m.block}
       /\ IF r.err THEN AddBanScore(m.peer) ELSE \E S \in SUBSET peers : RemovePeers(S)
  /\ UNCHANGED <<newBlockCh, fpc, fheight>>
=============================================================================
