------------------------------ MODULE NetPeers ------------------------------
(***************************************************************************)
(* netsync.peerSet: the peers that have sent their status, the height each *)
(* one claims, and its ban score in units of the 20 points a misbehaviour  *)
(* costs.  A peer that leaves the set is disconnected and its record is    *)
(* lost, the score included.                                               *)
(***************************************************************************)
EXTENDS Integers

CONSTANTS
  Peer,
  FastSync,         \* the sets of fast-sync peers to start from
  BanThreshold      \* defaultBanThreshold, in units of 20 points

VARIABLES
  peers,            \* peerSet.peers: the keys
  claim,            \* peer.height
  score,            \* peer.banScore, the persistent part
  fastSync          \* the peers that announce SFFastSync beside SFFullNode: never changes

peerVars == <<peers, claim, score, fastSync>>

PeersTypeOK ==
  /\ peers \subseteq Peer
  /\ claim \in [Peer -> Nat]
  /\ score \in [Peer -> 0..BanThreshold]
  /\ fastSync \in FastSync
  /\ \A p \in Peer \ peers : claim[p] = 0 /\ score[p] = 0

PeersInit ==
  peers = {} /\ fastSync \in FastSync /\ claim = [p \in Peer |-> 0] /\ score = [p \in Peer |-> 0]

\* addPeer, on the first status of a connection.
AddPeer(p, height) ==
  /\ p \notin peers
  /\ peers' = peers \cup {p}
  /\ claim' = [claim EXCEPT ![p] = height]
  /\ UNCHANGED <<score, fastSync>>

SetStatus(p, height) ==
  claim' = [claim EXCEPT ![p] = height] /\ UNCHANGED <<peers, score, fastSync>>

\* removePeer, for every peer of S.
RemovePeers(S) ==
  /\ peers' = peers \ S
  /\ claim' = [p \in Peer |-> IF p \in S THEN 0 ELSE claim[p]]
  /\ score' = [p \in Peer |-> IF p \in S THEN 0 ELSE score[p]]
  /\ UNCHANGED fastSync

\* addBanScore: beyond the threshold the peer is removed.
AddBanScore(p) ==
  IF p \in peers /\ score[p] < BanThreshold
  THEN score' = [score EXCEPT ![p] = @ + 1] /\ UNCHANGED <<peers, claim, fastSync>>
  ELSE RemovePeers({p})

\* errorHandler: a misbehaviour costs points, any other error the connection.
ErrorHandler(p, misbehaved) == IF misbehaved THEN AddBanScore(p) ELSE RemovePeers({p})

\* bestPeer: the peers it may return, as the order of a map's keys is arbitrary.
BestPeers(S) == {p \in S : \A q \in S : claim[q] <= claim[p]}
=============================================================================
