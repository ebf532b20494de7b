------------------------------- MODULE Switch -------------------------------
(***************************************************************************)
(* p2p.Switch with its PeerSet, and the set of peers that package netsync  *)
(* keeps beside it.  A connection is added by the goroutine that dialled   *)
(* or accepted it, fails in its own routines, and is removed from outside; *)
(* both sets are indexed by the key of the remote node, so two connections *)
(* of one node share an entry.                                             *)
(***************************************************************************)
EXTENDS Integers, Sequences, FiniteSets

CONSTANTS
  Node,             \* remote nodes: a key and a host each
  Conn,             \* connections, used once each: the bound of the model
  Outbound,         \* those this node dials
  MaxNumPeers,      \* config.P2P.MaxNumPeers
  MinOutbound,      \* minNumOutboundPeers
  None

ASSUME SwitchAssumption ==
  Outbound \subseteq Conn /\ MaxNumPeers \in Nat /\ MinOutbound \in Nat /\ None \notin Node \cup Conn

VARIABLES
  node,             \* node[c]: the remote node of c, None before c comes about
  at,               \* at[c]: where the call of AddPeer for c stands
  running,          \* the connections whose MConnection runs
  closed,           \* those among them whose socket this node has closed
  inHand,           \* stopped ones whose receive routine still handles a status message
  onError,          \* onError[c]: where StopPeerForError for c stands
  list, lookup,     \* PeerSet.list, and the positions PeerSet.lookup gives
  reg,              \* reg[n]: netsync's peerSet.peers, the connection it holds for n
  overlap           \* nodes that ever had two connections in use at a time

setVars == <<list, lookup>>
switchVars == <<node, at, running, closed, inHand, onError, list, lookup, reg, overlap>>

SwitchTypeOK ==
  /\ node \in [Conn -> Node \cup {None}]
  /\ at \in [Conn -> {"over", "filter", "status", "late", "sync", "add"}]
  /\ running \subseteq Conn /\ closed \subseteq running /\ inHand \subseteq Conn \ running
  /\ onError \in [Conn -> {"no", "remove", "unregister"}]
  /\ list \in Seq(Conn)
  /\ lookup \in [Node -> 0..Cardinality(Conn)]
  /\ reg \in [Node -> Conn \cup {None}]
  /\ overlap \subseteq Node

SwitchInit ==
  /\ node = [c \in Conn |-> None] /\ at = [c \in Conn |-> "over"]
  /\ running = {} /\ closed = {} /\ inHand = {}
  /\ onError = [c \in Conn |-> "no"]
  /\ list = <<>> /\ lookup = [n \in Node |-> 0]
  /\ reg = [n \in Node |-> None]
  /\ overlap = {}

Listed == {list[k] : k \in 1..Len(list)}

\* AddPeer has started the connection and is not done with it, or some routine
\* or set still has it.
InUse(c) ==
  \/ at[c] \in {"status", "late", "sync", "add"}
  \/ c \in running \cup inHand \cup Listed
  \/ onError[c] # "no"
  \/ \E n \in Node : reg[n] = c

Free(c) == node[c] = None
-----------------------------------------------------------------------------
(***************************************************************************)
(* PeerSet.  Remove closes the gap with the last peer of the list; it goes *)
(* by the key, so it may take another connection of the node.              *)
(***************************************************************************)
Has(n) == lookup[n] # 0

PeerSetAdd(c) ==
  /\ list' = Append(list, c)
  /\ lookup' = [lookup EXCEPT ![node[c]] = Len(list) + 1]

\* Mutant: the last peer keeps the position it had.
RemoveKeepsIndex(n) ==
  LET k == lookup[n]
      last == Len(list)
  IN IF k = 0 THEN UNCHANGED setVars
     ELSE /\ list' = [j \in 1..(last - 1) |-> IF j = k THEN list[last] ELSE list[j]]
          /\ lookup' = [lookup EXCEPT ![n] = 0]

Remove(n) ==
  LET k == lookup[n]
      last == Len(list)
  IN IF k = 0 THEN UNCHANGED setVars
     ELSE /\ list' = [j \in 1..(last - 1) |-> IF j = k THEN list[last] ELSE list[j]]
          /\ lookup' = [m \in Node |-> CASE m = n -> 0
                                         [] m = node[list[last]] /\ m # n -> k
                                         [] OTHER -> lookup[m]]
-----------------------------------------------------------------------------
(***************************************************************************)
(* The connections that come about.  ensureOutboundPeers dials several     *)
(* nodes at a time and waits for all of them; listenerRoutine accepts one  *)
(* after the other, if there is room when it looks.                        *)
(***************************************************************************)
Adding == {c \in Conn : at[c] # "over"}

EnsureOutboundPeers ==
  /\ Adding \cap Outbound = {}
  /\ \E S \in SUBSET {c \in Outbound : Free(c)} : \E dial \in [S -> Node] :
       /\ S # {}
       /\ Cardinality(S) <= MinOutbound - Cardinality(Listed \cap Outbound)
       /\ \A c \in S : /\ dial[c] \notin {node[p] : p \in Listed}
                       /\ \A d \in S \ {c} : dial[d] # dial[c]
       /\ node' = [c \in Conn |-> IF c \in S THEN dial[c] ELSE node[c]]
       /\ at' = [c \in Conn |-> IF c \in S THEN "filter" ELSE at[c]]
  /\ UNCHANGED <<running, closed, inHand, onError, setVars, reg, overlap>>

Accept(c, n) ==
  /\ Adding \ Outbound = {}
  /\ c \notin Outbound /\ Free(c)
  /\ Len(list) < MaxNumPeers
  /\ node' = [node EXCEPT ![c] = n]
  /\ at' = [at EXCEPT ![c] = "filter"]
  /\ UNCHANGED <<running, closed, inHand, onError, setVars, reg, overlap>>

(***************************************************************************)
(* AddPeer.  Until the connection is started it is simply closed: after a  *)
(* failed handshake, or because filterConnByPeer finds the node in the set.*)
(***************************************************************************)
Refuse(c) ==
  /\ at[c] = "filter"
  /\ at' = [at EXCEPT ![c] = "over"]
  /\ UNCHANGED <<node, running, closed, inHand, onError, setVars, reg, overlap>>

\* startInitPeer starts the routines, and ProtocolReactor.AddPeer asks for the status.
StartPeer(c) ==
  /\ at[c] = "filter"
  /\ ~Has(node[c])
  /\ at' = [at EXCEPT ![c] = "status"]
  /\ running' = running \cup {c}
  /\ overlap' = overlap \cup {n \in {node[c]} : \E d \in Conn \ {c} : node[d] = n /\ InUse(d)}
  /\ UNCHANGED <<node, closed, inHand, onError, setVars, reg>>

\* ProtocolReactor.AddPeer looks once, after handshakeCheckPerid, whether the status has come.
CheckStatus(c) ==
  /\ at[c] = "status"
  /\ at' = [at EXCEPT ![c] = IF reg[node[c]] # None THEN "sync" ELSE "late"]
  /\ UNCHANGED <<node, running, closed, inHand, onError, setVars, reg, overlap>>

\* AddPeer returns an error and its caller closes the socket; the routines run on
\* until they meet the error.
GiveUp(c) ==
  /\ at' = [at EXCEPT ![c] = "over"]
  /\ closed' = closed \cup ({c} \cap running)

\* Mutant: the socket stays open.
TimeoutKeepsOpen(c) ==
  /\ at[c] = "late"
  /\ at' = [at EXCEPT ![c] = "over"]
  /\ UNCHANGED <<node, running, closed, inHand, onError, setVars, reg, overlap>>

\* Mutant: it waits until the status has come.
NoTimeout(c) ==
  /\ at[c] = "late"
  /\ reg[node[c]] # None
  /\ GiveUp(c)
  /\ UNCHANGED <<node, running, inHand, onError, setVars, reg, overlap>>

HandshakeTimeout(c) ==
  /\ at[c] = "late"
  /\ GiveUp(c)
  /\ UNCHANGED <<node, running, inHand, onError, setVars, reg, overlap>>

Add(c) ==
  /\ at[c] = "add"
  /\ IF Has(node[c]) THEN GiveUp(c) /\ UNCHANGED setVars
     ELSE PeerSetAdd(c) /\ at' = [at EXCEPT ![c] = "over"] /\ UNCHANGED closed
  /\ UNCHANGED <<node, running, inHand, onError, reg, overlap>>
-----------------------------------------------------------------------------
(***************************************************************************)
(* The routines of a connection.  A message that was read is handled even  *)
(* if the connection is stopped meanwhile.  An error stops it and leads to *)
(* StopPeerForError, once.                                                 *)
(***************************************************************************)
Stop(S) ==
  /\ running' = running \ S /\ closed' = closed \ S
  /\ \E read \in SUBSET S : inHand' = inHand \cup read

\* handleStatusResponseMsg: the first status enters the peer; a later one, and that
\* of a node with another genesis block, change nothing here.
HandleStatus(c) ==
  /\ c \in inHand \/ (c \in running \ closed /\ reg[node[c]] = None)
  /\ inHand' = inHand \ {c}
  /\ reg' = IF reg[node[c]] = None THEN [reg EXCEPT ![node[c]] = c] ELSE reg
  /\ UNCHANGED <<node, at, running, closed, onError, setVars, overlap>>

Fail(c) ==
  /\ c \in running
  /\ Stop({c})
  /\ onError' = [onError EXCEPT ![c] = "remove"]
  /\ UNCHANGED <<node, at, setVars, reg, overlap>>

\* stopAndRemovePeer for a failed connection: out of the switch's set ...
ErrorRemove(c) ==
  /\ onError[c] = "remove"
  /\ Remove(node[c])
  /\ onError' = [onError EXCEPT ![c] = "unregister"]
  /\ UNCHANGED <<node, at, running, closed, inHand, reg, overlap>>

\* netsync's removePeer: out of its own set, and StopPeerGracefully for the
\* connection that the switch has under the key, if any.
Unregister(n) ==
  /\ reg' = [reg EXCEPT ![n] = None]
  /\ Remove(n)
  /\ Stop({c \in running : Has(n) /\ c = list[lookup[n]]})

\* ... then out of netsync's.
ErrorUnregister(c) ==
  /\ onError[c] = "unregister"
  /\ Unregister(node[c])
  /\ onError' = [onError EXCEPT ![c] = "no"]
  /\ UNCHANGED <<node, at, overlap>>

\* Any caller of removePeer: a full send queue, an error in a synchronisation,
\* a ban, the API.
RemovePeer(n) ==
  /\ reg[n] # None
  /\ Unregister(n)
  /\ UNCHANGED <<node, at, onError, overlap>>
=============================================================================
