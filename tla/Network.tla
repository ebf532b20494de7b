------------------------------ MODULE Network -------------------------------
(***************************************************************************)
(* The switch, and netsync's txSyncLoop, which sends the transactions of   *)
(* the pool to every new peer, one pack of one peer at a time.  AddPeer of *)
(* a new connection waits until the loop has taken its message.            *)
(***************************************************************************)
EXTENDS Switch

CONSTANTS
  Packs,            \* the packs of txSyncPackSize that the pool's transactions make up
  MaxFaults         \* bound on the connections that fail or are removed unasked

ASSUME PacksAssumption == Packs \in Nat \ {0} /\ MaxFaults \in Nat

VARIABLES
  pending,          \* pending[n]: the packs that n has still to be sent
  sending,          \* the node a pack is on its way to; or "done", or None
  stalled,          \* a send found its peer gone while others were pending
  faults            \* how many connections failed or were removed unasked

syncVars == <<pending, sending, stalled>>
vars == <<switchVars, syncVars, faults>>

TypeOK ==
  /\ SwitchTypeOK
  /\ pending \in [Node -> 0..Packs]
  /\ sending \in Node \cup {"done", None}
  /\ stalled \in BOOLEAN
  /\ faults \in 0..MaxFaults

Init ==
  /\ SwitchInit
  /\ pending = [n \in Node |-> 0] /\ sending = None /\ stalled = FALSE
  /\ faults = 0

Unasked == faults < MaxFaults /\ faults' = faults + 1

Waiting(queue) == {n \in Node : queue[n] > 0}
-----------------------------------------------------------------------------
\* send, with the map of pending messages it is called with: nothing is sent to a
\* peer that is gone, and nothing else is picked in its place.
Send(queue, n) ==
  IF reg[n] = None
  THEN /\ pending' = [queue EXCEPT ![n] = 0]
       /\ sending' = None
       /\ stalled' = (Waiting(pending') # {})
  ELSE /\ pending' = [queue EXCEPT ![n] = @ - 1]
       /\ sending' = n
       /\ stalled' = FALSE

\* syncTransactions, and the loop's receipt of its message.
SyncTransactions(c) ==
  /\ at[c] = "sync"
  /\ at' = [at EXCEPT ![c] = "add"]
  /\ LET queue == [pending EXCEPT ![node[c]] = Packs]
     IN IF sending = None THEN Send(queue, node[c])
        ELSE pending' = queue /\ UNCHANGED <<sending, stalled>>
  /\ UNCHANGED <<node, running, closed, inHand, onError, setVars, reg, overlap, faults>>

\* syncTransactions for an empty pool.
NothingToSync(c) ==
  /\ at[c] = "sync"
  /\ at' = [at EXCEPT ![c] = "add"]
  /\ UNCHANGED <<node, running, closed, inHand, onError, setVars, reg, overlap, syncVars, faults>>

\* The goroutine that sends a pack; if it cannot, the peer is removed.
PackSent ==
  /\ sending \in Node
  /\ sending' = "done"
  /\ UNCHANGED <<switchVars, pending, stalled, faults>>

PackFails ==
  /\ sending \in Node
  /\ sending' = "done"
  /\ Unregister(sending)
  /\ Unasked
  /\ UNCHANGED <<node, at, onError, overlap, pending, stalled>>

\* Mutant: the loop picks nothing after a pack.
DoneOnly ==
  /\ sending = "done"
  /\ sending' = None
  /\ UNCHANGED <<switchVars, pending, stalled, faults>>

Done ==
  /\ sending = "done"
  /\ \/ Waiting(pending) = {} /\ sending' = None /\ UNCHANGED <<pending, stalled>>
     \/ \E n \in Waiting(pending) : Send(pending, n)
  /\ UNCHANGED <<switchVars, faults>>
-----------------------------------------------------------------------------
Listen == \E c \in Conn, n \in Node : Accept(c, n)

AddPeer(c) == Refuse(c) \/ StartPeer(c) \/ CheckStatus(c) \/ HandshakeTimeout(c) \/ Add(c)

Routines(c) ==
  \/ c \in inHand /\ HandleStatus(c)
  \/ ErrorRemove(c) \/ ErrorUnregister(c)
  \/ c \in closed /\ Fail(c)

Fault == (\E c \in Conn \ closed : Fail(c)) \/ (\E n \in Node : RemovePeer(n))

Next ==
  \/ /\ EnsureOutboundPeers \/ Listen \/ \E c \in Conn : AddPeer(c) \/ HandleStatus(c) \/ Routines(c)
     /\ UNCHANGED <<syncVars, faults>>
  \/ Fault /\ Unasked /\ UNCHANGED syncVars
  \/ \E c \in Conn : SyncTransactions(c) \/ NothingToSync(c)
  \/ PackSent \/ PackFails \/ Done

Spec == Init /\ [][Next]_vars

\* Every goroutine takes its steps, and every timer fires; that anyone connects,
\* answers or fails is not promised, but for a socket this node has closed.
FairSpec ==
  /\ Spec
  /\ \A c \in Conn : /\ WF_vars(\/ AddPeer(c) /\ UNCHANGED <<syncVars, faults>>
                                \/ SyncTransactions(c) \/ NothingToSync(c))
                      /\ WF_vars(Routines(c) /\ UNCHANGED <<syncVars, faults>>)
  /\ WF_vars(PackSent \/ PackFails \/ Done)
-----------------------------------------------------------------------------
(***************************************************************************)
(* PeerSet: whatever is added and removed in whatever order, each node in  *)
(* the list is found under its key at its position, and no other is.       *)
(***************************************************************************)
SetConsistent ==
  /\ \A k \in 1..Len(list) : lookup[node[list[k]]] = k
  /\ \A n \in Node : Has(n) => lookup[n] <= Len(list) /\ node[list[lookup[n]]] = n

(***************************************************************************)
(* The switch holds on to what it started: a connection that runs after    *)
(* AddPeer is in the switch's set or its socket is closed, unless the node *)
(* had two connections at one time, when removing the one by key may drop  *)
(* the other.                                                              *)
(***************************************************************************)
RunningListed ==
  \A c \in running : at[c] = "over" => c \in Listed \cup closed \/ node[c] \in overlap

(***************************************************************************)
(* AddPeer of a connection that was started comes to its end, whether or   *)
(* not the peer ever answers and however busy txSyncLoop is: otherwise no  *)
(* other connection would be accepted, or dialled.                         *)
(***************************************************************************)
HandshakeEnds == \A c \in Conn : (at[c] # "over") ~> (at[c] = "over")

(***************************************************************************)
(* Every peer that waits for the pool's transactions is served or dropped, *)
(* unless txSyncLoop came upon a peer that had gone and stopped there.     *)
(***************************************************************************)
PendingServed == \A n \in Node : (pending[n] > 0) ~> (pending[n] = 0 \/ stalled)
=============================================================================
