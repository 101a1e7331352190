------------------------------- MODULE P2PCluster -------------------------------
(***************************************************************************)
(* How the P2P nodes find each other and what they know of each other:     *)
(* discovery and dialling in internal/p2p/real_pubsub.go, and the cluster  *)
(* state kept by internal/p2p/cluster.go and node.go.                      *)
(*                                                                         *)
(* A node generates a key when it starts (createHost), so that each life   *)
(* of a process is a peer ID of its own.  The mDNS service and libp2p are  *)
(* external: an announced peer is found again and again, Connect succeeds  *)
(* at once if there is a connection, and the network may drop connections, *)
(* which no code in the repository is told of.                             *)
(***************************************************************************)
EXTENDS Integers, FiniteSets

CONSTANTS
    MaxIDs,       \* bound: processes ever started
    MaxRetries,   \* maxRetries of connectToPeer
    Unreliable,   \* whether Connect to a running peer may fail
    MaxRunning,   \* bound: processes running at the same time
    MaxDials,     \* bound: goroutines of connectToPeer at the same time
    MaxMessages,  \* bound: cluster messages under way when one is published
    MaxLosses     \* bound: connections the network drops

VARIABLES
    process,    \* process[i]: whether the process with ID i runs
    announced,  \* the IDs that mDNS knows
    connected,  \* the connections, sets of two IDs
    peers,      \* peers[i]: RealPubSubService.peers of process i
    dials,      \* the goroutines of connectToPeer
    peerStates, \* peerStates[i][j]: status of j in P2PNode.peerStates of i
    leader,     \* leader[i]: clusterState.Leader of process i
    topic,      \* the cluster messages published and not yet handled
    losses

vars == <<process, announced, connected, peers, dials, peerStates, leader, topic, losses>>
nodeVars == <<peerStates, leader, topic>>
peerVars == <<announced, connected, peers, dials, losses>>

ASSUME BoundAssumption ==
    /\ {MaxIDs, MaxRetries, MaxRunning, MaxDials} \subseteq Nat \ {0}
    /\ {MaxMessages, MaxLosses} \subseteq Nat
ASSUME SwitchAssumption == Unreliable \in BOOLEAN

-----------------------------------------------------------------------------
(* The data.                                                                *)

\* Peer IDs in the order in which they are generated; the empty ID.
ID == 1..MaxIDs
None == 0

Pair(i, j) == {i, j}
Pairs == {Pair(e[1], e[2]) : e \in {d \in ID \X ID : d[1] # d[2]}}

\* A goroutine of connectToPeer: about to dial, asleep after a failure, or
\* connected and about to record the peer.
Dial ==
    [from : ID, to : ID, slot : 1..MaxDials, step : {"connect"}, attempt : 1..MaxRetries]
        \union [from : ID, to : ID, slot : 1..MaxDials, step : {"sleep"},
                attempt : 1..(MaxRetries - 1)]
        \union [from : ID, to : ID, slot : 1..MaxDials, step : {"record"}]

Status == {"none", "active", "inactive"}

\* ClusterMessage as the topic carries it, with its sender and one receiver; its
\* time is written as a text.
ClusterMessage ==
    [from : ID, to : ID, type : {"heartbeat", "leader_election"},
     leaderID : ID \union {None}, timestamp : {"text"}]

TypeOK ==
    /\ process \in [ID -> {"new", "running", "dead"}]
    /\ announced \subseteq ID
    /\ connected \subseteq Pairs
    /\ peers \in [ID -> SUBSET ID]
    /\ dials \subseteq Dial
    /\ peerStates \in [ID -> [ID -> Status]]
    /\ leader \in [ID -> ID \union {None}]
    /\ topic \subseteq ClusterMessage
    /\ losses \in 0..MaxLosses

Running == {i \in ID : process[i] = "running"}

Init ==
    /\ process = [i \in ID |-> "new"]
    /\ announced = {} /\ connected = {} /\ dials = {} /\ topic = {} /\ losses = 0
    /\ peers = [i \in ID |-> {}]
    /\ peerStates = [i \in ID |-> [j \in ID |-> "none"]]
    /\ leader = [i \in ID |-> None]

-----------------------------------------------------------------------------
(* Processes and network.                                                   *)

\* A process starts under a new ID and announces it (startDiscovery).
Start(i) ==
    /\ process[i] = "new" /\ \A j \in 1..(i - 1) : process[j] # "new"
    /\ Cardinality(Running) < MaxRunning
    /\ process' = [process EXCEPT ![i] = "running"]
    /\ announced' = announced \union {i}
    /\ UNCHANGED <<connected, peers, dials, losses, nodeVars>>

\* A process dies, its goroutines, connections and maps with it.
Crash(i) ==
    /\ process[i] = "running"
    /\ process' = [process EXCEPT ![i] = "dead"]
    /\ connected' = {c \in connected : i \notin c}
    /\ dials' = {d \in dials : d.from # i}
    /\ peers' = [peers EXCEPT ![i] = {}]
    /\ peerStates' = [peerStates EXCEPT ![i] = [j \in ID |-> "none"]]
    /\ leader' = [leader EXCEPT ![i] = None]
    /\ topic' = {m \in topic : m.to # i}
    /\ UNCHANGED <<announced, losses>>

\* mDNS forgets a process that is gone.
Expire(i) ==
    /\ process[i] = "dead" /\ i \in announced
    /\ announced' = announced \ {i}
    /\ UNCHANGED <<process, connected, peers, dials, losses, nodeVars>>

\* The network drops a connection.
Disconnect(c) ==
    /\ c \in connected /\ losses < MaxLosses
    /\ connected' = connected \ {c}
    /\ losses' = losses + 1
    /\ UNCHANGED <<process, announced, peers, dials, nodeVars>>

-----------------------------------------------------------------------------
(* Discovery and dialling.                                                  *)

Slots == {d.slot : d \in dials}

\* A goroutine of connectToPeer starts.
Dialled(i, j) ==
    \E s \in (1..MaxDials) \ Slots :
        /\ 1..(s - 1) \subseteq Slots
        /\ dials' = dials \union
              {[from |-> i, to |-> j, slot |-> s, step |-> "connect", attempt |-> 1]}

\* Seeded faults: recorded peers are dialled too; they are, but only if they are
\* not connected; a connected peer is not dialled, recorded or not.
HandlePeerFoundAlways(i, j) ==
    /\ i \in Running /\ j \in announced \ {i}
    /\ Dialled(i, j)
    /\ UNCHANGED <<process, announced, connected, peers, losses, nodeVars>>
HandlePeerFoundConnected(i, j) ==
    /\ i \in Running /\ j \in announced \ {i}
    /\ Pair(i, j) \notin connected \/ j \notin peers[i]
    /\ Dialled(i, j)
    /\ UNCHANGED <<process, announced, connected, peers, losses, nodeVars>>
HandlePeerFoundOnce(i, j) ==
    /\ i \in Running /\ j \in announced \ {i}
    /\ j \notin peers[i] /\ Pair(i, j) \notin connected
    /\ Dialled(i, j)
    /\ UNCHANGED <<process, announced, connected, peers, losses, nodeVars>>

\* HandlePeerFound: a peer other than the node itself that is not recorded is
\* dialled, whether another goroutine dials it already or not.
HandlePeerFound(i, j) ==
    /\ i \in Running /\ j \in announced \ {i}
    /\ j \notin peers[i]
    /\ Dialled(i, j)
    /\ UNCHANGED <<process, announced, connected, peers, losses, nodeVars>>

\* The goroutine goes on to record the peer; it ends.
Connected(d) ==
    dials' = (dials \ {d}) \union
        {[from |-> d.from, to |-> d.to, slot |-> d.slot, step |-> "record"]}
Ends(d) == dials' = dials \ {d}

\* Seeded fault: a connection is recorded by the first attempt only.
ConnectSucceedsFirst(d) ==
    /\ d.step = "connect" /\ d.to \in Running
    /\ connected' = connected \union {Pair(d.from, d.to)}
    /\ IF d.attempt = 1 THEN Connected(d) ELSE Ends(d)
    /\ UNCHANGED <<process, announced, peers, losses, nodeVars>>

\* connectToPeer: host.Connect succeeds ...
ConnectSucceeds(d) ==
    /\ d.step = "connect" /\ d.to \in Running
    /\ connected' = connected \union {Pair(d.from, d.to)}
    /\ Connected(d)
    /\ UNCHANGED <<process, announced, peers, losses, nodeVars>>

\* Seeded fault: one attempt too many.
ConnectFailsOften(d) ==
    /\ d.step = "connect"
    /\ d.to \notin Running \/ (Unreliable /\ Pair(d.from, d.to) \notin connected)
    /\ IF d.attempt <= MaxRetries
       THEN dials' = (dials \ {d}) \union {[d EXCEPT !.step = "sleep"]}
       ELSE Ends(d)
    /\ UNCHANGED <<process, announced, connected, peers, losses, nodeVars>>

\* ... or fails, for the last time or not ...
ConnectFails(d) ==
    /\ d.step = "connect"
    /\ d.to \notin Running \/ (Unreliable /\ Pair(d.from, d.to) \notin connected)
    /\ IF d.attempt < MaxRetries
       THEN dials' = (dials \ {d}) \union {[d EXCEPT !.step = "sleep"]}
       ELSE Ends(d)
    /\ UNCHANGED <<process, announced, connected, peers, losses, nodeVars>>

\* ... and is tried again after a sleep.
Retry(d) ==
    /\ d.step = "sleep"
    /\ dials' = (dials \ {d}) \union {[d EXCEPT !.step = "connect", !.attempt = @ + 1]}
    /\ UNCHANGED <<process, announced, connected, peers, losses, nodeVars>>

\* The peer is recorded.
RecordPeer(d) ==
    /\ d.step = "record"
    /\ peers' = [peers EXCEPT ![d.from] = @ \union {d.to}]
    /\ Ends(d)
    /\ UNCHANGED <<process, announced, connected, losses, nodeVars>>

-----------------------------------------------------------------------------
(* The cluster protocol.                                                    *)

\* processClusterMessage: handleHeartbeat and handleLeaderElection.
ProcessClusterMessage(i, type, from, who) ==
    /\ peerStates' = IF type = "heartbeat"
                     THEN [peerStates EXCEPT ![i][from] = "active"]
                     ELSE peerStates
    /\ leader' = IF type = "leader_election" THEN [leader EXCEPT ![i] = who] ELSE leader
    /\ UNCHANGED <<process, peerVars, topic>>

\* handleMessages hears nothing of the topic: every five seconds it makes up a
\* heartbeat of the node itself.
HandleMessages(i) ==
    /\ i \in Running
    /\ ProcessClusterMessage(i, "heartbeat", i, leader[i])

\* publishClusterMessage, with the leader known so far, whoever the message was
\* made to name; every connected node hears it.
Publish(i, type) ==
    /\ Cardinality(topic) < MaxMessages
    /\ topic' = topic \union
          {[from |-> i, to |-> j, type |-> type, leaderID |-> leader[i],
            timestamp |-> "text"] : j \in {k \in ID : k # i /\ Pair(i, k) \in connected}}
    /\ UNCHANGED <<process, peerVars, peerStates, leader>>

SendHeartbeat(i) == i \in Running /\ Publish(i, "heartbeat")

\* checkLeaderHealth: without a leader, or with one that is not an active peer,
\* the node announces an election.
CheckLeaderHealth(i) ==
    /\ i \in Running
    /\ leader[i] # None => peerStates[i][leader[i]] # "active"
    /\ Publish(i, "leader_election")

\* The callback of the topic is processMessage of file_sync.go.  It goes on with
\* a message whose time it can read as a number, if the type is one of three.
IsFileMessage(m) ==
    /\ m.timestamp = "number"
    /\ m.type \in {"file_event", "file_request", "file_response"}

\* Any other message is logged and forgotten.
ProcessMessage(m) ==
    /\ ~IsFileMessage(m)
    /\ topic' = topic \ {m}
    /\ UNCHANGED <<process, peerVars, peerStates, leader>>

\* checkPeerHealth refreshes every time it then tests, so that nobody is ever
\* inactive; cleanupClusterState, which runs next, finds nothing to remove.
CheckPeerHealth(i) ==
    /\ i \in Running
    /\ peerStates' = [peerStates EXCEPT ![i] =
            [j \in ID |-> IF peerStates[i][j] # "none" THEN "active" ELSE "none"]]
    /\ UNCHANGED <<process, peerVars, leader, topic>>

IsLeader(i) == leader[i] = i

-----------------------------------------------------------------------------
DialIn(s) == {d \in dials : d.slot = s}

ConnectToPeer(s) ==
    \/ \E d \in DialIn(s) : ConnectSucceeds(d)
    \/ \E d \in DialIn(s) : ConnectFails(d)
    \/ \E d \in DialIn(s) : Retry(d)
    \/ \E d \in DialIn(s) : RecordPeer(d)

Next ==
    \/ \E i \in ID : Start(i)
    \/ \E i \in ID : Crash(i)
    \/ \E i \in ID : Expire(i)
    \/ \E c \in connected : Disconnect(c)
    \/ \E i, j \in ID : HandlePeerFound(i, j)
    \/ \E s \in 1..MaxDials : ConnectToPeer(s)
    \/ \E i \in ID : SendHeartbeat(i)
    \/ \E i \in ID : CheckLeaderHealth(i)
    \/ \E m \in topic : ProcessMessage(m)
    \/ \E i \in ID : HandleMessages(i)
    \/ \E i \in ID : CheckPeerHealth(i)

Spec == Init /\ [][Next]_vars

\* mDNS finds what is announced and forgets what is gone, goroutines run, and
\* of dials that could succeed again and again one does.
Fairness ==
    /\ \A i \in ID : WF_vars(Expire(i))
    /\ \A i \in ID : \A j \in ID \ {i} : WF_vars(HandlePeerFound(i, j))
    /\ \A s \in 1..MaxDials :
         /\ WF_vars(ConnectToPeer(s))
         /\ SF_vars(\E d \in DialIn(s) : ConnectSucceeds(d))

FairSpec == Spec /\ Fairness

\* Moreover, elections are announced again and again, and messages handled.
ElectionFairness ==
    /\ \A i \in ID : SF_vars(CheckLeaderHealth(i))
    /\ WF_vars(\E m \in topic : ProcessMessage(m))

ElectionSpec == FairSpec /\ ElectionFairness

-----------------------------------------------------------------------------
(* Properties.                                                              *)

\* A connection that a node has made is in its list of peers, or is about to
\* be, whatever other goroutines dial the same peer: no connection is unknown
\* at both ends.
ConnectionRecorded ==
    \A c \in connected : \E i, j \in c :
        /\ i # j
        /\ \/ j \in peers[i]
           \/ \E d \in dials : d.from = i /\ d.to = j /\ d.step = "record"

\* Two nodes that have recorded each other, no longer dial and have lost their
\* connection.
Parted(i, j) ==
    /\ {i, j} \subseteq Running /\ Pair(i, j) \notin connected
    /\ j \in peers[i] /\ i \in peers[j]
    /\ \A d \in dials : {d.from, d.to} # Pair(i, j)

\* "Already connected" is judged by a list from which nothing is removed
\* (real_pubsub.go:177), so two nodes that part stay apart until one of them
\* is started anew (KnownPeersReconnected is what a comment says of them).
PartedForGood ==
    [][\A i, j \in ID :
         Parted(i, j) /\ {i, j} \subseteq {k \in ID : process'[k] = "running"}
             => Parted(i, j)']_vars

\* mDNS finds peers for ever, but dialling ends: every goroutine gives up or
\* records its peer, and a recorded peer is not dialled again.
DialsEnd == <>[](dials = {})

\* Failed attempts and competing dials or not, two nodes that keep running end
\* up in each other's list, and stay there.
Meet ==
    \A i, j \in ID :
        <>[]({i, j} \subseteq Running /\ i # j => j \in peers[i])

\* real_pubsub.go:221: "attemptPeerConnections periodically attempts to connect to
\* known peers": two nodes that know each other and keep running are connected
\* again and again.
KnownPeersReconnected ==
    \A i, j \in ID :
        <>[](i # j /\ {i, j} \subseteq Running /\ j \in peers[i])
            => []<>(Pair(i, j) \in connected)

\* README.md:21: "Automatic leader election": of nodes that stay connected, one
\* comes to lead.
LeaderElected ==
    (\E c \in Pairs : <>[](c \in connected)) => <>(\E i \in ID : IsLeader(i))
=============================================================================
