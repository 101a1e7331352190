----------------------------- MODULE ClusterManager -----------------------------
(***************************************************************************)
(* Leadership and membership as a manager of internal/cluster/manager.go   *)
(* keeps them in raft mode.                                                *)
(*                                                                         *)
(* Managers call the HTTP handlers of pkg/api/handler.go, which know of no *)
(* manager: a join and a heartbeat are answered and change nothing, the    *)
(* status has no "leader_id", and the nodes are those of the P2P node of   *)
(* the server that answers: the ID of its host alone, since no message of  *)
(* another node gets to peerStates (see P2PCluster), active, and with      *)
(* "addresses" where the manager reads "address".  Nothing passes from one *)
(* manager to another, and one is modelled, with what such servers answer. *)
(*                                                                         *)
(* A step is one section under leaderMutex or nodesMutex, or one HTTP      *)
(* call, which may always fail.  Of an entry of the map, the address and   *)
(* the status are kept.  LastSeen is not: any time may pass between two    *)
(* steps, so any other node may be overdue when its health is checked.     *)
(* Neither is the IsLeader flag, which nothing reads but the heartbeats.   *)
(***************************************************************************)
EXTENDS Integers

CONSTANTS
    Self,     \* nodeID, a number: the code compares IDs
    Peer,     \* the IDs of the hosts of the servers that answer
    Config    \* the configurations: cluster.bootstrap, and the number of
              \* addresses in cluster.join_addresses

NoLeader == 0                    \* leaderID ""
Unlisted == [status |-> "none"]  \* no entry in the map

VARIABLES
    up,        \* whether the manager runs
    config,    \* its configuration
    isLeader,  \* held under leaderMutex
    leaderID,
    nodes,     \* the map, held under nodesMutex
    work       \* work[r]: what goroutine r does next

vars == <<up, config, isLeader, leaderID, nodes, work>>

ASSUME IDAssumption == Self \in Nat \ {0} /\ Peer \subseteq Nat \ {0}
ASSUME ConfigAssumption ==
    Config \subseteq [bootstrap : BOOLEAN, joins : Nat]

-----------------------------------------------------------------------------
(* The data.                                                                *)

ID == Peer \union {Self}

\* Node of manager.go: whether it has an address, and its status.
Member == [located : BOOLEAN, status : {"active", "failed"}]

\* Start up to becomeLeader, raftWorker and joinCluster.
Routine == {"start", "raft", "join"}

Task ==
    [at : {"idle", "judge", "check", "elect", "refresh", "fetch"}]
        \union [at : {"weigh", "claim", "locate"}, who : ID]
        \union [at : {"ask"}, left : Nat]
        \union [at : {"update"}, host : Peer]

Idle == [at |-> "idle"]

TypeOK ==
    /\ up \in BOOLEAN
    /\ config \in Config
    /\ isLeader \in BOOLEAN
    /\ leaderID \in ID \union {NoLeader}
    /\ nodes \in [ID -> Member \union {Unlisted}]
    /\ work \in [Routine -> Task]

Listed == {m \in ID : nodes[m] # Unlisted}
Active == {m \in ID : nodes[m].status = "active"}

-----------------------------------------------------------------------------
(* Starting and stopping.                                                   *)

\* NewManager: a manager knows itself and nobody else, and no leader.
SelfOnly ==
    [m \in ID |-> IF m = Self THEN [located |-> TRUE, status |-> "active"]
                              ELSE Unlisted]

AllIdle == [r \in Routine |-> Idle]

Init ==
    /\ up = FALSE
    /\ config \in Config
    /\ isLeader = FALSE
    /\ leaderID = NoLeader
    /\ nodes = SelfOnly
    /\ work = AllIdle

\* Seeded fault: a bootstrap node joins as well.
FirstWorkJoins ==
    [r \in Routine |->
        CASE r = "start" /\ config.bootstrap -> [at |-> "claim", who |-> Self]
          [] r = "join" /\ config.joins > 0 -> [at |-> "ask", left |-> config.joins]
          [] OTHER -> Idle]

\* Start in raft mode.  becomeLeader of a bootstrap node runs in Start, beside
\* the goroutine of raftWorker; any other node joins.
FirstWork ==
    [r \in Routine |->
        CASE r = "start" /\ config.bootstrap -> [at |-> "claim", who |-> Self]
          [] r = "join" /\ ~config.bootstrap /\ config.joins > 0
               -> [at |-> "ask", left |-> config.joins]
          [] OTHER -> Idle]

Start ==
    /\ ~up
    /\ up' = TRUE
    /\ work' = FirstWork
    /\ UNCHANGED <<config, isLeader, leaderID, nodes>>

\* Stop, or the end of the process at any point; another manager is created,
\* whose configuration may differ.
End ==
    /\ up
    /\ up' = FALSE
    /\ config' \in Config
    /\ isLeader' = FALSE
    /\ leaderID' = NoLeader
    /\ nodes' = SelfOnly
    /\ work' = AllIdle

-----------------------------------------------------------------------------
(* Helpers.                                                                 *)

\* Goroutine r goes on with task t and touches neither leader nor map.
Continue(r, t) ==
    /\ work' = [work EXCEPT ![r] = t]
    /\ UNCHANGED <<up, config, isLeader, leaderID, nodes>>

\* Seeded fault: isLeader is left as it was.
LeaderSectionHalf(r, who, t) ==
    /\ leaderID' = who
    /\ work' = [work EXCEPT ![r] = t]
    /\ UNCHANGED <<up, config, isLeader, nodes>>

\* A section under leaderMutex; a section under nodesMutex.
LeaderSection(r, who, t) ==
    /\ isLeader' = (who = Self)
    /\ leaderID' = who
    /\ work' = [work EXCEPT ![r] = t]
    /\ UNCHANGED <<up, config, nodes>>

NodesSection(r, list) ==
    /\ nodes' = list
    /\ work' = [work EXCEPT ![r] = Idle]
    /\ UNCHANGED <<up, config, isLeader, leaderID>>

-----------------------------------------------------------------------------
(* raftWorker.                                                              *)

\* performRaftTick: a leader sends heartbeats and then checks the others, any
\* other node looks at its leader.
Tick ==
    /\ up /\ work["raft"] = Idle
    /\ Continue("raft", [at |-> IF isLeader THEN "check" ELSE "judge"])

\* Seeded fault: nodes that are overdue become inactive, as in p2p/node.go.
CheckNodeHealthInactive ==
    /\ work["raft"].at = "check"
    /\ \E overdue \in SUBSET (Active \ {Self}) :
         NodesSection("raft",
            [m \in ID |-> IF m \in overdue THEN [nodes[m] EXCEPT !.status = "inactive"]
                                           ELSE nodes[m]])

\* checkNodeHealth: active nodes that are overdue become failed.
CheckNodeHealth ==
    /\ work["raft"].at = "check"
    /\ \E overdue \in SUBSET (Active \ {Self}) :
         NodesSection("raft",
            [m \in ID |-> IF m \in overdue THEN [nodes[m] EXCEPT !.status = "failed"]
                                           ELSE nodes[m]])

\* Seeded fault: a node without a leader waits to be told of one.
LookAtLeaderPatient ==
    /\ work["raft"].at = "judge"
    /\ Continue("raft", IF leaderID = NoLeader THEN [at |-> "refresh"]
                        ELSE [at |-> "weigh", who |-> leaderID])

\* shouldStartElection: whether there is a leader ...
LookAtLeader ==
    /\ work["raft"].at = "judge"
    /\ Continue("raft", IF leaderID = NoLeader THEN [at |-> "elect"]
                        ELSE [at |-> "weigh", who |-> leaderID])

\* Seeded fault: a leader that is not listed is kept.
WeighLeaderFailed ==
    /\ work["raft"].at = "weigh"
    /\ Continue("raft",
            [at |-> IF nodes[work["raft"].who].status = "failed"
                    THEN "elect" ELSE "refresh"])

\* ... and whether that leader is failed or not listed.
WeighLeader ==
    /\ work["raft"].at = "weigh"
    /\ Continue("raft",
            [at |-> IF nodes[work["raft"].who].status \in {"none", "failed"}
                    THEN "elect" ELSE "refresh"])

\* startLeaderElection: the lowest active node wins, the manager itself included.
Candidates == Active \union {Self}

StartLeaderElection ==
    /\ work["raft"].at = "elect"
    /\ \E winner \in Candidates :
         /\ \A m \in Candidates : winner <= m
         /\ Continue("raft", [at |-> "claim", who |-> winner])

\* becomeLeader or setLeader, by raftWorker or by Start.
Claim(r) ==
    /\ work[r].at = "claim"
    /\ LeaderSection(r, work[r].who, IF r = "raft" THEN [at |-> "refresh"] ELSE Idle)

\* Seeded fault: a leader asks itself.
RefreshOfSelf ==
    /\ work["raft"].at = "refresh"
    /\ \/ /\ leaderID # NoLeader
          /\ Continue("raft", [at |-> "locate", who |-> leaderID])
       \/ /\ leaderID = NoLeader \/ Listed # {Self}
          /\ Continue("raft", Idle)

\* refreshClusterMembership, which a tick reaches if the node knows nobody or
\* the clock says so; a leader, or a node without one, has nobody to ask.
Refresh ==
    /\ work["raft"].at = "refresh"
    /\ \/ /\ leaderID \notin {NoLeader, Self}
          /\ Continue("raft", [at |-> "locate", who |-> leaderID])
       \/ /\ leaderID \in {NoLeader, Self} \/ Listed # {Self}
          /\ Continue("raft", Idle)

\* The address of that leader, or else the first join address.
Locate ==
    /\ work["raft"].at = "locate"
    /\ LET leader == work["raft"].who IN
         Continue("raft",
            IF (leader \in Listed /\ nodes[leader].located) \/ config.joins > 0
            THEN [at |-> "fetch"] ELSE Idle)

-----------------------------------------------------------------------------
(* joinCluster, and the call it shares with the refresh.                    *)

\* sendJoinRequest: a server that is reached answers 200 and adds nobody; else
\* the next address is tried, if there is one.
Join ==
    /\ work["join"].at = "ask"
    /\ \/ Continue("join", [at |-> "fetch"])
       \/ Continue("join", IF work["join"].left > 1
                           THEN [at |-> "ask", left |-> work["join"].left - 1]
                           ELSE Idle)

\* discoverClusterNodes, whose status tells no leader, and the call of a
\* refresh: the host of the server, or no answer.
GetNodes(r) ==
    /\ work[r].at = "fetch"
    /\ \/ \E p \in Peer : Continue(r, [at |-> "update", host |-> p])
       \/ Continue(r, Idle)

\* Seeded fault: the list is taken as it is.
MergedWhole(p) ==
    [m \in ID |-> IF m = p THEN [located |-> FALSE, status |-> "active"]
                  ELSE Unlisted]

\* updateClusterMembership: the map becomes the list received, without an
\* address, but for the entry of the manager itself.
Merged(p) ==
    [m \in ID |-> IF m = Self THEN nodes[m]
                  ELSE IF m = p THEN [located |-> FALSE, status |-> "active"]
                  ELSE Unlisted]

UpdateClusterMembership(r) ==
    /\ work[r].at = "update"
    /\ NodesSection(r, Merged(work[r].host))

-----------------------------------------------------------------------------
(* Heartbeats.                                                              *)

\* sendHeartbeat and the goroutines of sendHeartbeatToNode, of a leader's tick
\* and of heartbeatWorker: they may run whenever there is another node in the
\* map.  A call to an address may be accepted, one to no address is not.
SendHeartbeatToNode(m) ==
    /\ up /\ m \in Listed \ {Self}
    /\ \E accepted \in BOOLEAN :
         /\ accepted => nodes[m].located
         /\ nodes' = IF accepted THEN [nodes EXCEPT ![m].status = "active"] ELSE nodes
    /\ UNCHANGED <<up, config, isLeader, leaderID, work>>

-----------------------------------------------------------------------------
RaftWorker ==
    \/ Tick
    \/ CheckNodeHealth
    \/ LookAtLeader
    \/ WeighLeader
    \/ StartLeaderElection
    \/ Claim("raft")
    \/ Refresh
    \/ Locate
    \/ GetNodes("raft")
    \/ UpdateClusterMembership("raft")

JoinCluster ==
    \/ Join
    \/ GetNodes("join")
    \/ UpdateClusterMembership("join")

Next ==
    \/ Start
    \/ End
    \/ Claim("start")
    \/ RaftWorker
    \/ JoinCluster
    \/ \E m \in Peer : SendHeartbeatToNode(m)

Spec == Init /\ [][Next]_vars

\* The tick comes again and again, and a step or call that has begun ends.
\* Starts and ends have no fairness.
FairSpec == Spec /\ WF_vars(RaftWorker)

-----------------------------------------------------------------------------
(* Properties.                                                              *)

\* The two records of leadership agree, whichever goroutine wrote last
\* (IsLeader and GetLeaderID are read one after the other by the code).
LeaderAgrees == isLeader <=> leaderID = Self

\* A manager counts itself among the active nodes, whatever list it is sent:
\* it can always win its own election.
SelfActive == nodes[Self].status = "active"

\* There are no terms, and whoever leads does so to the end: neither an
\* election decided before Start made a bootstrap node the leader, nor a list
\* that a join brings a leader, with a lower ID in it, takes the lead away.
LeadsToTheEnd == [][isLeader /\ up' => isLeader']_vars

\* Between the answer to a call and the replacement of the map no lock is held,
\* yet a list is never installed over a later one: a refresh and a join are
\* never on their way together.
NoRivalLists ==
    ~ (work["raft"].at \in {"fetch", "update"} /\ work["join"].at \in {"fetch", "update"})

\* Failing calls or not, a manager that keeps running gets a leader.
LeaderKnown == up ~> (~up \/ leaderID # NoLeader)

\* A manager does not stay with a leader that it does not list, though servers
\* are replaced by others and their hosts with them.
LeaderListedAgain == []<>(up => leaderID \in Listed)
=============================================================================
