-------------------------- MODULE ClusterManagerProofs --------------------------
(***************************************************************************)
(* Theorems about ClusterManager, for any configurations, any IDs of the   *)
(* manager and of the hosts, failing calls and ends of the process.        *)
(***************************************************************************)
EXTENDS ClusterManager, TLAPS

-----------------------------------------------------------------------------
(* Tasks.                                                                   *)

\* What a task carries follows from where it stands.
LEMMA TaskFields ==
    ASSUME NEW t \in Task
    PROVE  /\ t.at \in {"weigh", "claim", "locate"} => t.who \in ID
           /\ t.at = "ask" => t.left \in Nat
           /\ t.at = "update" => t.host \in Peer
           /\ t = Idle <=> t.at = "idle"
BY DEF Task, Idle

\* Any such record is a task.
LEMMA TaskForms ==
    /\ Idle \in Task
    /\ \A at \in {"judge", "check", "elect", "refresh", "fetch"} : [at |-> at] \in Task
    /\ \A who \in ID : /\ [at |-> "weigh", who |-> who] \in Task
                       /\ [at |-> "claim", who |-> who] \in Task
                       /\ [at |-> "locate", who |-> who] \in Task
    /\ \A left \in Nat : [at |-> "ask", left |-> left] \in Task
    /\ \A p \in Peer : [at |-> "update", host |-> p] \in Task
BY DEF Task, Idle

\* The goroutines have keys of their own.
LEMMA Routines == "start" \in Routine /\ "raft" \in Routine /\ "join" \in Routine
BY DEF Routine

-----------------------------------------------------------------------------
(* Types.                                                                   *)

LEMMA ContinueTyped ==
    ASSUME TypeOK, NEW r \in Routine, NEW t \in Task, Continue(r, t)
    PROVE  TypeOK'
BY DEF TypeOK, Continue

LEMMA LeaderSectionTyped ==
    ASSUME TypeOK, NEW r \in Routine, NEW who \in ID, NEW t \in Task,
           LeaderSection(r, who, t)
    PROVE  TypeOK'
BY DEF TypeOK, LeaderSection

LEMMA NodesSectionTyped ==
    ASSUME TypeOK, NEW r \in Routine, NEW list \in [ID -> Member \union {Unlisted}],
           NodesSection(r, list)
    PROVE  TypeOK'
BY TaskForms DEF TypeOK, NodesSection

LEMMA SelfOnlyTyped == SelfOnly \in [ID -> Member \union {Unlisted}]
BY DEF SelfOnly, Member

LEMMA FirstWorkTyped ==
    ASSUME TypeOK
    PROVE  FirstWork \in [Routine -> Task]
<1>1. ASSUME NEW r \in Routine
      PROVE  FirstWork[r] \in Task
  <2>1. Self \in ID /\ config.joins \in Nat
    BY ConfigAssumption DEF ID, TypeOK
  <2>2. CASE r = "start"
    BY <2>1, <2>2, TaskForms DEF FirstWork, Routine
  <2>3. CASE r = "raft"
    BY <2>3, TaskForms DEF FirstWork, Routine
  <2>4. CASE r = "join"
    BY <2>1, <2>4, TaskForms DEF FirstWork, Routine
  <2> QED BY <2>2, <2>3, <2>4 DEF Routine
<1> QED BY <1>1 DEF FirstWork

LEMMA MergedTyped ==
    ASSUME TypeOK, NEW p \in Peer
    PROVE  Merged(p) \in [ID -> Member \union {Unlisted}]
BY DEF TypeOK, Merged, Member

LEMMA InitTyped == Init => TypeOK
BY SelfOnlyTyped, TaskForms DEF Init, TypeOK, AllIdle

\* One step per action.
LEMMA StepTyped ==
    ASSUME TypeOK, [Next]_vars
    PROVE  TypeOK'
<1> USE Routines
<1>work. \A r \in Routine : work[r] \in Task
  BY DEF TypeOK
<1>1. CASE Start
  BY <1>1, FirstWorkTyped DEF Start, TypeOK
<1>2. CASE End
  BY <1>2, SelfOnlyTyped, TaskForms DEF End, TypeOK, AllIdle
<1>3. ASSUME NEW r \in {"start", "raft"}, Claim(r)
      PROVE  TypeOK'
  <2>1. work[r].who \in ID
    BY <1>3, <1>work, TaskFields DEF Claim
  <2>2. r \in Routine /\ (IF r = "raft" THEN [at |-> "refresh"] ELSE Idle) \in Task
    BY <1>3, TaskForms
  <2> QED BY <1>3, <2>1, <2>2, LeaderSectionTyped DEF Claim
<1>4. CASE Tick
  BY <1>4, ContinueTyped, TaskForms DEF Tick
<1>5. CASE CheckNodeHealth
  <2>1. PICK overdue \in SUBSET (Active \ {Self}) :
           NodesSection("raft",
              [m \in ID |-> IF m \in overdue THEN [nodes[m] EXCEPT !.status = "failed"]
                                             ELSE nodes[m]])
    BY <1>5 DEF CheckNodeHealth
  <2>2. \A m \in overdue : m \in ID /\ nodes[m] \in Member
    BY DEF Active, TypeOK, Unlisted, Member
  <2>3. \A m \in overdue : [nodes[m] EXCEPT !.status = "failed"] \in Member
    BY <2>2 DEF Member
  <2>4. [m \in ID |-> IF m \in overdue THEN [nodes[m] EXCEPT !.status = "failed"]
                                       ELSE nodes[m]]
           \in [ID -> Member \union {Unlisted}]
    BY <2>3 DEF TypeOK
  <2> QED BY <2>1, <2>4, NodesSectionTyped
<1>6. CASE LookAtLeader
  <2>1. leaderID # NoLeader => leaderID \in ID
    BY DEF TypeOK
  <2> QED BY <1>6, <2>1, ContinueTyped, TaskForms DEF LookAtLeader
<1>7. CASE WeighLeader
  BY <1>7, ContinueTyped, TaskForms DEF WeighLeader
<1>8. CASE StartLeaderElection
  BY <1>8, ContinueTyped, TaskForms DEF StartLeaderElection, Candidates, Active, ID
<1>9. CASE Refresh
  <2>1. leaderID # NoLeader => leaderID \in ID
    BY DEF TypeOK
  <2> QED BY <1>9, <2>1, ContinueTyped, TaskForms DEF Refresh
<1>10. CASE Locate
  BY <1>10, ContinueTyped, TaskForms DEF Locate
<1>11. CASE Join
  <2>1. work["join"].left \in Nat
    BY <1>11, <1>work, TaskFields DEF Join
  <2>2. work["join"].left > 1 => work["join"].left - 1 \in Nat
    BY <2>1
  <2> QED BY <1>11, <2>2, ContinueTyped, TaskForms DEF Join
<1>12. ASSUME NEW r \in {"raft", "join"}, GetNodes(r)
       PROVE  TypeOK'
  BY <1>12, ContinueTyped, TaskForms DEF GetNodes
<1>13. ASSUME NEW r \in {"raft", "join"}, UpdateClusterMembership(r)
       PROVE  TypeOK'
  <2>1. work[r].host \in Peer
    BY <1>13, <1>work, TaskFields DEF UpdateClusterMembership
  <2> QED BY <1>13, <2>1, MergedTyped, NodesSectionTyped DEF UpdateClusterMembership
<1>14. ASSUME NEW m \in Peer, SendHeartbeatToNode(m)
       PROVE  TypeOK'
  <2>1. m \in ID /\ nodes[m] \in Member
    BY <1>14 DEF SendHeartbeatToNode, Listed, TypeOK
  <2>2. [nodes[m] EXCEPT !.status = "active"] \in Member
    BY <2>1 DEF Member
  <2>3. [nodes EXCEPT ![m].status = "active"] \in [ID -> Member \union {Unlisted}]
    BY <2>1, <2>2 DEF TypeOK
  <2> QED BY <1>14, <2>3 DEF SendHeartbeatToNode, TypeOK
<1>15. CASE UNCHANGED vars
  BY <1>15 DEF TypeOK, vars
<1> QED BY <1>1, <1>2, <1>3, <1>4, <1>5, <1>6, <1>7, <1>8, <1>9, <1>10, <1>11,
           <1>12, <1>13, <1>14, <1>15 DEF Next, RaftWorker, JoinCluster

\* Types are as declared: what the goroutines have read is still a leader, a
\* count or a host that the next section can use.
THEOREM TypeCorrect == Spec => []TypeOK
<1>1. Init => TypeOK
  BY InitTyped
<1>2. TypeOK /\ [Next]_vars => TypeOK'
  BY StepTyped
<1> QED BY <1>1, <1>2, PTL DEF Spec
-----------------------------------------------------------------------------
(* The two records of leadership, and the manager's own entry.              *)

\* Every section under leaderMutex writes both records from one value.
LEMMA StepAgrees ==
    ASSUME LeaderAgrees, [Next]_vars
    PROVE  LeaderAgrees'
<1>self. Self # NoLeader
  BY IDAssumption DEF NoLeader
<1>1. CASE End
  BY <1>1, <1>self DEF End, LeaderAgrees
<1>2. ASSUME NEW r \in {"start", "raft"}, Claim(r)
      PROVE  LeaderAgrees'
  BY <1>2 DEF Claim, LeaderSection, LeaderAgrees
<1>3. CASE UNCHANGED <<isLeader, leaderID>>
  BY <1>3 DEF LeaderAgrees
<1> QED BY <1>1, <1>2, <1>3
        DEF Next, Start, RaftWorker, JoinCluster, Tick, CheckNodeHealth, LookAtLeader,
            WeighLeader, StartLeaderElection, Refresh, Locate, Join, GetNodes,
            UpdateClusterMembership, SendHeartbeatToNode, Continue, NodesSection, vars

\* The two records of leadership agree between any two sections.
THEOREM LeaderAgreement == Spec => []LeaderAgrees
<1>1. Init => LeaderAgrees
  BY IDAssumption DEF Init, LeaderAgrees, NoLeader
<1>2. LeaderAgrees /\ [Next]_vars => LeaderAgrees'
  BY StepAgrees
<1> QED BY <1>1, <1>2, PTL DEF Spec

\* What becomes of an entry: End starts over, CheckNodeHealth leaves the
\* manager itself out, Merged keeps its entry, a heartbeat makes others active.
LEMMA StepNodes ==
    ASSUME TypeOK, [Next]_vars
    PROVE  \/ nodes' = SelfOnly
           \/ UNCHANGED nodes
           \/ /\ nodes'[Self] = nodes[Self]
              /\ \/ \E r \in {"raft", "join"} : UpdateClusterMembership(r)
                 \/ \A m \in ID : nodes[m] = Unlisted => nodes'[m] = Unlisted
<1>1. CASE CheckNodeHealth
  <2>1. PICK overdue \in SUBSET (Active \ {Self}) :
           nodes' = [m \in ID |-> IF m \in overdue
                                  THEN [nodes[m] EXCEPT !.status = "failed"]
                                  ELSE nodes[m]]
    BY <1>1 DEF CheckNodeHealth, NodesSection
  <2>2. \A m \in overdue : nodes[m] # Unlisted
    BY DEF Active, Unlisted
  <2> QED BY <2>1, <2>2 DEF ID
<1>2. ASSUME NEW r \in {"raft", "join"}, UpdateClusterMembership(r)
      PROVE  nodes'[Self] = nodes[Self]
  BY <1>2 DEF UpdateClusterMembership, NodesSection, Merged, ID
<1>3. ASSUME NEW m \in Peer, SendHeartbeatToNode(m)
      PROVE  /\ nodes'[Self] = nodes[Self]
             /\ \A k \in ID : nodes[k] = Unlisted => nodes'[k] = Unlisted
  <2>1. m # Self /\ nodes[m] # Unlisted
    BY <1>3 DEF SendHeartbeatToNode, Listed
  <2>2. \A k \in ID : k # m => nodes'[k] = nodes[k]
    BY <1>3 DEF SendHeartbeatToNode, TypeOK
  <2> QED BY <2>1, <2>2 DEF ID
<1>4. CASE End
  BY <1>4 DEF End
<1>5. CASE UNCHANGED nodes
  BY <1>5
<1> QED BY <1>1, <1>2, <1>3, <1>4, <1>5
        DEF Next, Start, RaftWorker, JoinCluster, Tick, LookAtLeader, WeighLeader,
            StartLeaderElection, Claim, Refresh, Locate, Join, GetNodes, Continue,
            LeaderSection, vars

\* The manager stays active in its own map, whatever list replaces it.
THEOREM SelfStaysActive == Spec => []SelfActive
<1>1. Init => SelfActive
  BY DEF Init, SelfActive, SelfOnly, ID
<1>2. TypeOK /\ SelfActive /\ [Next]_vars => SelfActive'
  BY StepNodes DEF SelfActive, SelfOnly, ID
<1> QED BY <1>1, <1>2, TypeCorrect, PTL DEF Spec

-----------------------------------------------------------------------------
(* The goroutines.                                                          *)

\* The map names the manager only.
Alone == \A m \in ID : m # Self => nodes[m] = Unlisted

\* raftWorker has no other node in mind, as leader or to ask.
FollowsNobody ==
    /\ leaderID \in {NoLeader, Self}
    /\ work["raft"].at \in {"idle", "judge", "check", "elect", "weigh", "claim", "refresh"}
    /\ work["raft"].at = "claim" => work["raft"].who = Self

\* Only a join brings other nodes into the map, and a bootstrap node has none;
\* until the join is over there is nobody to follow, hence nothing to refresh.
Order ==
    /\ config.bootstrap => work["join"].at = "idle"
    /\ config.bootstrap \/ work["join"].at # "idle" => Alone /\ FollowsNobody
    /\ work["start"].at # "idle" =>
         config.bootstrap /\ work["start"].at = "claim" /\ work["start"].who = Self
    /\ ~config.bootstrap /\ isLeader => work["raft"].at \in {"idle", "check", "refresh"}

\* A manager that does not run is as NewManager made it.
Down == ~up => leaderID = NoLeader /\ nodes = SelfOnly /\ work = AllIdle

Inv == TypeOK /\ LeaderAgrees /\ SelfActive /\ Down /\ Order

LEMMA InitInv == Init => Inv
<1> SUFFICES ASSUME Init PROVE Inv
  OBVIOUS
<1>1. TypeOK
  BY InitTyped
<1>2. LeaderAgrees /\ SelfActive
  BY IDAssumption DEF Init, LeaderAgrees, SelfActive, SelfOnly, NoLeader, ID
<1>3. Down
  BY DEF Init, Down
<1>4. Order
  BY DEF Init, Order, AllIdle, Routine, Idle, Alone, FollowsNobody, SelfOnly
<1> QED BY <1>1, <1>2, <1>3, <1>4 DEF Inv

\* A manager that runs stays as it is until it ends, and one that does not
\* does nothing but start.
LEMMA StepDown ==
    ASSUME Inv, [Next]_vars
    PROVE  Down'
<1>1. CASE Start
  BY <1>1 DEF Start, Down
<1>2. CASE End
  BY <1>2 DEF End, Down
<1>3. CASE UNCHANGED vars
  BY <1>3 DEF Inv, Down, vars, AllIdle, SelfOnly
<1>4. ASSUME ~Start, ~End, vars' # vars
      PROVE  up' = up
  BY <1>4 DEF Next, RaftWorker, JoinCluster, Tick, CheckNodeHealth, LookAtLeader,
        WeighLeader, StartLeaderElection, Claim, Refresh, Locate, Join, GetNodes,
        UpdateClusterMembership, SendHeartbeatToNode, Continue, LeaderSection,
        NodesSection
<1>5. ASSUME ~up, ~Start, ~End, vars' # vars
      PROVE  FALSE
  <2>1. \A r \in Routine : work[r] = [at |-> "idle"]
    BY <1>5 DEF Inv, Down, AllIdle, Idle
  <2>2. \A r \in Routine : work[r].at = "idle"
    BY <2>1
  <2> QED BY <1>5, <2>2 DEF Next, RaftWorker, JoinCluster, Tick, CheckNodeHealth,
        LookAtLeader, WeighLeader, StartLeaderElection, Claim, Refresh, Locate, Join,
        GetNodes, UpdateClusterMembership, SendHeartbeatToNode, Routine
<1> QED BY <1>1, <1>2, <1>3, <1>4, <1>5 DEF Down

\* One step per action: each changes what one goroutine does next, and the
\* leader or the map at most.
LEMMA StepOrder ==
    ASSUME Inv, [Next]_vars
    PROVE  Order'
<1> USE Routines DEF Inv
<1>work. DOMAIN work = {"start", "raft", "join"} /\ work = [r \in DOMAIN work |-> work[r]]
  BY DEF TypeOK, Routine
<1>self. Self # NoLeader /\ Self \in ID
  BY IDAssumption DEF NoLeader, ID
<1>nobody. Alone => Active \subseteq {Self} /\ Listed \subseteq {Self}
  BY DEF Alone, Active, Listed, Unlisted
<1>1. CASE Start
  <2>1. ~up
    BY <1>1 DEF Start
  <2>2. nodes' = SelfOnly /\ leaderID' = NoLeader /\ config' = config /\ isLeader' = FALSE
    BY <1>1, <2>1, <1>self DEF Start, Down, LeaderAgrees
  <2>3. /\ work'["raft"].at = "idle"
        /\ config.bootstrap => work'["join"].at = "idle"
        /\ work'["start"].at # "idle" =>
             config.bootstrap /\ work'["start"] = [at |-> "claim", who |-> Self]
    BY <1>1 DEF Start, FirstWork, Idle, Routine
  <2> QED BY <2>2, <2>3 DEF Order, Alone, FollowsNobody, SelfOnly
<1>2. CASE End
  BY <1>2 DEF End, Order, Alone, FollowsNobody, SelfOnly, AllIdle, Idle, Routine
<1>3. CASE Claim("start")
  <2>1. /\ leaderID' = Self /\ work'["start"].at = "idle"
        /\ UNCHANGED <<config, nodes>> /\ work'["raft"] = work["raft"]
        /\ work'["join"] = work["join"]
    BY <1>3, <1>work DEF Claim, LeaderSection, Order, Idle
  <2>2. config.bootstrap
    BY <1>3 DEF Claim, Order
  <2> QED BY <2>1, <2>2 DEF Order, Alone, FollowsNobody
<1>4. CASE Claim("raft")
  <2>1. /\ leaderID' = work["raft"].who /\ work'["raft"].at = "refresh"
        /\ UNCHANGED <<config, nodes>> /\ work'["start"] = work["start"]
        /\ work'["join"] = work["join"]
    BY <1>4, <1>work DEF Claim, LeaderSection
  <2> QED BY <1>4, <2>1 DEF Claim, Order, Alone, FollowsNobody
<1>5. ASSUME NEW t, Continue("raft", t),
             FollowsNobody /\ Alone => t.at \in {"judge", "check", "elect", "weigh", "refresh"}
                                       \/ t.at = "idle" \/ (t.at = "claim" /\ t.who = Self),
             ~config.bootstrap /\ isLeader => t.at \in {"idle", "check", "refresh"}
      PROVE  Order'
  <2>1. /\ work'["raft"] = t /\ work'["start"] = work["start"]
        /\ work'["join"] = work["join"] /\ UNCHANGED <<config, isLeader, leaderID, nodes>>
    BY <1>5, <1>work DEF Continue
  <2> QED BY <1>5, <2>1 DEF Order, Alone, FollowsNobody
<1>6. CASE Tick
  <2>1. Continue("raft", [at |-> IF isLeader THEN "check" ELSE "judge"])
    BY <1>6 DEF Tick
  <2> QED BY <1>5, <2>1
<1>7. CASE CheckNodeHealth
  <2>1. /\ work'["raft"].at = "idle" /\ work'["start"] = work["start"]
        /\ work'["join"] = work["join"] /\ UNCHANGED <<config, isLeader, leaderID>>
    BY <1>7, <1>work DEF CheckNodeHealth, NodesSection, Idle
  <2>2. Alone => Alone'
    BY <1>7, <1>nobody DEF CheckNodeHealth, NodesSection, Alone
  <2> QED BY <2>1, <2>2 DEF Order, FollowsNobody
<1>8. CASE LookAtLeader
  <2>1. PICK t : Continue("raft", t) /\ t.at \in {"elect", "weigh"}
    BY <1>8 DEF LookAtLeader
  <2>2. ~(~config.bootstrap /\ isLeader)
    BY <1>8 DEF LookAtLeader, Order
  <2> QED BY <1>5, <2>1, <2>2
<1>9. CASE WeighLeader
  <2>1. PICK t : Continue("raft", t) /\ t.at \in {"elect", "refresh"}
    BY <1>9 DEF WeighLeader
  <2>2. ~(~config.bootstrap /\ isLeader)
    BY <1>9 DEF WeighLeader, Order
  <2> QED BY <1>5, <2>1, <2>2
<1>10. CASE StartLeaderElection
  <2>1. PICK winner \in Candidates : Continue("raft", [at |-> "claim", who |-> winner])
    BY <1>10 DEF StartLeaderElection
  <2>2. ~(~config.bootstrap /\ isLeader)
    BY <1>10 DEF StartLeaderElection, Order
  <2>3. Alone => winner = Self
    BY <1>nobody DEF Candidates
  <2> QED BY <1>5, <2>1, <2>2, <2>3
<1>11. CASE Refresh
  <2>1. FollowsNobody \/ isLeader => leaderID \in {NoLeader, Self}
    BY DEF FollowsNobody, LeaderAgrees
  <2>2. PICK t : /\ Continue("raft", t)
                 /\ \/ t.at = "locate" /\ leaderID \notin {NoLeader, Self}
                    \/ t.at = "idle"
    BY <1>11 DEF Refresh, Idle
  <2> QED BY <1>5, <2>1, <2>2
<1>12. CASE Locate
  <2>1. PICK t : Continue("raft", t) /\ t.at \in {"fetch", "idle"}
    BY <1>12 DEF Locate, Idle
  <2>2. ~FollowsNobody /\ ~(~config.bootstrap /\ isLeader)
    BY <1>12 DEF Locate, FollowsNobody, Order
  <2> QED BY <1>5, <2>1, <2>2
<1>13. CASE GetNodes("raft")
  <2>1. PICK t : Continue("raft", t)
    BY <1>13 DEF GetNodes
  <2>2. ~FollowsNobody /\ ~(~config.bootstrap /\ isLeader)
    BY <1>13 DEF GetNodes, FollowsNobody, Order
  <2> QED BY <1>5, <2>1, <2>2
<1>14. CASE UpdateClusterMembership("raft")
  <2>1. /\ work'["raft"].at = "idle" /\ work'["start"] = work["start"]
        /\ work'["join"] = work["join"] /\ UNCHANGED <<config, isLeader, leaderID>>
    BY <1>14, <1>work DEF UpdateClusterMembership, NodesSection, Idle
  <2>2. ~FollowsNobody
    BY <1>14 DEF UpdateClusterMembership, FollowsNobody
  <2> QED BY <2>1, <2>2 DEF Order
<1>15. ASSUME Join \/ GetNodes("join")
       PROVE  Order'
  <2>1. PICK t : Continue("join", t)
    BY <1>15 DEF Join, GetNodes
  <2>2. /\ work'["join"] = t /\ work'["start"] = work["start"]
        /\ work'["raft"] = work["raft"] /\ UNCHANGED <<config, isLeader, leaderID, nodes>>
    BY <2>1, <1>work DEF Continue
  <2>3. work["join"].at # "idle"
    BY <1>15 DEF Join, GetNodes
  <2> QED BY <2>2, <2>3 DEF Order, Alone, FollowsNobody
<1>16. CASE UpdateClusterMembership("join")
  <2>1. /\ work'["join"].at = "idle" /\ work'["start"] = work["start"]
        /\ work'["raft"] = work["raft"] /\ UNCHANGED <<config, isLeader, leaderID>>
    BY <1>16, <1>work DEF UpdateClusterMembership, NodesSection, Idle
  <2>2. ~config.bootstrap
    BY <1>16 DEF UpdateClusterMembership, Order
  <2> QED BY <2>1, <2>2 DEF Order
<1>17. ASSUME NEW m \in Peer, SendHeartbeatToNode(m)
       PROVE  Order'
  <2>1. UNCHANGED <<config, isLeader, leaderID, work>>
    BY <1>17 DEF SendHeartbeatToNode
  <2>2. ~Alone
    BY <1>17, <1>nobody DEF SendHeartbeatToNode
  <2> QED BY <2>1, <2>2 DEF Order
<1>18. CASE UNCHANGED vars
  BY <1>18 DEF Order, Alone, FollowsNobody, vars
<1> QED BY <1>1, <1>2, <1>3, <1>4, <1>6, <1>7, <1>8, <1>9, <1>10, <1>11, <1>12,
           <1>13, <1>14, <1>15, <1>16, <1>17, <1>18 DEF Next, RaftWorker, JoinCluster

LEMMA Invariant == Spec => []Inv
<1>1. Inv /\ [Next]_vars => Inv'
  <2>1. ASSUME Inv, [Next]_vars
        PROVE  TypeOK' /\ LeaderAgrees' /\ SelfActive'
    BY <2>1, StepTyped, StepAgrees, StepNodes DEF Inv, SelfActive, SelfOnly, ID
  <2> QED BY <2>1, StepDown, StepOrder DEF Inv
<1> QED BY <1>1, InitInv, PTL DEF Spec

-----------------------------------------------------------------------------
\* Of the lists that a join and a refresh fetch, and install without having
\* held a lock since, one is never overtaken by the other.
THEOREM NoListOvertaken == Spec => []NoRivalLists
<1>1. Inv => NoRivalLists
  BY DEF Inv, Order, FollowsNobody, NoRivalLists
<1> QED BY <1>1, Invariant, PTL

\* Whoever leads leads until the process ends.
THEOREM LeadForLife == Spec => LeadsToTheEnd
<1>1. Inv /\ [Next]_vars => (isLeader /\ up' => isLeader')
  <2> SUFFICES ASSUME Inv, [Next]_vars, isLeader, up'
               PROVE  isLeader'
    OBVIOUS
  <2>1. ~End
    BY DEF End
  <2>2. CASE Claim("start")
    BY <2>2 DEF Claim, LeaderSection, Inv, Order
  <2>3. CASE Claim("raft")
    BY <2>3 DEF Claim, LeaderSection, Inv, Order, FollowsNobody
  <2>4. CASE isLeader' = isLeader
    BY <2>4
  <2> QED BY <2>1, <2>2, <2>3, <2>4 DEF Next, Start, RaftWorker, JoinCluster, Tick,
        CheckNodeHealth, LookAtLeader, WeighLeader, StartLeaderElection, Refresh, Locate,
        Join, GetNodes, UpdateClusterMembership, SendHeartbeatToNode, Continue,
        NodesSection, vars
<1>2. Inv /\ [Next]_vars => [isLeader /\ up' => isLeader']_vars
  BY <1>1
<1> QED BY <1>2, Invariant, PTL DEF Spec, LeadsToTheEnd
=============================================================================
