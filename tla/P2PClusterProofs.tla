--------------------------- MODULE P2PClusterProofs ---------------------------
(***************************************************************************)
(* Proofs about P2PCluster, for any number of processes, dials, attempts   *)
(* and losses.                                                             *)
(***************************************************************************)
EXTENDS P2PCluster, TLAPS

-----------------------------------------------------------------------------
(* Types.                                                                   *)

\* A goroutine of connectToPeer dials another peer.
DialsOthers == \A d \in dials : d.from # d.to

TypeInv == TypeOK /\ DialsOthers

LEMMA DialFields ==
    ASSUME NEW d \in Dial
    PROVE  /\ d.from \in ID /\ d.to \in ID /\ d.slot \in 1..MaxDials
           /\ d.step = "connect" => d.attempt \in 1..MaxRetries
           /\ d.step = "sleep" => d.attempt \in 1..(MaxRetries - 1)
  BY DEF Dial

\* The records that a dial goes through.
LEMMA DialIntro ==
    ASSUME NEW i \in ID, NEW j \in ID, NEW s \in 1..MaxDials
    PROVE  /\ \A a \in 1..MaxRetries :
                [from |-> i, to |-> j, slot |-> s, step |-> "connect", attempt |-> a] \in Dial
           /\ [from |-> i, to |-> j, slot |-> s, step |-> "record"] \in Dial
  BY DEF Dial

LEMMA PairType ==
    ASSUME NEW i \in ID, NEW j \in ID, i # j PROVE Pair(i, j) \in Pairs
  <1>1. <<i, j>> \in {d \in ID \X ID : d[1] # d[2]}
    OBVIOUS
  <1>2. Pair(<<i, j>>[1], <<i, j>>[2]) = Pair(i, j)
    OBVIOUS
  <1> QED
    BY <1>1, <1>2 DEF Pairs

LEMMA InitType == Init => TypeInv
  BY BoundAssumption DEF Init, TypeInv, TypeOK, DialsOthers, Status

LEMMA HandlePeerFoundType ==
    ASSUME TypeInv, NEW i \in ID, NEW j \in ID, HandlePeerFound(i, j) PROVE TypeInv'
  <1>1. PICK s \in (1..MaxDials) \ Slots :
          dials' = dials \union
              {[from |-> i, to |-> j, slot |-> s, step |-> "connect", attempt |-> 1]}
    BY DEF HandlePeerFound, Dialled
  <1>2. [from |-> i, to |-> j, slot |-> s, step |-> "connect", attempt |-> 1] \in Dial
    <2>1. 1 \in 1..MaxRetries /\ s \in 1..MaxDials
      BY BoundAssumption
    <2> QED
      BY <2>1, DialIntro
  <1>3. i # j
    BY DEF HandlePeerFound
  <1>4. TypeOK'
    BY <1>1, <1>2 DEF HandlePeerFound, nodeVars, TypeInv, TypeOK
  <1>5. DialsOthers'
    BY <1>1, <1>3 DEF DialsOthers, TypeInv
  <1> QED
    BY <1>4, <1>5 DEF TypeInv

LEMMA ConnectSucceedsType ==
    ASSUME TypeInv, NEW d \in dials, ConnectSucceeds(d) PROVE TypeInv'
  <1> DEFINE e == [from |-> d.from, to |-> d.to, slot |-> d.slot, step |-> "record"]
  <1>1. d \in Dial /\ d.from # d.to
    BY DEF TypeInv, TypeOK, DialsOthers
  <1>2. d.from \in ID /\ d.to \in ID /\ e \in Dial
    BY <1>1, DialFields, DialIntro
  <1>3. Pair(d.from, d.to) \in Pairs
    BY <1>1, <1>2, PairType
  <1>4. dials' = (dials \ {d}) \union {e}
    BY DEF ConnectSucceeds, Connected
  <1>5. TypeOK'
    BY <1>2, <1>3, <1>4 DEF ConnectSucceeds, nodeVars, TypeInv, TypeOK
  <1>6. DialsOthers'
    BY <1>1, <1>4 DEF DialsOthers, TypeInv
  <1> QED
    BY <1>5, <1>6 DEF TypeInv

LEMMA ConnectFailsType ==
    ASSUME TypeInv, NEW d \in dials, ConnectFails(d) PROVE TypeInv'
  <1> DEFINE e == [d EXCEPT !.step = "sleep"]
  <1>1. d \in Dial /\ d.step = "connect" /\ d.from # d.to
    BY DEF TypeInv, TypeOK, DialsOthers, ConnectFails
  <1>2. d.attempt < MaxRetries => e \in Dial
    BY <1>1, BoundAssumption DEF Dial
  <1>3. e.from = d.from /\ e.to = d.to
    BY <1>1 DEF Dial
  <1>4. \/ d.attempt < MaxRetries /\ dials' = (dials \ {d}) \union {e}
        \/ dials' = dials \ {d}
    BY DEF ConnectFails, Ends
  <1> HIDE DEF e
  <1>5. TypeOK'
    BY <1>2, <1>4 DEF ConnectFails, nodeVars, TypeInv, TypeOK
  <1>6. DialsOthers'
    BY <1>1, <1>3, <1>4 DEF DialsOthers, TypeInv
  <1> QED
    BY <1>5, <1>6 DEF TypeInv

LEMMA RetryType ==
    ASSUME TypeInv, NEW d \in dials, Retry(d) PROVE TypeInv'
  <1> DEFINE e == [d EXCEPT !.step = "connect", !.attempt = @ + 1]
  <1>1. d \in Dial /\ d.step = "sleep" /\ d.from # d.to
    BY DEF TypeInv, TypeOK, DialsOthers, Retry
  <1>2. e \in Dial
    <2>1. d \in [from : ID, to : ID, slot : 1..MaxDials, step : {"sleep"},
                  attempt : 1..(MaxRetries - 1)]
      BY <1>1 DEF Dial
    <2>2. d.attempt + 1 \in 1..MaxRetries
      BY <2>1, BoundAssumption
    <2>3. e \in [from : ID, to : ID, slot : 1..MaxDials, step : {"connect"},
                  attempt : 1..MaxRetries]
      BY <2>1, <2>2
    <2> QED
      BY <2>3 DEF Dial
  <1>3. e.from = d.from /\ e.to = d.to
    BY <1>1 DEF Dial
  <1>4. dials' = (dials \ {d}) \union {e}
    BY DEF Retry
  <1> HIDE DEF e
  <1>5. TypeOK'
    BY <1>2, <1>4 DEF Retry, nodeVars, TypeInv, TypeOK
  <1>6. DialsOthers'
    BY <1>1, <1>3, <1>4 DEF DialsOthers, TypeInv
  <1> QED
    BY <1>5, <1>6 DEF TypeInv

LEMMA RecordPeerType ==
    ASSUME TypeInv, NEW d \in dials, RecordPeer(d) PROVE TypeInv'
  <1>1. d.from \in ID /\ d.to \in ID
    BY DialFields DEF TypeInv, TypeOK
  <1>2. TypeOK'
    BY <1>1 DEF RecordPeer, Ends, nodeVars, TypeInv, TypeOK
  <1>3. DialsOthers'
    BY DEF RecordPeer, Ends, DialsOthers, TypeInv
  <1> QED
    BY <1>2, <1>3 DEF TypeInv

\* Cluster messages touch the topic only.
MessageStep ==
    \/ \E i \in ID : SendHeartbeat(i) \/ CheckLeaderHealth(i)
    \/ \E m \in topic : ProcessMessage(m)

LEMMA MessageFrame ==
    ASSUME MessageStep PROVE UNCHANGED <<process, peerVars, peerStates, leader>>
  BY DEF MessageStep, SendHeartbeat, CheckLeaderHealth, Publish, ProcessMessage

LEMMA PublishType ==
    ASSUME TypeInv, NEW i \in ID, NEW type \in {"heartbeat", "leader_election"},
           Publish(i, type)
    PROVE  topic' \subseteq ClusterMessage
  <1>1. leader[i] \in ID \union {None}
    BY DEF TypeInv, TypeOK
  <1>2. \A j \in ID : [from |-> i, to |-> j, type |-> type, leaderID |-> leader[i],
                       timestamp |-> "text"] \in ClusterMessage
    BY <1>1 DEF ClusterMessage
  <1> QED
    BY <1>2 DEF Publish, TypeInv, TypeOK

LEMMA MessageType ==
    ASSUME TypeInv, MessageStep PROVE TypeInv'
  <1>1. topic' \subseteq ClusterMessage
    <2>1. ASSUME NEW i \in ID, SendHeartbeat(i) \/ CheckLeaderHealth(i)
          PROVE  topic' \subseteq ClusterMessage
      BY <2>1, PublishType DEF SendHeartbeat, CheckLeaderHealth
    <2>2. ASSUME NEW m \in topic, ProcessMessage(m)
          PROVE  topic' \subseteq ClusterMessage
      BY <2>2 DEF ProcessMessage, TypeInv, TypeOK
    <2> QED
      BY <2>1, <2>2 DEF MessageStep
  <1> QED
    BY <1>1, MessageFrame DEF peerVars, TypeInv, TypeOK, DialsOthers

LEMMA StartType ==
    ASSUME TypeInv, NEW i \in ID, Start(i) PROVE TypeInv'
  <1>1. TypeOK'
    BY DEF Start, nodeVars, TypeInv, TypeOK
  <1> QED
    BY <1>1 DEF Start, TypeInv, DialsOthers

LEMMA CrashType ==
    ASSUME TypeInv, NEW i \in ID, Crash(i) PROVE TypeInv'
  <1>1. peerStates' \in [ID -> [ID -> Status]]
    BY DEF Crash, TypeInv, TypeOK, Status
  <1>2. TypeOK'
    BY <1>1 DEF Crash, TypeInv, TypeOK
  <1> QED
    BY <1>2 DEF Crash, TypeInv, DialsOthers

LEMMA ExpireType ==
    ASSUME TypeInv, NEW i \in ID, Expire(i) PROVE TypeInv'
  BY DEF Expire, nodeVars, TypeInv, TypeOK, DialsOthers

LEMMA DisconnectType ==
    ASSUME TypeInv, NEW c \in connected, Disconnect(c) PROVE TypeInv'
  <1>1. losses' \in 0..MaxLosses
    BY BoundAssumption DEF Disconnect, TypeInv, TypeOK
  <1> QED
    BY <1>1 DEF Disconnect, nodeVars, TypeInv, TypeOK, DialsOthers

LEMMA HandleMessagesType ==
    ASSUME TypeInv, NEW i \in ID, HandleMessages(i) PROVE TypeInv'
  <1>1. peerStates' \in [ID -> [ID -> Status]]
    BY DEF HandleMessages, ProcessClusterMessage, TypeInv, TypeOK, Status
  <1>2. leader' = leader /\ UNCHANGED <<process, peerVars, topic>>
    BY DEF HandleMessages, ProcessClusterMessage
  <1> QED
    BY <1>1, <1>2 DEF peerVars, TypeInv, TypeOK, DialsOthers

LEMMA CheckPeerHealthType ==
    ASSUME TypeInv, NEW i \in ID, CheckPeerHealth(i) PROVE TypeInv'
  <1>1. peerStates' \in [ID -> [ID -> Status]]
    BY DEF CheckPeerHealth, TypeInv, TypeOK, Status
  <1> QED
    BY <1>1 DEF CheckPeerHealth, peerVars, TypeInv, TypeOK, DialsOthers

LEMMA DialInDials == \A s : DialIn(s) \subseteq dials
  BY DEF DialIn

LEMMA NextType == TypeInv /\ [Next]_vars => TypeInv'
  <1> SUFFICES ASSUME TypeInv, [Next]_vars PROVE TypeInv'
    OBVIOUS
  <1>1. CASE UNCHANGED vars
    BY <1>1 DEF vars, TypeInv, TypeOK, DialsOthers
  <1>2. CASE \E i \in ID : Start(i) \/ Crash(i) \/ Expire(i)
    BY <1>2, StartType, CrashType, ExpireType
  <1>3. CASE \E c \in connected : Disconnect(c)
    BY <1>3, DisconnectType
  <1>4. CASE \E i, j \in ID : HandlePeerFound(i, j)
    BY <1>4, HandlePeerFoundType
  <1>5. CASE \E s \in 1..MaxDials : ConnectToPeer(s)
    BY <1>5, DialInDials, ConnectSucceedsType, ConnectFailsType, RetryType, RecordPeerType
       DEF ConnectToPeer
  <1>6. CASE MessageStep
    BY <1>6, MessageType
  <1>7. CASE \E i \in ID : HandleMessages(i) \/ CheckPeerHealth(i)
    BY <1>7, HandleMessagesType, CheckPeerHealthType
  <1> QED
    BY <1>1, <1>2, <1>3, <1>4, <1>5, <1>6, <1>7 DEF Next, MessageStep

\* The state keeps its types: no goroutine dials the node itself or makes more
\* than maxRetries attempts.
THEOREM TypeCorrect == Spec => []TypeOK
  <1>1. TypeInv => TypeOK
    BY DEF TypeInv
  <1> QED
    BY InitType, NextType, <1>1, PTL DEF Spec

-----------------------------------------------------------------------------
(* Connections and lists of peers.                                          *)

\* Node i has recorded j, or a goroutine of it is about to.
Recording(i, j) ==
    \/ j \in peers[i]
    \/ \E d \in dials : d.from = i /\ d.to = j /\ d.step = "record"

\* A step that neither connects nor forgets keeps connections recorded.
LEMMA RecordingKept ==
    ASSUME ConnectionRecorded, connected' \subseteq connected,
           \A c \in connected' : \A i, j \in c : Recording(i, j) => Recording(i, j)'
    PROVE  ConnectionRecorded'
  BY DEF ConnectionRecorded, Recording

LEMMA NextRecorded == TypeInv /\ ConnectionRecorded /\ [Next]_vars => ConnectionRecorded'
  <1> SUFFICES ASSUME TypeInv, ConnectionRecorded, [Next]_vars PROVE ConnectionRecorded'
    OBVIOUS
  <1>1. CASE UNCHANGED <<connected, peers, dials>>
    BY <1>1 DEF ConnectionRecorded
  <1>2. ASSUME NEW k \in ID, Crash(k) PROVE ConnectionRecorded'
    <2>1. connected' = {c \in connected : k \notin c}
      BY <1>2 DEF Crash
    <2>2. \A c \in connected' : \A i, j \in c : Recording(i, j) => Recording(i, j)'
      BY <1>2, <2>1 DEF Crash, Recording, TypeInv, TypeOK
    <2> QED
      BY <2>1, <2>2, RecordingKept
  <1>3. ASSUME NEW c \in connected, Disconnect(c) PROVE ConnectionRecorded'
    BY <1>3 DEF Disconnect, ConnectionRecorded
  <1>4. ASSUME NEW i \in ID, NEW j \in ID, HandlePeerFound(i, j) PROVE ConnectionRecorded'
    BY <1>4, RecordingKept DEF HandlePeerFound, Dialled, Recording
  <1>5. ASSUME NEW d \in dials, ConnectSucceeds(d) PROVE ConnectionRecorded'
    <2> DEFINE e == [from |-> d.from, to |-> d.to, slot |-> d.slot, step |-> "record"]
    <2>1. d.from # d.to /\ d.step = "connect"
      BY <1>5 DEF TypeInv, DialsOthers, ConnectSucceeds
    <2>2. dials' = (dials \ {d}) \union {e} /\ peers' = peers
      BY <1>5 DEF ConnectSucceeds, Connected
    <2>3. \A i, j : Recording(i, j) => Recording(i, j)'
      BY <2>1, <2>2 DEF Recording
    <2>4. Recording(d.from, d.to)'
      <3>1. e \in dials' /\ e.from = d.from /\ e.to = d.to /\ e.step = "record"
        BY <2>2
      <3> HIDE DEF e
      <3> QED
        BY <3>1 DEF Recording
    <2>5. connected' = connected \union {Pair(d.from, d.to)}
      BY <1>5 DEF ConnectSucceeds
    <2> HIDE DEF e
    <2> SUFFICES ASSUME NEW c \in connected'
                 PROVE  \E i, j \in c : i # j /\ Recording(i, j)'
      BY DEF ConnectionRecorded, Recording
    <2>6. CASE c \in connected
      BY <2>3, <2>6 DEF ConnectionRecorded, Recording
    <2>7. CASE c = Pair(d.from, d.to)
      BY <2>1, <2>4, <2>7 DEF Pair
    <2> QED
      BY <2>5, <2>6, <2>7
  <1>6. ASSUME NEW d \in dials, ConnectFails(d) \/ Retry(d) PROVE ConnectionRecorded'
    BY <1>6, RecordingKept DEF ConnectFails, Retry, Ends, Recording
  <1>7. ASSUME NEW d \in dials, RecordPeer(d) PROVE ConnectionRecorded'
    <2>1. d.from \in ID
      BY DialFields DEF TypeInv, TypeOK
    <2>2. \A i, j \in ID : Recording(i, j) => Recording(i, j)'
      BY <1>7, <2>1 DEF RecordPeer, Ends, Recording, TypeInv, TypeOK
    <2>3. \A c \in connected : c \subseteq ID
      BY DEF TypeInv, TypeOK, Pairs, Pair
    <2> QED
      BY <1>7, <2>2, <2>3, RecordingKept DEF RecordPeer
  <1>8. CASE \E s \in 1..MaxDials : ConnectToPeer(s)
    BY <1>5, <1>6, <1>7, <1>8, DialInDials DEF ConnectToPeer
  <1>9. CASE MessageStep
    BY <1>1, <1>9, MessageFrame DEF peerVars
  <1>10. CASE UNCHANGED vars
           \/ \E i \in ID : Start(i) \/ Expire(i) \/ HandleMessages(i) \/ CheckPeerHealth(i)
    BY <1>1, <1>10 DEF vars, Start, Expire, HandleMessages, ProcessClusterMessage,
       CheckPeerHealth, peerVars
  <1> QED
    BY <1>2, <1>3, <1>4, <1>8, <1>9, <1>10 DEF Next, MessageStep

\* However many goroutines dial whom, and whatever crashes or is lost, no
\* connection is unknown at both ends.
THEOREM ConnectionsRecorded == Spec => []ConnectionRecorded
  <1>1. Init => ConnectionRecorded
    BY DEF Init, ConnectionRecorded
  <1> QED
    BY InitType, NextType, <1>1, NextRecorded, PTL DEF Spec

\* The action of PartedForGood.
StayParted ==
    \A i, j \in ID :
        Parted(i, j) /\ {i, j} \subseteq {k \in ID : process'[k] = "running"}
            => Parted(i, j)'

\* A step that gives two parted nodes neither a connection nor a dial, and
\* takes no peer from their lists.
LEMMA PartedKept ==
    ASSUME NEW i \in ID, NEW j \in ID, Parted(i, j),
           {i, j} \subseteq {k \in ID : process'[k] = "running"},
           Pair(i, j) \notin connected',
           peers[i] \subseteq peers'[i], peers[j] \subseteq peers'[j],
           \A d \in dials' : {d.from, d.to} # Pair(i, j)
    PROVE  Parted(i, j)'
  BY DEF Parted, Running

LEMMA NextParted == TypeInv /\ [Next]_vars => StayParted
  <1> SUFFICES ASSUME TypeInv, [Next]_vars, NEW i \in ID, NEW j \in ID, Parted(i, j),
                      {i, j} \subseteq {k \in ID : process'[k] = "running"}
               PROVE  Parted(i, j)'
    BY DEF StayParted
  <1>0. /\ Pair(i, j) \notin connected /\ j \in peers[i] /\ i \in peers[j]
        /\ \A d \in dials : {d.from, d.to} # Pair(i, j)
    BY DEF Parted
  <1>1. CASE UNCHANGED <<connected, peers, dials>>
    BY <1>0, <1>1, PartedKept
  <1>2. ASSUME NEW k \in ID, Crash(k) PROVE Parted(i, j)'
    <2>1. k # i /\ k # j
      BY <1>2 DEF Crash, TypeInv, TypeOK
    <2>2. peers'[i] = peers[i] /\ peers'[j] = peers[j]
      BY <1>2, <2>1 DEF Crash, TypeInv, TypeOK
    <2> QED
      BY <1>0, <1>2, <2>2, PartedKept DEF Crash
  <1>3. ASSUME NEW c \in connected, Disconnect(c) PROVE Parted(i, j)'
    BY <1>0, <1>3, PartedKept DEF Disconnect
  <1>4. ASSUME NEW k \in ID, NEW l \in ID, HandlePeerFound(k, l) PROVE Parted(i, j)'
    <2>1. l \notin peers[k]
      BY <1>4 DEF HandlePeerFound
    <2>2. {k, l} # Pair(i, j)
      BY <1>0, <2>1 DEF Pair
    <2>3. \A d \in dials' : d \in dials \/ (d.from = k /\ d.to = l)
      BY <1>4 DEF HandlePeerFound, Dialled
    <2>4. \A d \in dials' : {d.from, d.to} # Pair(i, j)
      BY <1>0, <2>2, <2>3
    <2> QED
      BY <1>0, <1>4, <2>4, PartedKept DEF HandlePeerFound
  <1>5. ASSUME NEW d \in dials, ConnectSucceeds(d) PROVE Parted(i, j)'
    <2>1. Pair(d.from, d.to) # Pair(i, j)
      BY <1>0 DEF Pair
    <2>2. \A e \in dials' : e \in dials \/ (e.from = d.from /\ e.to = d.to)
      BY <1>5 DEF ConnectSucceeds, Connected
    <2>3. \A e \in dials' : {e.from, e.to} # Pair(i, j)
      BY <1>0, <2>2
    <2> QED
      BY <1>0, <1>5, <2>1, <2>3, PartedKept DEF ConnectSucceeds
  <1>6. ASSUME NEW d \in dials, ConnectFails(d) \/ Retry(d) PROVE Parted(i, j)'
    <2>1. d \in Dial /\ d.step # "record"
      BY <1>6 DEF TypeInv, TypeOK, ConnectFails, Retry
    <2>2. \A e \in dials' : e \in dials \/ (e.from = d.from /\ e.to = d.to)
      <3> DEFINE f == [d EXCEPT !.step = "sleep"]
                 g == [d EXCEPT !.step = "connect", !.attempt = @ + 1]
      <3>1. f.from = d.from /\ f.to = d.to /\ g.from = d.from /\ g.to = d.to
        BY <2>1 DEF Dial
      <3>2. dials' \subseteq dials \union {f, g}
        BY <1>6 DEF ConnectFails, Retry, Ends
      <3> HIDE DEF f, g
      <3> QED
        BY <3>1, <3>2
    <2>3. \A e \in dials' : {e.from, e.to} # Pair(i, j)
      BY <1>0, <2>2
    <2> QED
      BY <1>0, <1>6, <2>3, PartedKept DEF ConnectFails, Retry
  <1>7. ASSUME NEW d \in dials, RecordPeer(d) PROVE Parted(i, j)'
    <2>1. d.from \in ID
      BY DialFields DEF TypeInv, TypeOK
    <2>2. peers[i] \subseteq peers'[i] /\ peers[j] \subseteq peers'[j]
      BY <1>7, <2>1 DEF RecordPeer, TypeInv, TypeOK
    <2> QED
      BY <1>0, <1>7, <2>2, PartedKept DEF RecordPeer, Ends
  <1>8. CASE \E s \in 1..MaxDials : ConnectToPeer(s)
    BY <1>5, <1>6, <1>7, <1>8, DialInDials DEF ConnectToPeer
  <1>9. CASE MessageStep
    BY <1>1, <1>9, MessageFrame DEF peerVars
  <1>10. CASE UNCHANGED vars
           \/ \E k \in ID : Start(k) \/ Expire(k) \/ HandleMessages(k) \/ CheckPeerHealth(k)
    BY <1>1, <1>10 DEF vars, Start, Expire, HandleMessages, ProcessClusterMessage,
       CheckPeerHealth, peerVars
  <1> QED
    BY <1>2, <1>3, <1>4, <1>8, <1>9, <1>10 DEF Next, MessageStep

\* Two nodes that have recorded each other and lost their connection do not
\* dial again, for as long as both keep running.
THEOREM NeverReconnected == Spec => PartedForGood
  <1>1. TypeInv /\ [Next]_vars => [StayParted]_vars
    BY NextParted
  <1> QED
    BY InitType, NextType, <1>1, PTL DEF Spec, PartedForGood, StayParted
=============================================================================
