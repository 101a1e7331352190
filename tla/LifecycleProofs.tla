---------------------------- MODULE LifecycleProofs ----------------------------
(***************************************************************************)
(* What Start and Stop guarantee, for any configuration and any number of  *)
(* short-lived goroutines.                                                 *)
(***************************************************************************)
EXTENDS Lifecycle, TLAPS

Quiet == threads = {} /\ \A k \in Kind : inFlight[k] = 0
HostThere == {"host", "topic"} \subseteq up

\* Nothing runs before the loops of the pubsub service are started, and
\* nothing that ended before them can start.
QuietOrThere ==
    /\ main \in BeforeLoops => Quiet
    /\ main \in {"joinTopic", "spawnLoops"} => "host" \in up
    /\ main \notin {"createHost", "joinTopic", "over"} => HostThere
    /\ Quiet \/ HostThere

\* Publish works once main is past markRunning.
PubSubRuns ==
    main \notin BeforeLoops \union {"markRunning", "over"} => "pubsub" \in up

\* Only watchFiles takes up file events, and Engine.Stop has waited for it.
WatcherGone == EngineIsStopped => "watchFiles" \notin threads

\* A process whose main is over takes no step.
OverIsOver == main = "over" => process # "running"

IInv == TypeOK /\ QuietOrThere /\ PubSubRuns /\ WatcherGone /\ OverIsOver

LEMMA InitInv == Init => IInv
  <1> SUFFICES ASSUME Init PROVE IInv
    OBVIOUS
  <1>1. \A k \in Kind : inFlight[k] = 0
    BY DEF Init
  <1>2. TypeOK
    <2>1. inFlight \in [Kind -> 0..MaxInFlight]
      BY BoundAssumption DEF Init
    <2> QED
      BY <2>1 DEF Init, TypeOK, Step
  <1> QED
    BY <1>1, <1>2 DEF Init, IInv, QuietOrThere, Quiet, HostThere, PubSubRuns,
                      WatcherGone, OverIsOver, BeforeLoops, EngineIsStopped

\* Each step of main has one of three shapes.
LEMMA MainShapes ==
    ASSUME Main
    PROVE  \/ \E s \in Step : Fails(s)
           \/ \E s, t \in Step, ps \in SUBSET Part, ts \in SUBSET Thread : Starts(s, t, ps, ts)
           \/ \E s, t \in Step, cs \in SUBSET {"node", "engine"}, ts \in SUBSET Thread :
                 Stops(s, t, cs, ts)
           \/ AwaitEngine \/ StopPubSub
  BY DEF Main, CreateHost, JoinTopic, SpawnLoops, MarkRunning, StartFileSync, StartCluster,
         StartDiscovery, StartPeriodic, StartEngine, StartMonitoring, StartServices,
         Wait, StopHTTP, StopGRPC, AwaitGRPC, StopEngine, CancelNode, AwaitNode,
         Step, Part, Thread, NodeLoops, PubSubLoops, ClusterLoops, Servers

LEMMA TypeStep == TypeOK /\ [Next]_vars => TypeOK'
  <1> SUFFICES ASSUME TypeOK, [Next]_vars PROVE TypeOK'
    OBVIOUS
  <1>1. CASE Main
    <2>1. CASE \E s \in Step : Fails(s)
      BY <2>1 DEF Fails, From, TypeOK, Step
    <2>2. CASE \E s, t \in Step, ps \in SUBSET Part, ts \in SUBSET Thread : Starts(s, t, ps, ts)
      BY <2>2 DEF Starts, From, TypeOK
    <2>3. CASE \E s, t \in Step, cs \in SUBSET {"node", "engine"}, ts \in SUBSET Thread :
                  Stops(s, t, cs, ts)
      BY <2>3 DEF Stops, From, TypeOK
    <2>4. CASE AwaitEngine \/ StopPubSub
      BY <2>4 DEF AwaitEngine, StopPubSub, From, TypeOK, Step
    <2> QED
      BY <1>1, <2>1, <2>2, <2>3, <2>4, MainShapes
  <1>2. ASSUME NEW k \in Kind, Begin(k) PROVE TypeOK'
    BY <1>2, BoundAssumption DEF Begin, TypeOK
  <1>3. ASSUME NEW k \in Kind, End(k), dropped' \in BOOLEAN PROVE TypeOK'
    BY <1>3, BoundAssumption DEF End, TypeOK
  <1>4. ASSUME NEW t \in Thread, LoopEnds(t) \/ ListenFails(t) PROVE TypeOK'
    BY <1>4 DEF LoopEnds, ListenFails, TypeOK
  <1>5. CASE Signal \/ CancelContext \/ TickerPanics
    BY <1>5 DEF Signal, CancelContext, TickerPanics, TypeOK
  <1>6. CASE Goroutine
    <2>1. \A k \in Kind : Publish(k) \/ Ignore(k) \/ Answer(k) => TypeOK'
      BY <1>3 DEF Publish, Ignore, Answer, TypeOK
    <2>2. FileEvent \/ ReceiveMessage \/ (\E s \in Servers : Call(s)) => TypeOK'
      BY <1>2 DEF FileEvent, ReceiveMessage, Call, Kind
    <2> QED
      BY <1>4, <1>5, <1>6, <2>1, <2>2 DEF Goroutine, Kind, Thread
  <1>7. CASE UNCHANGED vars
    BY <1>7 DEF vars, TypeOK
  <1> QED
    BY <1>1, <1>5, <1>6, <1>7 DEF Next

\* The three facts about main and the parts, over a step of main.
LEMMA MainKeeps ==
    ASSUME IInv, Main
    PROVE  QuietOrThere' /\ PubSubRuns' /\ WatcherGone' /\ OverIsOver'
  <1> USE DEF IInv, QuietOrThere, Quiet, HostThere, PubSubRuns, WatcherGone, OverIsOver,
              BeforeLoops, EngineIsStopped, From, Starts, Stops, Fails
  <1>1. CASE CreateHost \/ JoinTopic
    BY <1>1 DEF CreateHost, JoinTopic
  <1>2. CASE SpawnLoops \/ MarkRunning \/ StartFileSync \/ StartCluster
    BY <1>2 DEF SpawnLoops, MarkRunning, StartFileSync, StartCluster
  <1>3. CASE StartDiscovery \/ StartPeriodic \/ StartEngine
    BY <1>3 DEF StartDiscovery, StartPeriodic, StartEngine
  <1>4. CASE StartMonitoring \/ StartServices
    BY <1>4 DEF StartMonitoring, StartServices
  <1>5. CASE Wait \/ StopHTTP \/ StopGRPC \/ AwaitGRPC \/ StopEngine
    BY <1>5 DEF Wait, StopHTTP, StopGRPC, AwaitGRPC, StopEngine
  <1>6. CASE AwaitEngine
    BY <1>6 DEF AwaitEngine
  <1>7. CASE CancelNode \/ AwaitNode \/ StopPubSub
    BY <1>7 DEF CancelNode, AwaitNode, StopPubSub
  <1> QED
    BY <1>1, <1>2, <1>3, <1>4, <1>5, <1>6, <1>7 DEF Main

\* A goroutine needs a thread or a goroutine that is there, and leaves main alone.
LEMMA OthersKeep ==
    ASSUME IInv, Goroutine \/ Signal \/ CancelContext
    PROVE  QuietOrThere' /\ PubSubRuns' /\ WatcherGone' /\ OverIsOver'
  <1> USE DEF IInv, QuietOrThere, Quiet, HostThere, PubSubRuns, WatcherGone, OverIsOver,
              BeforeLoops, EngineIsStopped
  <1>1. ASSUME NEW k \in Kind, Begin(k), threads # {}
        PROVE  QuietOrThere' /\ PubSubRuns' /\ WatcherGone' /\ OverIsOver'
    BY <1>1 DEF Begin
  <1>2. ASSUME NEW k \in Kind, End(k)
        PROVE  QuietOrThere' /\ PubSubRuns' /\ WatcherGone' /\ OverIsOver'
    BY <1>2 DEF End, TypeOK
  <1>3. ASSUME NEW t, LoopEnds(t) \/ ListenFails(t)
        PROVE  QuietOrThere' /\ PubSubRuns' /\ WatcherGone' /\ OverIsOver'
    BY <1>3 DEF LoopEnds, ListenFails
  <1>4. CASE Signal \/ CancelContext \/ TickerPanics
    BY <1>4 DEF Signal, CancelContext, TickerPanics
  <1> QED
    BY <1>1, <1>2, <1>3, <1>4
       DEF Goroutine, FileEvent, ReceiveMessage, Call, Publish, Ignore, Answer, Kind

LEMMA StepInv == IInv /\ [Next]_vars => IInv'
  <1>1. ASSUME IInv, Next PROVE IInv'
    BY <1>1, TypeStep, MainKeeps, OthersKeep DEF Next, IInv
  <1>2. ASSUME IInv, UNCHANGED vars PROVE IInv'
    BY <1>2 DEF vars, IInv, TypeOK, QuietOrThere, Quiet, HostThere, PubSubRuns,
                WatcherGone, OverIsOver, BeforeLoops, EngineIsStopped
  <1> QED BY <1>1, <1>2

LEMMA Invariance == Spec => []IInv
  BY InitInv, StepInv, PTL DEF Spec

\* The program counter, fields and goroutines of a process keep their types
\* through every start, failure and stop of internal/server/server.go.
THEOREM TypeCorrect == Spec => []TypeOK
  BY Invariance, PTL DEF IInv

\* No step of the process uses the host or the topic before Start assigned it.
THEOREM NeverNilHost == Spec => [](TypeOK /\ NoNilHost)
  <1>1. IInv => TypeOK /\ NoNilHost
    BY DEF IInv, QuietOrThere, Quiet, HostThere, NoNilHost
  <1> QED BY <1>1, Invariance, PTL

\* After Engine.Stop the number of file events under way only falls.
THEOREM EngineStaysQuiet == Spec => StoppedEngineIsQuiet
  <1>1. ASSUME IInv, [Next]_vars
        PROVE  [EngineIsStopped => inFlight'["event"] <= inFlight["event"]]_vars
    <2> SUFFICES ASSUME EngineIsStopped, Next
                 PROVE  inFlight'["event"] <= inFlight["event"]
      BY <1>1
    <2>1. inFlight["event"] \in Nat /\ inFlight \in [Kind -> 0..MaxInFlight]
      BY <1>1, BoundAssumption DEF IInv, TypeOK, Kind
    <2>2. ASSUME NEW k \in Kind \ {"event"}, Begin(k) PROVE inFlight'["event"] = inFlight["event"]
      BY <2>1, <2>2 DEF Begin
    <2>3. ASSUME NEW k \in Kind, End(k) PROVE inFlight'["event"] <= inFlight["event"]
      BY <2>1, <2>3 DEF End
    <2>4. ~FileEvent
      BY <1>1 DEF IInv, WatcherGone, FileEvent
    <2>5. ASSUME Main PROVE UNCHANGED inFlight
      BY <2>5, MainShapes DEF Fails, Starts, Stops, AwaitEngine, StopPubSub
    <2>6. ASSUME NEW t, LoopEnds(t) \/ ListenFails(t) \/ Signal \/ CancelContext \/ TickerPanics
          PROVE UNCHANGED inFlight
      BY <2>6 DEF LoopEnds, ListenFails, Signal, CancelContext, TickerPanics
    <2> QED
      BY <2>1, <2>2, <2>3, <2>4, <2>5, <2>6
         DEF Next, Goroutine, ReceiveMessage, Call, Publish, Ignore, Answer, Kind, Servers
  <1> QED BY <1>1, Invariance, PTL DEF Spec, StoppedEngineIsQuiet

\* The only messages Publish refuses are answers given while Start has started
\* handleMessages and has not yet set r.running.
THEOREM RefusedOnlyAtStart == Spec => DroppedOnlyAtStart
  <1>1. ASSUME IInv, [Next]_vars
        PROVE  [dropped' # dropped => main = "markRunning"]_vars
    <2> SUFFICES ASSUME Next, dropped' # dropped PROVE main = "markRunning"
      BY <1>1
    <2>1. ~Main
      BY MainShapes DEF Fails, Starts, Stops, AwaitEngine, StopPubSub
    <2>2. PICK k \in Kind : Publish(k)
      BY <2>1 DEF Next, Signal, CancelContext, Goroutine, FileEvent, ReceiveMessage, Call,
                  Begin, Answer, Ignore, LoopEnds, ListenFails, TickerPanics, Kind
    <2>3. process = "running" /\ inFlight[k] # 0 /\ "pubsub" \notin up
      BY <1>1, <2>2 DEF Publish, End, IInv, TypeOK
    <2> QED
      BY <1>1, <2>3 DEF IInv, QuietOrThere, Quiet, PubSubRuns, OverIsOver, BeforeLoops
  <1> QED BY <1>1, Invariance, PTL DEF Spec, DroppedOnlyAtStart
=============================================================================
