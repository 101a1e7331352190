------------------------------- MODULE Lifecycle -------------------------------
(***************************************************************************)
(* The life of one process: main starts the components one after the       *)
(* other, waits for a signal and stops them, while their goroutines run.   *)
(* internal/server/server.go and the Start and Stop of node.go,            *)
(* real_pubsub.go, file_sync.go, cluster.go, discovery.go (internal/p2p),  *)
(* internal/sync/engine.go and internal/monitoring/service.go.             *)
(*                                                                         *)
(* The process ends in StopPubSub, which calls a function that is nil; the *)
(* statements after it, the Stop of every protocol and of the monitoring   *)
(* service among them, are not modelled because they are never reached.    *)
(***************************************************************************)
EXTENDS Naturals

CONSTANTS
    TLSEnabled,        \* security.tls_enabled
    MonitoringEnabled, \* monitoring.enabled
    IntervalsSet,      \* whether p2p.cluster has its two intervals
    MaxInFlight        \* bound on the short-lived goroutines of a kind

VARIABLES
    process,   \* the process as its parent sees it
    main,      \* what the main goroutine does next
    signalled, \* whether a signal was sent
    done,      \* whether the context of main is cancelled
    up,        \* the parts that are there, and the running flags that are set
    cancelled, \* the components whose context is cancelled
    threads,   \* the long-lived goroutines
    inFlight,  \* number of short-lived goroutines of each kind
    dropped    \* whether Publish refused a message as "not running"

vars == <<process, main, signalled, done, up, cancelled, threads, inFlight, dropped>>

Step == {"createHost", "joinTopic", "spawnLoops", "markRunning", "startFileSync",
         "startCluster", "startDiscovery", "startPeriodic", "startEngine",
         "startMonitoring", "startServices", "wait", "stopHTTP", "stopGRPC",
         "awaitGRPC", "stopEngine", "awaitEngine", "cancelNode", "awaitNode",
         "stopPubSub", "over"}

Part == {"host", "topic", "pubsub", "fileSync", "cluster", "discovery", "node",
         "engine", "monitoring"}

PubSubLoops == {"handleMessages", "monitorPeers", "attemptPeerConnections"}
ClusterLoops == {"clusterMessages", "clusterPeriodic"}
NodeLoops == PubSubLoops \union ClusterLoops
               \union {"fileWorkers", "discoveryLoop", "nodePeriodic"}
Servers == {"http", "grpc"}
Thread == NodeLoops \union Servers \union {"watchFiles", "monitoringLoops"}

\* processFileEvent, the callback of a message, and calls to the two servers.
Kind == {"event", "message"} \union Servers

ASSUME SwitchAssumption == {TLSEnabled, MonitoringEnabled, IntervalsSet} \subseteq BOOLEAN
ASSUME BoundAssumption == MaxInFlight \in Nat \ {0}

TypeOK ==
    /\ process \in {"running", "failed", "panicked"}
    /\ main \in Step
    /\ signalled \in BOOLEAN /\ done \in BOOLEAN /\ dropped \in BOOLEAN
    /\ up \subseteq Part
    /\ cancelled \subseteq {"node", "engine"}
    /\ threads \subseteq Thread
    /\ inFlight \in [Kind -> 0..MaxInFlight]

Init ==
    /\ process = "running"
    /\ main = "createHost"
    /\ signalled = FALSE /\ done = FALSE /\ dropped = FALSE
    /\ up = {} /\ cancelled = {} /\ threads = {}
    /\ inFlight = [k \in Kind |-> 0]

\* The main goroutine goes from one step to the next.
From(s, t) == process = "running" /\ main = s /\ main' = t

\* An error that Start returns ends in log.Fatal of main.go.
Fails(s) ==
    /\ From(s, "over")
    /\ process' = "failed"
    /\ UNCHANGED <<signalled, done, up, cancelled, threads, inFlight, dropped>>

\* A step of Start that leaves parts ps up and goroutines ts running.
Starts(s, t, ps, ts) ==
    /\ From(s, t)
    /\ up' = up \union ps
    /\ threads' = threads \union ts
    /\ UNCHANGED <<process, signalled, done, cancelled, inFlight, dropped>>

-----------------------------------------------------------------------------
(* Server.Start.                                                            *)

CreateHost == Starts("createHost", "joinTopic", {"host"}, {}) \/ Fails("createHost")

\* Seeded fault: the error is logged, as that of startDiscovery is.
JoinTopicLogged ==
    \/ Starts("joinTopic", "spawnLoops", {"topic"}, {})
    \/ Starts("joinTopic", "spawnLoops", {}, {})

JoinTopic == Starts("joinTopic", "spawnLoops", {"topic"}, {}) \/ Fails("joinTopic")

\* The subscription is read from here on ...
SpawnLoops == Starts("spawnLoops", "markRunning", {}, PubSubLoops)

\* Seeded fault: the flag stays false.
MarkRunningNot == Starts("markRunning", "startFileSync", {}, {})

\* ... but Publish works only from here on.
MarkRunning == Starts("markRunning", "startFileSync", {"pubsub"}, {})

StartFileSync == Starts("startFileSync", "startCluster", {"fileSync"}, {"fileWorkers"})

StartCluster == Starts("startCluster", "startDiscovery", {"cluster"}, ClusterLoops)

\* Discovery.mdns is nil, since Initialize has no caller: nothing can fail.
StartDiscovery == Starts("startDiscovery", "startPeriodic", {"discovery"}, {"discoveryLoop"})

StartPeriodic == Starts("startPeriodic", "startEngine", {"node"}, {"nodePeriodic"})

\* fsnotify.NewWatcher may fail; a path that cannot be watched is only logged.
StartEngine ==
    \/ Starts("startEngine", "startMonitoring", {"engine"}, {"watchFiles"})
    \/ Fails("startEngine")

StartMonitoring ==
    Starts("startMonitoring", "startServices", {"monitoring"},
           IF MonitoringEnabled THEN {"monitoringLoops"} ELSE {})

\* The certificate is read before either server is started.
StartServices ==
    \/ Starts("startServices", "wait", {}, Servers)
    \/ TLSEnabled /\ Fails("startServices")

-----------------------------------------------------------------------------
(* The signal and Server.Stop.                                              *)

Signal ==
    /\ process = "running" /\ ~signalled
    /\ signalled' = TRUE
    /\ UNCHANGED <<process, main, done, up, cancelled, threads, inFlight, dropped>>

\* The goroutine of main.go: a second signal is never read.
CancelContext ==
    /\ process = "running" /\ signalled /\ ~done
    /\ done' = TRUE
    /\ UNCHANGED <<process, main, signalled, up, cancelled, threads, inFlight, dropped>>

\* A step of Stop that cancels contexts cs and closes servers ts.
Stops(s, t, cs, ts) ==
    /\ From(s, t)
    /\ cancelled' = cancelled \union cs
    /\ threads' = threads \ ts
    /\ UNCHANGED <<process, signalled, done, up, inFlight, dropped>>

Wait == done /\ Stops("wait", "stopHTTP", {}, {})

\* Shutdown waits for the calls under way or five seconds.
StopHTTP == Stops("stopHTTP", "stopGRPC", {}, {"http"})

StopGRPC == Stops("stopGRPC", "awaitGRPC", {}, {"grpc"})

\* GracefulStop waits for the calls under way, however long they take.
AwaitGRPC == inFlight["grpc"] = 0 /\ Stops("awaitGRPC", "stopEngine", {}, {})

StopEngine == Stops("stopEngine", "awaitEngine", {"engine"}, {})

\* Seeded fault: the wait group is not waited for.
AwaitEngineNot ==
    /\ From("awaitEngine", "cancelNode")
    /\ up' = up \ {"engine"}
    /\ UNCHANGED <<process, signalled, done, cancelled, threads, inFlight, dropped>>

\* The wait group has watchFiles, and not the goroutines of its events.
AwaitEngine ==
    /\ "watchFiles" \notin threads
    /\ From("awaitEngine", "cancelNode")
    /\ up' = up \ {"engine"}
    /\ UNCHANGED <<process, signalled, done, cancelled, threads, inFlight, dropped>>

\* Seeded fault: the goroutines are waited for, but not told to end.
CancelNodeNot == Stops("cancelNode", "awaitNode", {}, {})

CancelNode == Stops("cancelNode", "awaitNode", {"node"}, {})

AwaitNode == "nodePeriodic" \notin threads /\ Stops("awaitNode", "stopPubSub", {}, {})

\* r.cancel() of RealPubSubService.Stop: nothing ever assigns r.cancel.
StopPubSub ==
    /\ From("stopPubSub", "over")
    /\ process' = "panicked"
    /\ UNCHANGED <<signalled, done, up, cancelled, threads, inFlight, dropped>>

-----------------------------------------------------------------------------
(* The goroutines.                                                          *)

Begin(k) ==
    /\ process = "running"
    /\ inFlight[k] < MaxInFlight
    /\ inFlight' = [inFlight EXCEPT ![k] = @ + 1]
    /\ UNCHANGED <<process, main, signalled, done, up, cancelled, threads, dropped>>

\* Seeded fault: an end is counted that had no beginning.
EndUncounted(k) ==
    /\ process = "running"
    /\ inFlight' = [inFlight EXCEPT ![k] = @ - 1]
    /\ UNCHANGED <<process, main, signalled, done, up, cancelled, threads>>

End(k) ==
    /\ process = "running"
    /\ inFlight[k] > 0
    /\ inFlight' = [inFlight EXCEPT ![k] = @ - 1]
    /\ UNCHANGED <<process, main, signalled, done, up, cancelled, threads>>

\* The engine's watcher and the topic start a goroutine per event and message;
\* one that is ready may be taken even when the context is cancelled.
FileEvent == "watchFiles" \in threads /\ Begin("event")
ReceiveMessage == "handleMessages" \in threads /\ Begin("message")
Call(s) == s \in threads /\ Begin(s)

\* PublishFileEvent, or the request or response of a message handler.
Publish(k) == End(k) /\ dropped' = (dropped \/ "pubsub" \notin up)

\* A file that cannot be read, or a message that asks for nothing.
Ignore(k) == End(k) /\ UNCHANGED dropped

\* A call of /health may also wait for the lock P2PNode.Stop holds: the model
\* lets every call end.
Answer(s) == End(s) /\ UNCHANGED dropped

\* A loop sees that its context is cancelled; closing the watcher, which
\* Engine.Stop does next, has the same effect on watchFiles.
LoopEnds(t) ==
    /\ process = "running"
    /\ t \in threads
    /\ \/ t = "watchFiles" /\ "engine" \in cancelled
       \/ t \in NodeLoops /\ "node" \in cancelled
    /\ threads' = threads \ {t}
    /\ UNCHANGED <<process, main, signalled, done, up, cancelled, inFlight, dropped>>

\* A port that is taken ends the server's goroutine with a line of log.
ListenFails(s) ==
    /\ process = "running"
    /\ s \in threads
    /\ inFlight[s] = 0
    /\ threads' = threads \ {s}
    /\ UNCHANGED <<process, main, signalled, done, up, cancelled, inFlight, dropped>>

\* time.NewTicker(0) of periodicTasks panics.
TickerPanics ==
    /\ process = "running"
    /\ ~IntervalsSet /\ "clusterPeriodic" \in threads
    /\ process' = "panicked"
    /\ UNCHANGED <<main, signalled, done, up, cancelled, threads, inFlight, dropped>>

-----------------------------------------------------------------------------
Main ==
    \/ CreateHost \/ JoinTopic \/ SpawnLoops \/ MarkRunning
    \/ StartFileSync \/ StartCluster \/ StartDiscovery \/ StartPeriodic
    \/ StartEngine \/ StartMonitoring \/ StartServices
    \/ Wait \/ StopHTTP \/ StopGRPC \/ AwaitGRPC \/ StopEngine \/ AwaitEngine
    \/ CancelNode \/ AwaitNode \/ StopPubSub

Goroutine ==
    \/ FileEvent \/ ReceiveMessage
    \/ \E s \in Servers : Call(s) \/ Answer(s) \/ ListenFails(s)
    \/ \E k \in {"event", "message"} : Publish(k) \/ Ignore(k)
    \/ \E t \in Thread : LoopEnds(t)
    \/ TickerPanics

Next == Signal \/ CancelContext \/ Main \/ Goroutine

Spec == Init /\ [][Next]_vars

\* Every goroutine that can run does, and a call under way ends: WatchFiles and
\* StreamClusterEvents loop until their connection does, after MaxConnectionAge
\* and its grace (pkg/grpc/server.go:53), 35 seconds.
Fairness ==
    /\ WF_vars(Main)
    /\ WF_vars(CancelContext)
    /\ \A s \in Servers : WF_vars(Answer(s))
    /\ \A t \in Thread : WF_vars(LoopEnds(t))

FairSpec == Spec /\ Fairness

-----------------------------------------------------------------------------
(* What a reader of Start and Stop expects.                                 *)

\* What goes on in the process before and after a step of main.
BeforeLoops == {"createHost", "joinTopic", "spawnLoops"}
EngineIsStopped == main \in {"cancelNode", "awaitNode", "stopPubSub"}

\* No goroutine meets a nil host or topic: while one runs, or a handler of an
\* event, a message or a call is under way, both are there.  The methods of
\* RealPubSubService use r.host and r.topic without a test.
NoNilHost ==
    \/ threads # {}
    \/ \E k \in Kind : inFlight[k] > 0
    => {"host", "topic"} \subseteq up

\* Once Engine.Stop has returned, no file event is taken up any more.
StoppedEngineIsQuiet ==
    [][EngineIsStopped => inFlight'["event"] <= inFlight["event"]]_vars

\* Publish refuses a message only between the start of handleMessages and the
\* assignment of r.running: a file event of the user is never refused.
DroppedOnlyAtStart == [][dropped' # dropped => main = "markRunning"]_vars

\* A signal ends the process: Stop never waits for ever for a server, the
\* engine or the node.
SignalEnds == signalled ~> process # "running"

\* "Stop gracefully stops the server": a process does not end in a panic.
GracefulShutdown == process # "panicked"
=============================================================================
