------------------------------- MODULE FileSync -------------------------------
(***************************************************************************)
(* The replication of one watched file between the nodes of a cluster: the *)
(* watcher goroutines of internal/sync/engine.go and the message handlers  *)
(* of internal/p2p/file_sync.go, over the topic of real_pubsub.go.  Every  *)
(* operation of the code is keyed by a path and none touches two paths, so *)
(* a cluster of many files behaves as that many copies of this module.     *)
(*                                                                         *)
(* Each goroutine is a record of a bag of tasks, naming the step it takes  *)
(* next.  A step is what the code does between two points at which another *)
(* goroutine may run: between two lock sections, two system calls, or a    *)
(* publication and the statement after it.  A checksum is represented by   *)
(* the content it was computed from (SHA-256 taken as injective).          *)
(***************************************************************************)
EXTENDS Integers, Sequences, FiniteSets, BagsExt, Bags

CONSTANTS
    Node,           \* the peers subscribed to the topic
    Writers,        \* the nodes on which a user changes the file
    Block,          \* the blocks a content is made of
    UserContent,    \* the contents a user saves
    Absent,         \* no such file; as a checksum, the empty string
    NoState,        \* no entry of the map fileStates for the file
    Strategy,       \* Strategy[n]: p2p.file_sync.conflict_resolution of node n
    TicksPerSecond, \* resolution of the clock against time.Time.Unix()
    RecentTicks,    \* the five seconds of hasConflict
    AllowDelete,    \* whether a user deletes the file
    Lossy,          \* whether publications fail and messages get lost
    MaxTime, MaxOps, MaxRequests, MaxRestarts  \* bounds of the counters below

VARIABLES
    disk,       \* disk[n]: the file on node n
    modTime,    \* modTime[n]: its modification time in the file system
    fileStates, \* fileStates[n]: what node n recorded of the file
    tasks,      \* tasks[n]: bag of the goroutines of node n
    inbox,      \* inbox[n]: bag of the messages on their way to node n
    now,        \* the clock, the same on every node
    ops,        \* number of changes made by users
    requests,   \* number of file requests published
    restarts    \* number of crashes

vars == <<disk, modTime, fileStates, tasks, inbox, now, ops, requests, restarts>>

Content == Seq(Block)
NoTime == -1                        \* the zero time.Time
Time == Nat \union {NoTime}

ASSUME WritersAssumption == Writers \subseteq Node
ASSUME ContentAssumption == UserContent \subseteq Content
ASSUME AbsentAssumption  == Absent \notin Content
ASSUME ClockAssumption   == TicksPerSecond \in Nat \ {0} /\ RecentTicks \in Nat
ASSUME SwitchAssumption  == {AllowDelete, Lossy} \subseteq BOOLEAN
ASSUME BoundAssumption   == {MaxTime, MaxOps, MaxRequests, MaxRestarts} \subseteq Nat

-----------------------------------------------------------------------------
(* The data: what a goroutine or a message carries.                         *)

Sum == Content \union {Absent}

\* FileEvent as the watcher fills it in: checksum, size, modification time.
Snapshot == [sum : Sum, size : Nat, mtime : Time]

\* FileSyncMessage "file_event": neither the operation nor ModTime is sent.
EventMsg    == [type : {"file_event"}, sum : Sum, size : Nat, ts : Nat]
RequestMsg  == [type : {"file_request"}]
ResponseMsg == [type : {"file_response"}, data : Content]
Message     == EventMsg \union RequestMsg \union ResponseMsg

StatTask    == [step : {"stat"}]
SumTask     == [step : {"sum"}, size : Nat, mtime : Time]
EmitTask    == [step : {"publish", "record"}, snap : Snapshot]
DecideTask  == [step : {"detect", "resolve"}, event : EventMsg]
RequestTask == [step : {"request"}]
WriteTask   == [step : {"write"}, data : Content]
Task == StatTask \union SumTask \union EmitTask \union DecideTask
            \union RequestTask \union WriteTask

FileState == [sum : Sum, size : Nat, modTime : Time, lastSync : Time,
              status : {"synced", "conflict"}]

ASSUME NoStateAssumption == NoState \notin FileState

\* B is a bag of elements of S.
BagOver(B, S) == DOMAIN B \subseteq S /\ B \in [DOMAIN B -> Nat \ {0}]

\* f gives each node a bag of elements of S.
NodeBags(f, S) == f = [n \in Node |-> f[n]] /\ \A n \in Node : BagOver(f[n], S)

TypeOK ==
    /\ disk \in [Node -> Sum]
    /\ modTime \in [Node -> Time]
    /\ fileStates \in [Node -> FileState \union {NoState}]
    /\ NodeBags(tasks, Task)
    /\ NodeBags(inbox, Message)
    /\ now \in 0..MaxTime
    /\ ops \in 0..MaxOps
    /\ requests \in 0..MaxRequests
    /\ restarts \in 0..MaxRestarts

\* A goroutine that is about to write has the file it writes to.
WritesOpenFile ==
    \A n \in Node : (\E t \in DOMAIN tasks[n] : t.step = "write") => disk[n] # Absent

Init ==
    /\ disk = [n \in Node |-> Absent]
    /\ modTime = [n \in Node |-> NoTime]
    /\ fileStates = [n \in Node |-> NoState]
    /\ tasks = [n \in Node |-> EmptyBag]
    /\ inbox = [n \in Node |-> EmptyBag]
    /\ now = 0 /\ ops = 0 /\ requests = 0 /\ restarts = 0

-----------------------------------------------------------------------------
(* Goroutines and messages.                                                 *)

\* Seeded fault: rounds one second too far down.
UnixSecondsEarly(t) == t - (t % TicksPerSecond) - TicksPerSecond

\* time.Now().Unix(): the clock truncated to a second.
UnixSeconds(t) == t - (t % TicksPerSecond)

\* Seeded fault: the filter of own messages is missing.
ReceiversAll(n) == Node

\* A publication reaches every node but its sender, who drops its own.
Receivers(n) == Node \ {n}

Publication(n, m) ==
    [r \in Node |-> IF r \in Receivers(n) THEN BagAdd(inbox[r], m) ELSE inbox[r]]

Spawn(n, t)      == [tasks EXCEPT ![n] = BagAdd(@, t)]
Finish(n, t)     == [tasks EXCEPT ![n] = BagRemove(@, t)]
Advance(n, t, u) == [tasks EXCEPT ![n] = BagAdd(BagRemove(@, t), u)]

Consume(n, m) == [inbox EXCEPT ![n] = BagRemove(@, m)]

StatStep    == [step |-> "stat"]
RequestStep == [step |-> "request"]

\* What the kernel may make of one more change of the file: one more event,
\* or none if an event of the same kind is still unread.
Notified(ts) ==
    {BagAdd(ts, StatStep)} \union (IF BagIn(StatStep, ts) THEN {ts} ELSE {})

-----------------------------------------------------------------------------
(* The user and the file watcher.                                           *)

IsWrite(t) == t.step = "write"

WithoutWrites(B) == [t \in {t \in DOMAIN B : ~IsWrite(t)} |-> B[t]]

\* The name of the file is taken from the inode it had: a write under way goes
\* on into an inode that has no name.  The watcher starts goroutine u.
Renamed(n, u) == [tasks EXCEPT ![n] = BagAdd(WithoutWrites(@), u)]

\* A save: the new content is written elsewhere and renamed into place.
UserWrite(n, c) ==
    /\ ops < MaxOps
    /\ ops' = ops + 1
    /\ disk' = [disk EXCEPT ![n] = c]
    /\ modTime' = [modTime EXCEPT ![n] = now]
    /\ tasks' = Renamed(n, StatStep)
    /\ UNCHANGED <<fileStates, inbox, now, requests, restarts>>

NoSnapshot == [sum |-> Absent, size |-> 0, mtime |-> NoTime]

\* The removal of the file.  processFileEvent skips the stat of a "delete".
UserDelete(n) ==
    /\ AllowDelete
    /\ ops < MaxOps
    /\ disk[n] # Absent
    /\ ops' = ops + 1
    /\ disk' = [disk EXCEPT ![n] = Absent]
    /\ modTime' = [modTime EXCEPT ![n] = NoTime]
    /\ tasks' = Renamed(n, [step |-> "publish", snap |-> NoSnapshot])
    /\ UNCHANGED <<fileStates, inbox, now, requests, restarts>>

\* os.Stat of processFileEvent; if it fails the event goes out empty.
Stat(n) ==
    /\ BagIn(StatStep, tasks[n])
    /\ \/ /\ disk[n] = Absent
          /\ tasks' = Advance(n, StatStep, [step |-> "publish", snap |-> NoSnapshot])
       \/ /\ disk[n] # Absent
          /\ tasks' = Advance(n, StatStep, [step  |-> "sum",
                                            size  |-> Len(disk[n]),
                                            mtime |-> modTime[n]])
    /\ UNCHANGED <<disk, modTime, fileStates, inbox, now, ops, requests, restarts>>

\* calculateChecksum: the file read here is not the file of os.Stat.
CalculateChecksum(n, t) ==
    /\ t.step = "sum"
    /\ tasks' = Advance(n, t, [step |-> "publish",
                               snap |-> [sum |-> disk[n], size |-> t.size,
                                         mtime |-> t.mtime]])
    /\ UNCHANGED <<disk, modTime, fileStates, inbox, now, ops, requests, restarts>>

EventOf(snap) == [type |-> "file_event", sum |-> snap.sum, size |-> snap.size,
                  ts |-> UnixSeconds(now)]

\* PublishFileEvent up to the publication ...
PublishFileEvent(n, t) ==
    /\ t.step = "publish"
    /\ inbox' = Publication(n, EventOf(t.snap))
    /\ tasks' = Advance(n, t, [step |-> "record", snap |-> t.snap])
    /\ UNCHANGED <<disk, modTime, fileStates, now, ops, requests, restarts>>

\* ... and, after it, updateFileState.
UpdateFileState(n, t) ==
    /\ t.step = "record"
    /\ fileStates' = [fileStates EXCEPT ![n] =
                         [sum |-> t.snap.sum, size |-> t.snap.size,
                          modTime |-> t.snap.mtime, lastSync |-> now,
                          status |-> "synced"]]
    /\ tasks' = Finish(n, t)
    /\ UNCHANGED <<disk, modTime, inbox, now, ops, requests, restarts>>

-----------------------------------------------------------------------------
(* A peer's file event.                                                     *)

\* Seeded faults: the checksum is not compared; a file without an entry of
\* fileStates is taken for one that is not synchronised.
ShouldSyncAlways(n, e) == TRUE
ShouldSyncKnown(n, e) == fileStates[n] # NoState /\ fileStates[n].sum # e.sum

\* shouldSyncFile: the only file is in a watched path, every pattern matches.
ShouldSync(n, e) == fileStates[n] = NoState \/ fileStates[n].sum # e.sum

HasConflict(n, e) ==
    /\ fileStates[n] # NoState
    /\ LET s == fileStates[n] IN
         \/ s.lastSync > now - RecentTicks
         \/ s.sum # Absent /\ e.sum # Absent /\ s.sum # e.sum

\* Seeded fault: a tie is won by the peer's event.
AcceptsOnTie(n, e) == fileStates[n] = NoState \/ e.ts >= fileStates[n].modTime

\* resolveByTimestamp and resolveBySize; manual resolution never accepts.
Accepts(n, e) ==
    CASE Strategy[n] = "size"   -> fileStates[n] = NoState \/ e.size > fileStates[n].size
      [] Strategy[n] = "manual" -> FALSE
      [] OTHER                  -> fileStates[n] = NoState \/ e.ts > fileStates[n].modTime

\* The entry resolveManually leaves, made on the spot if there is none.
MarkedConflict(n) ==
    IF fileStates[n] = NoState
    THEN [sum |-> Absent, size |-> 0, modTime |-> NoTime, lastSync |-> NoTime,
          status |-> "conflict"]
    ELSE [fileStates[n] EXCEPT !.status = "conflict"]

\* processMessage and handleFileEvent, up to shouldSyncFile.
DeliverEvent(n, m) ==
    /\ m.type = "file_event"
    /\ inbox' = Consume(n, m)
    /\ tasks' = IF ShouldSync(n, m)
                THEN Spawn(n, [step |-> "detect", event |-> m])
                ELSE tasks
    /\ UNCHANGED <<disk, modTime, fileStates, now, ops, requests, restarts>>

\* hasConflict, in a lock section of its own.
DetectConflict(n, t) ==
    /\ t.step = "detect"
    /\ tasks' = Advance(n, t, IF HasConflict(n, t.event)
                              THEN [step |-> "resolve", event |-> t.event]
                              ELSE RequestStep)
    /\ UNCHANGED <<disk, modTime, fileStates, inbox, now, ops, requests, restarts>>

\* Seeded fault: a rejected event is not dropped.
ResolveConflictRetried(n, t) ==
    /\ t.step = "resolve"
    /\ tasks' = IF Accepts(n, t.event) THEN Advance(n, t, RequestStep) ELSE tasks
    /\ fileStates' = IF Strategy[n] = "manual"
                     THEN [fileStates EXCEPT ![n] = MarkedConflict(n)]
                     ELSE fileStates
    /\ UNCHANGED <<disk, modTime, inbox, now, ops, requests, restarts>>

\* resolveConflict, in another.
ResolveConflict(n, t) ==
    /\ t.step = "resolve"
    /\ tasks' = IF Accepts(n, t.event) THEN Advance(n, t, RequestStep)
                                       ELSE Finish(n, t)
    /\ fileStates' = IF Strategy[n] = "manual"
                     THEN [fileStates EXCEPT ![n] = MarkedConflict(n)]
                     ELSE fileStates
    /\ UNCHANGED <<disk, modTime, inbox, now, ops, requests, restarts>>

\* requestFileFromPeer: asks the topic, not the peer of the event.
RequestFile(n) ==
    /\ requests < MaxRequests
    /\ requests' = requests + 1
    /\ BagIn(RequestStep, tasks[n])
    /\ inbox' = Publication(n, [type |-> "file_request"])
    /\ tasks' = Finish(n, RequestStep)
    /\ UNCHANGED <<disk, modTime, fileStates, now, ops, restarts>>

-----------------------------------------------------------------------------
(* Requests and responses.                                                  *)

\* handleFileRequest: whoever has the file answers, to everyone.
HandleFileRequest(n, m) ==
    /\ m.type = "file_request"
    /\ LET rest == Consume(n, m) IN
         inbox' = [r \in Node |->
                     IF disk[n] # Absent /\ r \in Receivers(n)
                     THEN BagAdd(rest[r], [type |-> "file_response", data |-> disk[n]])
                     ELSE rest[r]]
    /\ UNCHANGED <<disk, modTime, fileStates, tasks, now, ops, requests, restarts>>

\* Seeded fault: the file is opened, but not created.
HandleFileResponseNoCreate(n, m) ==
    /\ m.type = "file_response"
    /\ inbox' = Consume(n, m)
    /\ tasks' = Spawn(n, [step |-> "write", data |-> m.data])
    /\ UNCHANGED <<disk, modTime, fileStates, now, ops, requests, restarts>>

\* handleFileResponse: os.Create truncates the file, whatever it holds ...
HandleFileResponse(n, m) ==
    /\ m.type = "file_response"
    /\ inbox' = Consume(n, m)
    /\ disk' = [disk EXCEPT ![n] = << >>]
    /\ modTime' = [modTime EXCEPT ![n] = now]
    /\ \E ts \in Notified(tasks[n]) :
         tasks' = [tasks EXCEPT ![n] = BagAdd(ts, [step |-> "write", data |-> m.data])]
    /\ UNCHANGED <<fileStates, now, ops, requests, restarts>>

\* The content after writing d at the start of a file that holds c.
Overlay(d, c) == d \o SubSeq(c, Len(d) + 1, Len(c))

\* ... and file.Write puts the data where the file now begins.
WriteData(n, t) ==
    /\ t.step = "write"
    /\ \/ /\ t.data = << >>
          /\ tasks' = Finish(n, t)
          /\ UNCHANGED <<disk, modTime>>
       \/ /\ t.data # << >>
          /\ disk' = [disk EXCEPT ![n] = Overlay(t.data, @)]
          /\ modTime' = [modTime EXCEPT ![n] = now]
          /\ \E ts \in Notified(BagRemove(tasks[n], t)) :
               tasks' = [tasks EXCEPT ![n] = ts]
    /\ UNCHANGED <<fileStates, inbox, now, ops, requests, restarts>>

-----------------------------------------------------------------------------
(* The environment.                                                         *)

\* A message the topic does not deliver.
Lose(n, m) ==
    /\ Lossy
    /\ inbox' = Consume(n, m)
    /\ UNCHANGED <<disk, modTime, fileStates, tasks, now, ops, requests, restarts>>

\* topic.Publish fails: the event is gone and nothing is recorded.
PublishFails(n, t) ==
    /\ Lossy
    /\ t.step = "publish"
    /\ tasks' = Finish(n, t)
    /\ UNCHANGED <<disk, modTime, fileStates, inbox, now, ops, requests, restarts>>

\* The process dies and starts again: maps, goroutines and the subscription
\* are new, the file is as the last system call left it, nothing is rescanned.
Restart(n) ==
    /\ restarts < MaxRestarts
    /\ restarts' = restarts + 1
    /\ fileStates' = [fileStates EXCEPT ![n] = NoState]
    /\ tasks' = [tasks EXCEPT ![n] = EmptyBag]
    /\ inbox' = [inbox EXCEPT ![n] = EmptyBag]
    /\ UNCHANGED <<disk, modTime, now, ops, requests>>

Tick ==
    /\ now < MaxTime
    /\ now' = now + 1
    /\ UNCHANGED <<disk, modTime, fileStates, tasks, inbox, ops, requests, restarts>>

-----------------------------------------------------------------------------
User(n) == (\E c \in UserContent : UserWrite(n, c)) \/ UserDelete(n)

Watcher(n) ==
    \/ Stat(n)
    \/ \E t \in DOMAIN tasks[n] : CalculateChecksum(n, t)
    \/ \E t \in DOMAIN tasks[n] : PublishFileEvent(n, t)
    \/ \E t \in DOMAIN tasks[n] : UpdateFileState(n, t)

Handler(n) ==
    \/ \E m \in DOMAIN inbox[n] : DeliverEvent(n, m)
    \/ \E t \in DOMAIN tasks[n] : DetectConflict(n, t)
    \/ \E t \in DOMAIN tasks[n] : ResolveConflict(n, t)
    \/ RequestFile(n)
    \/ \E m \in DOMAIN inbox[n] : HandleFileRequest(n, m)
    \/ \E m \in DOMAIN inbox[n] : HandleFileResponse(n, m)
    \/ \E t \in DOMAIN tasks[n] : WriteData(n, t)

Fault(n) ==
    \/ \E m \in DOMAIN inbox[n] : Lose(n, m)
    \/ \E t \in DOMAIN tasks[n] : PublishFails(n, t)
    \/ Restart(n)

Next ==
    \/ \E n \in Writers : User(n)
    \/ \E n \in Node : Watcher(n) \/ Handler(n) \/ Fault(n)
    \/ Tick

Spec == Init /\ [][Next]_vars

\* As long as a goroutine can run or a message is on its way, one of them goes
\* on: no more is assumed of the Go scheduler and the topic, not even that they
\* are fair to each.
Fairness == WF_vars(\E n \in Node : Watcher(n) \/ Handler(n))

FairSpec == Spec /\ Fairness

-----------------------------------------------------------------------------
(* Properties.                                                              *)

Idle == \A n \in Node : tasks[n] = EmptyBag /\ inbox[n] = EmptyBag

\* When nothing is left to do, a file that one node has is on every node:
\* the exchange event, request, response leaves nobody out (if no message is
\* lost, nobody deletes the file and no process dies).
Presence == Idle => \A m, n \in Node : disk[n] # Absent => disk[m] # Absent

\* What node n has, recorded, announces and is told is what node m has.
AgreesWith(n, m) ==
    /\ disk[n] = disk[m]
    /\ fileStates[n] # NoState /\ fileStates[n].sum = disk[m]
    /\ \A t \in DOMAIN tasks[n] :
         \/ t.step \in {"stat", "sum"}
         \/ t.step \in {"publish", "record"} /\ t.snap.sum = disk[m]
    /\ \A e \in DOMAIN inbox[n] : e.type = "file_event" /\ e.sum = disk[m]

Converged ==
    \A n, m \in Node : disk[n] # Absent /\ AgreesWith(n, m)

\* Nothing but a user or a crash breaks an agreement: the events that a
\* synchronised write itself causes do not start another round of transfers.
ConvergedStays ==
    [][Converged /\ ops' = ops /\ restarts' = restarts
         => Converged' /\ disk' = disk]_vars


\* file_sync.go:319: a file marked as a conflict is left to its user.
ConflictLeftAlone ==
    [][\A n \in Node :
         /\ fileStates[n] # NoState /\ fileStates[n].status = "conflict"
         /\ ops' = ops
         => disk'[n] = disk[n]]_vars

\* README.md:36 ("file integrity verification"): the content a user saved does
\* not get lost on every node.
Kept == Idle /\ ops > 0 => \E n \in Node : disk[n] \in UserContent
=============================================================================
