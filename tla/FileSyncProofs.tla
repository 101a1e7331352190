---------------------------- MODULE FileSyncProofs ----------------------------
(***************************************************************************)
(* Proofs about FileSync, for every set of nodes, every set of contents,   *)
(* every strategy and every bound.                                         *)
(***************************************************************************)
EXTENDS FileSync, SequenceTheorems, TLAPS

-----------------------------------------------------------------------------
(* Bags.                                                                    *)

\* Adding an element adds no other, removing one adds none.
LEMMA BagDomains ==
    /\ \A B, x : DOMAIN BagAdd(B, x) \subseteq DOMAIN B \union {x}
    /\ \A B, x : DOMAIN BagRemove(B, x) \subseteq DOMAIN B
    /\ DOMAIN EmptyBag = {}
  BY DEF BagAdd, BagRemove, EmptyBag, SetToBag

\* A bag over S stays one when an element of S is added or one removed.
LEMMA AddBag ==
    ASSUME NEW S, NEW B, BagOver(B, S), NEW x \in S
    PROVE  BagOver(BagAdd(B, x), S)
  BY DEF BagOver, BagAdd

LEMMA RemoveBag ==
    ASSUME NEW S, NEW B, BagOver(B, S), NEW x
    PROVE  BagOver(BagRemove(B, x), S)
  BY DEF BagOver, BagRemove

LEMMA NoBag == \A S : BagOver(EmptyBag, S)
  BY DEF BagOver, EmptyBag, SetToBag

\* Giving one node another bag, with no element but old ones and those of T.
LEMMA SetNodeBag ==
    ASSUME NEW S, NEW f, NodeBags(f, S), NEW n \in Node, NEW B, BagOver(B, S)
    PROVE  NodeBags([f EXCEPT ![n] = B], S)
  BY DEF NodeBags

LEMMA SetNodeDomain ==
    ASSUME NEW S, NEW f, NodeBags(f, S), NEW n \in Node, NEW B, NEW T,
           DOMAIN B \subseteq DOMAIN f[n] \union T
    PROVE  \A k \in Node : DOMAIN [f EXCEPT ![n] = B][k] \subseteq DOMAIN f[k] \union T
  <1> SUFFICES ASSUME NEW k \in Node
               PROVE DOMAIN [f EXCEPT ![n] = B][k] \subseteq DOMAIN f[k] \union T
    OBVIOUS
  <1>1. [f EXCEPT ![n] = B][k] = IF k = n THEN B ELSE f[k]
    BY DEF NodeBags
  <1> QED BY <1>1

\* The content of a file after a write at its start is a content.
LEMMA OverlayContent ==
    ASSUME NEW d \in Content, NEW c \in Content
    PROVE  Overlay(d, c) \in Content
  <1>1. SubSeq(c, Len(d) + 1, Len(c)) \in Seq(Block)
    BY SubSeqProperties DEF Content
  <1> QED BY <1>1, ConcatProperties DEF Overlay, Content

LEMMA UnixSecondsNat == ASSUME NEW t \in Nat PROVE UnixSeconds(t) \in Nat
  BY ClockAssumption DEF UnixSeconds

\* Starting, ending and continuing a goroutine of node n: the bags stay bags ...
LEMMA TasksTyped ==
    ASSUME NodeBags(tasks, Task), NEW n \in Node, NEW t, NEW u
    PROVE  /\ NodeBags(Finish(n, t), Task)
           /\ u \in Task => NodeBags(Spawn(n, u), Task)
           /\ u \in Task => NodeBags(Advance(n, t, u), Task)
  <1>1. BagOver(tasks[n], Task)
    BY DEF NodeBags
  <1>2. BagOver(BagRemove(tasks[n], t), Task)
    BY <1>1, RemoveBag
  <1>3. u \in Task => /\ BagOver(BagAdd(tasks[n], u), Task)
                      /\ BagOver(BagAdd(BagRemove(tasks[n], t), u), Task)
    BY <1>1, <1>2, AddBag
  <1> QED BY <1>2, <1>3, SetNodeBag DEF Spawn, Finish, Advance

\* ... and hold no new goroutine but the one named.
LEMMA TasksDomain ==
    ASSUME NodeBags(tasks, Task), NEW n \in Node, NEW t, NEW u
    PROVE  \A k \in Node :
             /\ DOMAIN Spawn(n, u)[k] \subseteq DOMAIN tasks[k] \union {u}
             /\ DOMAIN Finish(n, t)[k] \subseteq DOMAIN tasks[k]
             /\ DOMAIN Advance(n, t, u)[k] \subseteq DOMAIN tasks[k] \union {u}
  <1>1. DOMAIN BagAdd(tasks[n], u) \subseteq DOMAIN tasks[n] \union {u}
    BY BagDomains
  <1>2. DOMAIN BagRemove(tasks[n], t) \subseteq DOMAIN tasks[n] \union {}
    BY BagDomains
  <1>3. DOMAIN BagAdd(BagRemove(tasks[n], t), u)
          \subseteq DOMAIN BagRemove(tasks[n], t) \union {u}
    BY BagDomains
  <1>4. DOMAIN BagAdd(BagRemove(tasks[n], t), u) \subseteq DOMAIN tasks[n] \union {u}
    BY <1>2, <1>3
  <1>5. \A k \in Node : DOMAIN Spawn(n, u)[k] \subseteq DOMAIN tasks[k] \union {u}
    BY <1>1, SetNodeDomain DEF Spawn
  <1>6. \A k \in Node : DOMAIN Finish(n, t)[k] \subseteq DOMAIN tasks[k] \union {}
    BY <1>2, SetNodeDomain DEF Finish
  <1>7. \A k \in Node : DOMAIN Advance(n, t, u)[k] \subseteq DOMAIN tasks[k] \union {u}
    BY <1>4, SetNodeDomain DEF Advance
  <1> QED BY <1>5, <1>6, <1>7

\* The name of the file goes to another inode: no write is left.
LEMMA RenamedTasks ==
    ASSUME NodeBags(tasks, Task), NEW n \in Node, NEW u
    PROVE  /\ u \in Task => NodeBags(Renamed(n, u), Task)
           /\ \A k \in Node \ {n} : Renamed(n, u)[k] = tasks[k]
           /\ DOMAIN Renamed(n, u)[n]
                = {t \in DOMAIN tasks[n] : t.step # "write"} \union {u}
  <1> DEFINE B == WithoutWrites(tasks[n])
  <1>1. /\ BagOver(tasks[n], Task) /\ tasks = [k \in Node |-> tasks[k]]
        /\ Renamed(n, u) = [tasks EXCEPT ![n] = BagAdd(B, u)]
    BY DEF NodeBags, Renamed
  <1>2. BagOver(B, Task) /\ DOMAIN B = {t \in DOMAIN tasks[n] : t.step # "write"}
    BY <1>1 DEF BagOver, WithoutWrites, IsWrite
  <1> HIDE DEF B
  <1>3. u \in Task => BagOver(BagAdd(B, u), Task)
    BY <1>2, AddBag
  <1>4. DOMAIN BagAdd(B, u) = DOMAIN B \union {u}
    BY DEF BagAdd
  <1>5. u \in Task => NodeBags(Renamed(n, u), Task)
    BY <1>1, <1>3, SetNodeBag
  <1> QED BY <1>1, <1>2, <1>4, <1>5

\* Taking a message from the topic, and putting one on it.
LEMMA InboxTyped ==
    ASSUME NodeBags(inbox, Message), NEW n \in Node, NEW m
    PROVE  /\ NodeBags(Consume(n, m), Message)
           /\ m \in Message => NodeBags(Publication(n, m), Message)
  <1>1. NodeBags(Consume(n, m), Message)
    BY RemoveBag, SetNodeBag DEF NodeBags, Consume
  <1>2. ASSUME m \in Message PROVE NodeBags(Publication(n, m), Message)
    <2>1. \A k \in Node : BagOver(BagAdd(inbox[k], m), Message)
      BY <1>2, AddBag DEF NodeBags
    <2> QED BY <2>1 DEF NodeBags, Publication
  <1> QED BY <1>1, <1>2

LEMMA InboxDomain ==
    ASSUME NodeBags(inbox, Message), NEW n \in Node, NEW m
    PROVE  \A k \in Node :
             /\ DOMAIN Consume(n, m)[k] \subseteq DOMAIN inbox[k]
             /\ DOMAIN Publication(n, m)[k] \subseteq DOMAIN inbox[k] \union {m}
  <1>1. DOMAIN BagRemove(inbox[n], m) \subseteq DOMAIN inbox[n] \union {}
    BY BagDomains
  <1>2. \A k \in Node : DOMAIN Consume(n, m)[k] \subseteq DOMAIN inbox[k] \union {}
    BY <1>1, SetNodeDomain DEF Consume
  <1>3. \A k \in Node : DOMAIN BagAdd(inbox[k], m) \subseteq DOMAIN inbox[k] \union {m}
    BY BagDomains
  <1>4. \A k \in Node : DOMAIN Publication(n, m)[k] \subseteq DOMAIN inbox[k] \union {m}
    BY <1>3 DEF Publication
  <1> QED BY <1>2, <1>4

\* What the kernel makes of a change is a bag of goroutines again.
LEMMA NotifiedTyped ==
    ASSUME NEW B, BagOver(B, Task), NEW ts \in Notified(B)
    PROVE  BagOver(ts, Task)
  <1>1. StatStep \in Task
    BY DEF StatStep, Task, StatTask
  <1> QED BY <1>1, AddBag DEF Notified

-----------------------------------------------------------------------------
(* Type correctness.                                                        *)

LEMMA EventTyped ==
    ASSUME NEW s \in Snapshot, now \in Nat
    PROVE  EventOf(s) \in EventMsg
  BY UnixSecondsNat DEF EventOf, EventMsg, Snapshot

LEMMA NoSnapshotTyped == NoSnapshot \in Snapshot
  BY DEF NoSnapshot, Snapshot, Sum, Time, NoTime

LEMMA InitTyped == Init => TypeOK
  BY NoBag, BoundAssumption DEF Init, TypeOK, NodeBags, Sum, Time, NoTime

\* Each step of the code leaves every variable in its type.  A write is typed
\* because the file it goes to is there.
LEMMA StepTyped == TypeOK /\ WritesOpenFile /\ [Next]_vars => TypeOK'
  <1> SUFFICES ASSUME TypeOK, WritesOpenFile, [Next]_vars PROVE TypeOK'
    OBVIOUS
  <1> USE DEF TypeOK
  <1>now. now \in Nat /\ now \in Time
    BY BoundAssumption DEF Time
  <1>bags. \A n \in Node : BagOver(tasks[n], Task) /\ BagOver(inbox[n], Message)
    BY DEF NodeBags
  <1>tasks. \A n \in Node : \A t \in DOMAIN tasks[n] : t \in Task
    BY <1>bags DEF BagOver
  <1>inbox. \A n \in Node : \A m \in DOMAIN inbox[n] : m \in Message
    BY <1>bags DEF BagOver
  <1>1. ASSUME NEW n \in Writers, NEW c \in UserContent, UserWrite(n, c) PROVE TypeOK'
    <2>1. n \in Node /\ c \in Sum
      BY WritersAssumption, ContentAssumption DEF Sum
    <2>2. StatStep \in Task
      BY DEF StatStep, Task, StatTask
    <2>3. NodeBags(tasks', Task)
      BY <1>1, <2>1, <2>2, RenamedTasks DEF UserWrite
    <2> QED BY <1>1, <1>now, <2>1, <2>3, BoundAssumption DEF UserWrite
  <1>2. ASSUME NEW n \in Writers, UserDelete(n) PROVE TypeOK'
    <2>1. n \in Node
      BY WritersAssumption
    <2>2. [step |-> "publish", snap |-> NoSnapshot] \in Task
      BY NoSnapshotTyped DEF Task, EmitTask
    <2>3. NodeBags(tasks', Task)
      BY <1>2, <2>1, <2>2, RenamedTasks DEF UserDelete
    <2> QED BY <1>2, <2>1, <2>3, BoundAssumption DEF UserDelete, Sum, Time, NoTime
  <1>3. ASSUME NEW n \in Node, Stat(n) PROVE TypeOK'
    <2>1. CASE disk[n] = Absent
      <3>1. [step |-> "publish", snap |-> NoSnapshot] \in Task
        BY NoSnapshotTyped DEF Task, EmitTask
      <3>2. NodeBags(tasks', Task)
        BY <1>3, <2>1, <3>1, TasksTyped DEF Stat
      <3> QED BY <1>3, <3>2 DEF Stat
    <2>2. CASE disk[n] # Absent
      <3>1. Len(disk[n]) \in Nat
        BY <2>2, LenProperties DEF Sum, Content
      <3>2. [step |-> "sum", size |-> Len(disk[n]), mtime |-> modTime[n]] \in Task
        BY <3>1 DEF Task, SumTask
      <3>3. NodeBags(tasks', Task)
        BY <1>3, <2>2, <3>2, TasksTyped DEF Stat
      <3> QED BY <1>3, <3>3 DEF Stat
    <2> QED BY <2>1, <2>2
  <1>4. ASSUME NEW n \in Node, NEW t \in DOMAIN tasks[n], CalculateChecksum(n, t)
        PROVE TypeOK'
    <2>1. t \in SumTask
      BY <1>4, <1>tasks DEF CalculateChecksum, Task, StatTask, SumTask, EmitTask,
                            DecideTask, RequestTask, WriteTask
    <2>2. [step |-> "publish", snap |-> [sum |-> disk[n], size |-> t.size,
                                         mtime |-> t.mtime]] \in Task
      BY <2>1 DEF SumTask, Task, EmitTask, Snapshot
    <2>3. NodeBags(tasks', Task)
      BY <1>4, <2>2, TasksTyped DEF CalculateChecksum
    <2> QED BY <1>4, <2>3 DEF CalculateChecksum
  <1>5. ASSUME NEW n \in Node, NEW t \in DOMAIN tasks[n], PublishFileEvent(n, t)
        PROVE TypeOK'
    <2>1. t \in EmitTask
      BY <1>5, <1>tasks DEF PublishFileEvent, Task, StatTask, SumTask, EmitTask,
                            DecideTask, RequestTask, WriteTask
    <2>2. EventOf(t.snap) \in Message
      BY <2>1, <1>now, EventTyped DEF EmitTask, Message
    <2>3. [step |-> "record", snap |-> t.snap] \in Task
      BY <2>1 DEF EmitTask, Task
    <2>4. NodeBags(tasks', Task)
      BY <1>5, <2>3, TasksTyped DEF PublishFileEvent
    <2>5. NodeBags(inbox', Message)
      BY <1>5, <2>2, InboxTyped DEF PublishFileEvent
    <2> QED BY <1>5, <2>4, <2>5 DEF PublishFileEvent
  <1>6. ASSUME NEW n \in Node, NEW t \in DOMAIN tasks[n], UpdateFileState(n, t)
        PROVE TypeOK'
    <2>1. t \in EmitTask
      BY <1>6, <1>tasks DEF UpdateFileState, Task, StatTask, SumTask, EmitTask,
                            DecideTask, RequestTask, WriteTask
    <2>2. [sum |-> t.snap.sum, size |-> t.snap.size, modTime |-> t.snap.mtime,
           lastSync |-> now, status |-> "synced"] \in FileState
      BY <2>1, <1>now DEF EmitTask, Snapshot, FileState
    <2>3. NodeBags(tasks', Task)
      BY <1>6, TasksTyped DEF UpdateFileState
    <2> QED BY <1>6, <2>2, <2>3 DEF UpdateFileState
  <1>7. ASSUME NEW n \in Node, NEW m \in DOMAIN inbox[n], DeliverEvent(n, m)
        PROVE TypeOK'
    <2>1. m \in EventMsg
      BY <1>7, <1>inbox DEF DeliverEvent, Message, EventMsg, RequestMsg, ResponseMsg
    <2>2. [step |-> "detect", event |-> m] \in Task
      BY <2>1 DEF Task, DecideTask
    <2>3. NodeBags(tasks', Task)
      BY <1>7, <2>2, TasksTyped DEF DeliverEvent
    <2>4. NodeBags(inbox', Message)
      BY <1>7, InboxTyped DEF DeliverEvent
    <2> QED BY <1>7, <2>3, <2>4 DEF DeliverEvent
  <1>8. ASSUME NEW n \in Node, NEW t \in DOMAIN tasks[n], DetectConflict(n, t)
        PROVE TypeOK'
    <2>1. t \in DecideTask
      BY <1>8, <1>tasks DEF DetectConflict, Task, StatTask, SumTask, EmitTask,
                            DecideTask, RequestTask, WriteTask
    <2>2. RequestStep \in Task /\ [step |-> "resolve", event |-> t.event] \in Task
      BY <2>1 DEF RequestStep, Task, RequestTask, DecideTask
    <2>3. NodeBags(tasks', Task)
      BY <1>8, <2>2, TasksTyped DEF DetectConflict
    <2> QED BY <1>8, <2>3 DEF DetectConflict
  <1>9. ASSUME NEW n \in Node, NEW t \in DOMAIN tasks[n], ResolveConflict(n, t)
        PROVE TypeOK'
    <2>1. RequestStep \in Task
      BY DEF RequestStep, Task, RequestTask
    <2>2. NodeBags(tasks', Task)
      BY <1>9, <2>1, TasksTyped DEF ResolveConflict
    <2>3. MarkedConflict(n) \in FileState
      BY DEF MarkedConflict, FileState, Sum, Time, NoTime
    <2> QED BY <1>9, <2>2, <2>3 DEF ResolveConflict
  <1>10. ASSUME NEW n \in Node, RequestFile(n) PROVE TypeOK'
    <2>1. [type |-> "file_request"] \in Message
      BY DEF Message, RequestMsg
    <2>2. NodeBags(inbox', Message)
      BY <1>10, <2>1, InboxTyped DEF RequestFile
    <2>3. NodeBags(tasks', Task)
      BY <1>10, TasksTyped DEF RequestFile
    <2> QED BY <1>10, <2>2, <2>3, BoundAssumption DEF RequestFile
  <1>11. ASSUME NEW n \in Node, NEW m \in DOMAIN inbox[n], HandleFileRequest(n, m)
         PROVE TypeOK'
    <2> DEFINE rest == Consume(n, m)
               answer == [type |-> "file_response", data |-> disk[n]]
    <2>1. NodeBags(rest, Message)
      BY InboxTyped
    <2>2. disk[n] # Absent => answer \in Message
      BY DEF Message, ResponseMsg, Sum
    <2>3. \A r \in Node : disk[n] # Absent => BagOver(BagAdd(rest[r], answer), Message)
      BY <2>1, <2>2, AddBag DEF NodeBags
    <2>4. inbox' = [r \in Node |->
                      IF disk[n] # Absent /\ r \in Receivers(n)
                      THEN BagAdd(rest[r], answer) ELSE rest[r]]
      BY <1>11 DEF HandleFileRequest
    <2> HIDE DEF rest, answer
    <2>5. NodeBags(inbox', Message)
      BY <2>1, <2>3, <2>4 DEF NodeBags
    <2> QED BY <1>11, <2>5 DEF HandleFileRequest
  <1>12. ASSUME NEW n \in Node, NEW m \in DOMAIN inbox[n], HandleFileResponse(n, m)
         PROVE TypeOK'
    <2>1. m \in ResponseMsg
      BY <1>12, <1>inbox DEF HandleFileResponse, Message, EventMsg, RequestMsg, ResponseMsg
    <2> DEFINE u == [step |-> "write", data |-> m.data]
    <2>2. u \in Task
      BY <2>1 DEF Task, WriteTask, ResponseMsg
    <2>3. PICK ts \in Notified(tasks[n]) : tasks' = [tasks EXCEPT ![n] = BagAdd(ts, u)]
      BY <1>12 DEF HandleFileResponse
    <2>4. BagOver(BagAdd(ts, u), Task)
      BY <1>bags, <2>2, NotifiedTyped, AddBag
    <2>5. NodeBags(tasks', Task)
      BY <2>3, <2>4, SetNodeBag
    <2>6. NodeBags(inbox', Message)
      BY <1>12, InboxTyped DEF HandleFileResponse
    <2>7. << >> \in Sum
      BY EmptySeq DEF Sum, Content
    <2> QED BY <1>12, <1>now, <2>5, <2>6, <2>7 DEF HandleFileResponse
  <1>13. ASSUME NEW n \in Node, NEW t \in DOMAIN tasks[n], WriteData(n, t)
         PROVE TypeOK'
    <2>0. disk[n] # Absent
      BY <1>13 DEF WritesOpenFile, WriteData
    <2>1. t \in WriteTask
      BY <1>13, <1>tasks DEF WriteData, Task, StatTask, SumTask, EmitTask,
                             DecideTask, RequestTask, WriteTask
    <2>2. CASE t.data = << >>
      BY <1>13, <2>2, TasksTyped DEF WriteData
    <2>3. CASE t.data # << >>
      <3>1. Overlay(t.data, disk[n]) \in Sum
        BY <2>0, <2>1, OverlayContent DEF WriteTask, Sum
      <3>2. PICK ts \in Notified(BagRemove(tasks[n], t)) : tasks' = [tasks EXCEPT ![n] = ts]
        BY <1>13, <2>3 DEF WriteData
      <3>3. NodeBags(tasks', Task)
        BY <1>bags, <3>2, RemoveBag, NotifiedTyped, SetNodeBag
      <3> QED BY <1>13, <1>now, <2>3, <3>1, <3>3 DEF WriteData
    <2> QED BY <2>2, <2>3
  <1>14. ASSUME NEW n \in Node, NEW m \in DOMAIN inbox[n], Lose(n, m) PROVE TypeOK'
    BY <1>14, InboxTyped DEF Lose
  <1>15. ASSUME NEW n \in Node, NEW t \in DOMAIN tasks[n], PublishFails(n, t)
         PROVE TypeOK'
    BY <1>15, TasksTyped DEF PublishFails
  <1>16. ASSUME NEW n \in Node, Restart(n) PROVE TypeOK'
    <2>1. NodeBags(tasks', Task) /\ NodeBags(inbox', Message)
      BY <1>16, NoBag, SetNodeBag DEF Restart
    <2> QED BY <1>16, <2>1, BoundAssumption DEF Restart
  <1>17. ASSUME Tick PROVE TypeOK'
    BY <1>17, BoundAssumption DEF Tick
  <1>18. ASSUME UNCHANGED vars PROVE TypeOK'
    BY <1>18 DEF vars
  <1> QED
    BY <1>1, <1>2, <1>3, <1>4, <1>5, <1>6, <1>7, <1>8, <1>9, <1>10, <1>11, <1>12,
       <1>13, <1>14, <1>15, <1>16, <1>17, <1>18
    DEF Next, User, Watcher, Handler, Fault

-----------------------------------------------------------------------------
(* Writes go to files that are there.                                       *)

\* A step that starts no write and removes no file.
KeepsOpen ==
    \A k \in Node :
        /\ \A t \in DOMAIN tasks'[k] : t.step = "write" => t \in DOMAIN tasks[k]
        /\ disk'[k] = Absent => disk[k] = Absent

\* WritesOpenFile holds after every step: the only one that starts a write
\* has just created the file, the only one that removes a file drops them.
LEMMA StepOpen == TypeOK /\ WritesOpenFile /\ [Next]_vars => WritesOpenFile'
  <1> SUFFICES ASSUME TypeOK, WritesOpenFile, [Next]_vars PROVE WritesOpenFile'
    OBVIOUS
  <1>types. /\ NodeBags(tasks, Task)
            /\ disk = [k \in Node |-> disk[k]] /\ tasks = [k \in Node |-> tasks[k]]
    BY DEF TypeOK, NodeBags
  <1>keeps. KeepsOpen => WritesOpenFile'
    BY DEF KeepsOpen, WritesOpenFile
  <1>same. ASSUME NEW n \in Node, disk' = disk, NEW t, NEW u, u.step # "write",
                  \/ tasks' = tasks       \/ tasks' = Spawn(n, u)
                  \/ tasks' = Finish(n, t) \/ tasks' = Advance(n, t, u)
           PROVE  WritesOpenFile'
    <2>0. \A k \in Node :
            /\ DOMAIN Spawn(n, u)[k] \subseteq DOMAIN tasks[k] \union {u}
            /\ DOMAIN Finish(n, t)[k] \subseteq DOMAIN tasks[k]
            /\ DOMAIN Advance(n, t, u)[k] \subseteq DOMAIN tasks[k] \union {u}
      BY <1>types, TasksDomain
    <2>1. \A k \in Node : DOMAIN tasks'[k] \subseteq DOMAIN tasks[k] \union {u}
      BY <1>same, <2>0
    <2> QED BY <1>keeps, <1>same, <2>1 DEF KeepsOpen
  <1>1. ASSUME NEW n \in Writers, NEW c \in UserContent, UserWrite(n, c)
        PROVE WritesOpenFile'
    <2>1. n \in Node /\ c # Absent
      BY WritersAssumption, ContentAssumption, AbsentAssumption
    <2>2. \A k \in Node : disk'[k] = Absent => disk[k] = Absent
      BY <1>1, <1>types, <2>1 DEF UserWrite
    <2>3. \A k \in Node : DOMAIN tasks'[k] \subseteq DOMAIN tasks[k] \union {StatStep}
      BY <1>1, <1>types, <2>1, RenamedTasks DEF UserWrite
    <2> QED BY <1>keeps, <2>2, <2>3 DEF KeepsOpen, StatStep
  <1>2. ASSUME NEW n \in Writers, UserDelete(n) PROVE WritesOpenFile'
    <2>1. n \in Node
      BY WritersAssumption
    <2> DEFINE u == [step |-> "publish", snap |-> NoSnapshot]
    <2>2. tasks' = Renamed(n, u) /\ disk' = [disk EXCEPT ![n] = Absent] /\ u.step # "write"
      BY <1>2 DEF UserDelete
    <2> HIDE DEF u
    <2>3. \A t \in DOMAIN tasks'[n] : t.step # "write"
      BY <1>types, <2>1, <2>2, RenamedTasks
    <2>4. \A k \in Node : k # n => tasks'[k] = tasks[k] /\ disk'[k] = disk[k]
      BY <1>types, <2>1, <2>2, RenamedTasks
    <2> QED BY <2>3, <2>4 DEF WritesOpenFile
  <1>3. ASSUME NEW n \in Node, Stat(n) PROVE WritesOpenFile'
    <2>1. CASE disk[n] = Absent
      <3> DEFINE u == [step |-> "publish", snap |-> NoSnapshot]
      <3>1. tasks' = Advance(n, StatStep, u) /\ disk' = disk /\ u.step # "write"
        BY <1>3, <2>1 DEF Stat
      <3> HIDE DEF u
      <3> QED BY <1>same, <3>1
    <2>2. CASE disk[n] # Absent
      <3> DEFINE u == [step |-> "sum", size |-> Len(disk[n]), mtime |-> modTime[n]]
      <3>1. tasks' = Advance(n, StatStep, u) /\ disk' = disk /\ u.step # "write"
        BY <1>3, <2>2 DEF Stat
      <3> HIDE DEF u
      <3> QED BY <1>same, <3>1
    <2> QED BY <2>1, <2>2
  <1>4. ASSUME NEW n \in Node, NEW t \in DOMAIN tasks[n], CalculateChecksum(n, t)
        PROVE WritesOpenFile'
    BY <1>4, <1>same DEF CalculateChecksum
  <1>5. ASSUME NEW n \in Node, NEW t \in DOMAIN tasks[n], PublishFileEvent(n, t)
        PROVE WritesOpenFile'
    BY <1>5, <1>same DEF PublishFileEvent
  <1>6. ASSUME NEW n \in Node, NEW t \in DOMAIN tasks[n],
               UpdateFileState(n, t) \/ PublishFails(n, t)
        PROVE WritesOpenFile'
    BY <1>6, <1>same DEF UpdateFileState, PublishFails
  <1>7. ASSUME NEW n \in Node, NEW m \in DOMAIN inbox[n], DeliverEvent(n, m)
        PROVE WritesOpenFile'
    BY <1>7, <1>same DEF DeliverEvent
  <1>8. ASSUME NEW n \in Node, NEW t \in DOMAIN tasks[n], DetectConflict(n, t)
        PROVE WritesOpenFile'
    BY <1>8, <1>same DEF DetectConflict, RequestStep
  <1>9. ASSUME NEW n \in Node, NEW t \in DOMAIN tasks[n], ResolveConflict(n, t)
        PROVE WritesOpenFile'
    BY <1>9, <1>same DEF ResolveConflict, RequestStep
  <1>10. ASSUME NEW n \in Node, RequestFile(n) PROVE WritesOpenFile'
    BY <1>10, <1>same DEF RequestFile, RequestStep
  <1>11. ASSUME NEW n \in Node, NEW m \in DOMAIN inbox[n],
                HandleFileRequest(n, m) \/ Lose(n, m)
         PROVE WritesOpenFile'
    BY <1>11 DEF HandleFileRequest, Lose, WritesOpenFile
  <1>12. ASSUME NEW n \in Node, NEW m \in DOMAIN inbox[n], HandleFileResponse(n, m)
         PROVE WritesOpenFile'
    <2>1. disk' = [disk EXCEPT ![n] = << >>] /\ << >> # Absent
      BY <1>12, EmptySeq, AbsentAssumption DEF HandleFileResponse, Content
    <2>2. PICK B : tasks' = [tasks EXCEPT ![n] = B]
      BY <1>12 DEF HandleFileResponse
    <2>3. disk'[n] # Absent
      BY <1>types, <2>1
    <2>4. \A k \in Node : k # n => tasks'[k] = tasks[k] /\ disk'[k] = disk[k]
      BY <1>types, <2>1, <2>2
    <2> QED BY <2>3, <2>4 DEF WritesOpenFile
  <1>13. ASSUME NEW n \in Node, NEW t \in DOMAIN tasks[n], WriteData(n, t)
         PROVE WritesOpenFile'
    <2>1. disk[n] # Absent /\ t \in WriteTask
      BY <1>13, <1>types
      DEF WritesOpenFile, WriteData, NodeBags, BagOver, Task, StatTask, SumTask,
          EmitTask, DecideTask, RequestTask, WriteTask
    <2>2. CASE t.data = << >>
      <3>1. disk' = disk /\ tasks' = Finish(n, t)
        BY <1>13, <2>2 DEF WriteData
      <3>2. StatStep.step # "write"
        BY DEF StatStep
      <3> QED BY <1>same, <3>1, <3>2
    <2>3. CASE t.data # << >>
      <3>1. Overlay(t.data, disk[n]) # Absent
        BY <2>1, OverlayContent, AbsentAssumption DEF TypeOK, WriteTask, Sum
      <3>2. PICK B : tasks' = [tasks EXCEPT ![n] = B]
        BY <1>13, <2>3 DEF WriteData
      <3>3. \A k \in Node : /\ k = n => disk'[k] # Absent
                            /\ k # n => tasks'[k] = tasks[k] /\ disk'[k] = disk[k]
        BY <1>13, <1>types, <2>3, <3>1, <3>2 DEF WriteData
      <3> QED BY <3>3 DEF WritesOpenFile
    <2> QED BY <2>2, <2>3
  <1>14. ASSUME NEW n \in Node, Restart(n) PROVE WritesOpenFile'
    BY <1>14, <1>types, BagDomains DEF Restart, WritesOpenFile
  <1>15. ASSUME Tick \/ UNCHANGED vars PROVE WritesOpenFile'
    BY <1>15 DEF Tick, vars, WritesOpenFile
  <1> QED
    BY <1>1, <1>2, <1>3, <1>4, <1>5, <1>6, <1>7, <1>8, <1>9, <1>10, <1>11, <1>12,
       <1>13, <1>14, <1>15
    DEF Next, User, Watcher, Handler, Fault

\* Every variable keeps its type, and no goroutine writes to a file that a
\* user has removed (handleFileResponse, file_sync.go:551).
THEOREM TypeCorrect == Spec => [](TypeOK /\ WritesOpenFile)
  <1>1. Init => TypeOK /\ WritesOpenFile
    BY InitTyped, BagDomains DEF Init, WritesOpenFile
  <1>2. TypeOK /\ WritesOpenFile /\ [Next]_vars => (TypeOK /\ WritesOpenFile)'
    BY StepTyped, StepOpen
  <1> QED BY <1>1, <1>2, PTL DEF Spec

\* The typing half of it, for what the goroutines and messages of
\* internal/p2p/file_sync.go carry.
THEOREM WellTyped == Spec => []TypeOK
  BY TypeCorrect, PTL

-----------------------------------------------------------------------------
(* Agreement is stable.                                                     *)

\* A goroutine and a message that agree with the copies.
FitTask(t) == \/ t.step \in {"stat", "sum"}
              \/ t.step \in {"publish", "record"} /\ \A m \in Node : t.snap.sum = disk[m]
FitMessage(e) == e.type = "file_event" /\ \A m \in Node : e.sum = disk[m]
FitState(s) == s # NoState /\ \A m \in Node : s.sum = disk[m]

\* A step adds to what agrees only what agrees.
Fits ==
    /\ disk' = disk
    /\ \A k \in Node : \A t \in DOMAIN tasks'[k] : t \in DOMAIN tasks[k] \/ FitTask(t)
    /\ \A k \in Node : \A e \in DOMAIN inbox'[k] : e \in DOMAIN inbox[k] \/ FitMessage(e)
    /\ \A k \in Node : fileStates'[k] = fileStates[k] \/ FitState(fileStates'[k])

LEMMA ConvergedParts ==
    Converged <=>
      /\ \A n, m \in Node : disk[n] # Absent /\ disk[n] = disk[m]
      /\ \A n \in Node : FitState(fileStates[n])
      /\ \A n \in Node : \A t \in DOMAIN tasks[n] : FitTask(t)
      /\ \A n \in Node : \A e \in DOMAIN inbox[n] : FitMessage(e)
  BY DEF Converged, AgreesWith, FitState, FitTask, FitMessage

LEMMA FitsConverged == Converged /\ Fits => Converged'
  <1> SUFFICES ASSUME Converged, Fits PROVE Converged'
    OBVIOUS
  <1>1. \A n \in Node : /\ FitState(fileStates'[n])
                        /\ \A t \in DOMAIN tasks'[n] : FitTask(t)
                        /\ \A e \in DOMAIN inbox'[n] : FitMessage(e)
    BY ConvergedParts DEF Fits
  <1>2. disk' = disk /\ \A n, m \in Node : disk[n] # Absent /\ disk[n] = disk[m]
    BY ConvergedParts DEF Fits
  <1> QED BY <1>1, <1>2 DEF Converged, AgreesWith, FitState, FitTask, FitMessage

\* Of the steps that are neither a user's nor a crash, those that could break
\* an agreement (a request, a response, a write) are not enabled in it.
LEMMA StepFits ==
    TypeOK /\ Converged /\ [Next]_vars /\ ops' = ops /\ restarts' = restarts => Fits
  <1> SUFFICES ASSUME TypeOK, Converged, [Next]_vars, ops' = ops, restarts' = restarts
               PROVE  Fits
    OBVIOUS
  <1>types. /\ NodeBags(tasks, Task) /\ NodeBags(inbox, Message)
            /\ fileStates = [k \in Node |-> fileStates[k]]
            /\ ops \in Nat /\ restarts \in Nat
    BY BoundAssumption DEF TypeOK
  <1>disk. \A n, m \in Node : disk[n] # Absent /\ disk[n] = disk[m]
    BY ConvergedParts
  <1>task. \A n \in Node : \A t \in DOMAIN tasks[n] : FitTask(t)
    BY ConvergedParts
  <1>msg. \A n \in Node : \A e \in DOMAIN inbox[n] : FitMessage(e)
    BY ConvergedParts
  <1>state. \A n \in Node : FitState(fileStates[n])
    BY ConvergedParts
  <1>tasks. ASSUME NEW n \in Node, disk' = disk, inbox' = inbox, fileStates' = fileStates,
                   NEW t, NEW u, FitTask(u),
                   tasks' = Finish(n, t) \/ tasks' = Advance(n, t, u)
            PROVE  Fits
    <2>1. \A k \in Node : /\ DOMAIN Finish(n, t)[k] \subseteq DOMAIN tasks[k]
                          /\ DOMAIN Advance(n, t, u)[k] \subseteq DOMAIN tasks[k] \union {u}
      BY <1>types, TasksDomain
    <2> QED BY <1>tasks, <2>1 DEF Fits
  <1>inbox. ASSUME NEW n \in Node, NEW m, disk' = disk, tasks' = tasks,
                   fileStates' = fileStates, inbox' = Consume(n, m)
            PROVE  Fits
    <2>1. \A k \in Node : DOMAIN Consume(n, m)[k] \subseteq DOMAIN inbox[k]
      BY <1>types, InboxDomain
    <2> QED BY <1>inbox, <2>1 DEF Fits
  <1>1. ASSUME NEW n \in Writers, User(n) PROVE FALSE
    BY <1>1, <1>types DEF User, UserWrite, UserDelete
  <1>2. ASSUME NEW n \in Node, Restart(n) PROVE FALSE
    BY <1>2, <1>types DEF Restart
  <1>3. ASSUME NEW n \in Node, Stat(n) PROVE Fits
    <2> DEFINE u == [step |-> "sum", size |-> Len(disk[n]), mtime |-> modTime[n]]
    <2>1. tasks' = Advance(n, StatStep, u) /\ UNCHANGED <<disk, inbox, fileStates>>
      BY <1>3, <1>disk DEF Stat
    <2>2. FitTask(u)
      BY DEF FitTask
    <2> HIDE DEF u
    <2> QED BY <1>tasks, <2>1, <2>2
  <1>4. ASSUME NEW n \in Node, NEW t \in DOMAIN tasks[n], CalculateChecksum(n, t) PROVE Fits
    <2> DEFINE u == [step |-> "publish", snap |-> [sum |-> disk[n], size |-> t.size,
                                                   mtime |-> t.mtime]]
    <2>1. tasks' = Advance(n, t, u) /\ UNCHANGED <<disk, inbox, fileStates>>
      BY <1>4 DEF CalculateChecksum
    <2>2. FitTask(u)
      BY <1>disk DEF FitTask
    <2> HIDE DEF u
    <2> QED BY <1>tasks, <2>1, <2>2
  <1>5. ASSUME NEW n \in Node, NEW t \in DOMAIN tasks[n], PublishFileEvent(n, t) PROVE Fits
    <2> DEFINE u == [step |-> "record", snap |-> t.snap]
    <2>1. FitTask(t) /\ t.step = "publish"
      BY <1>5, <1>task DEF PublishFileEvent
    <2>2. FitTask(u) /\ FitMessage(EventOf(t.snap))
      BY <2>1 DEF FitTask, FitMessage, EventOf
    <2>3. /\ tasks' = Advance(n, t, u) /\ inbox' = Publication(n, EventOf(t.snap))
          /\ UNCHANGED <<disk, fileStates>>
      BY <1>5 DEF PublishFileEvent
    <2> HIDE DEF u
    <2>4. \A k \in Node : /\ DOMAIN tasks'[k] \subseteq DOMAIN tasks[k] \union {u}
                          /\ DOMAIN inbox'[k] \subseteq DOMAIN inbox[k] \union {EventOf(t.snap)}
      BY <1>types, <2>3, TasksDomain, InboxDomain
    <2> QED BY <2>2, <2>3, <2>4 DEF Fits
  <1>6. ASSUME NEW n \in Node, NEW t \in DOMAIN tasks[n], UpdateFileState(n, t) PROVE Fits
    <2>1. FitTask(t) /\ t.step = "record"
      BY <1>6, <1>task DEF UpdateFileState
    <2>2. fileStates'[n].sum = t.snap.sum /\ fileStates'[n] \in FileState
      <3>1. t \in EmitTask
        BY <1>types, <2>1 DEF NodeBags, BagOver, Task, StatTask, SumTask, EmitTask,
                              DecideTask, RequestTask, WriteTask
      <3>2. now \in Time
        BY BoundAssumption DEF TypeOK, Time
      <3> QED BY <1>6, <1>types, <3>1, <3>2 DEF UpdateFileState, FileState, EmitTask, Snapshot
    <2>3. FitState(fileStates'[n])
      BY <2>1, <2>2, NoStateAssumption DEF FitTask, FitState
    <2>4. \A k \in Node : k # n => fileStates'[k] = fileStates[k]
      BY <1>6, <1>types DEF UpdateFileState
    <2>5. \A k \in Node : DOMAIN tasks'[k] \subseteq DOMAIN tasks[k]
      BY <1>6, <1>types, TasksDomain DEF UpdateFileState
    <2>6. disk' = disk /\ inbox' = inbox
      BY <1>6 DEF UpdateFileState
    <2> QED BY <2>3, <2>4, <2>5, <2>6 DEF Fits
  <1>7. ASSUME NEW n \in Node, NEW m \in DOMAIN inbox[n], DeliverEvent(n, m) PROVE Fits
    <2>1. ~ShouldSync(n, m)
      BY <1>msg, <1>state DEF ShouldSync, FitMessage, FitState
    <2> QED BY <1>7, <1>inbox, <2>1 DEF DeliverEvent
  <1>8. ASSUME NEW n \in Node, NEW t \in DOMAIN tasks[n],
               DetectConflict(n, t) \/ ResolveConflict(n, t) \/ WriteData(n, t)
        PROVE FALSE
    BY <1>8, <1>task DEF DetectConflict, ResolveConflict, WriteData, FitTask
  <1>9. ASSUME NEW n \in Node, RequestFile(n) PROVE FALSE
    <2>1. RequestStep \in DOMAIN tasks[n]
      BY <1>9 DEF RequestFile, BagIn, BagToSet
    <2> QED BY <1>task, <2>1 DEF RequestStep, FitTask
  <1>10. ASSUME NEW n \in Node, NEW m \in DOMAIN inbox[n],
                HandleFileRequest(n, m) \/ HandleFileResponse(n, m)
         PROVE FALSE
    BY <1>10, <1>msg DEF HandleFileRequest, HandleFileResponse, FitMessage
  <1>11. ASSUME NEW n \in Node, NEW m \in DOMAIN inbox[n], Lose(n, m) PROVE Fits
    BY <1>11, <1>inbox DEF Lose
  <1>12. ASSUME NEW n \in Node, NEW t \in DOMAIN tasks[n], PublishFails(n, t) PROVE Fits
    BY <1>12, <1>tasks, <1>task DEF PublishFails
  <1>13. ASSUME Tick \/ UNCHANGED vars PROVE Fits
    BY <1>13 DEF Tick, vars, Fits
  <1> QED
    BY <1>1, <1>2, <1>3, <1>4, <1>5, <1>6, <1>7, <1>8, <1>9, <1>10, <1>11, <1>12, <1>13
    DEF Next, Watcher, Handler, Fault

\* When all nodes have, have recorded and are being told the same content,
\* only a user or a crash changes that: the events a transfer causes start no
\* further transfer (shouldSyncFile, file_sync.go:574), for every number of
\* nodes, every conflict resolution and a topic that loses what it likes.
THEOREM AgreementStable == Spec => ConvergedStays
  <1>1. TypeOK /\ [Next]_vars =>
          (Converged /\ ops' = ops /\ restarts' = restarts => Converged' /\ disk' = disk)
    BY StepFits, FitsConverged DEF Fits
  <1>2. Spec => []TypeOK
    BY TypeCorrect, PTL
  <1> QED BY <1>1, <1>2, PTL DEF Spec, ConvergedStays
=============================================================================
