------------------------ MODULE FileSyncHistoryProofs -------------------------
(***************************************************************************)
(* FileSync implements ReplicatedFile, for every value of the constants.   *)
(***************************************************************************)
EXTENDS FileSyncHistory, FileSyncProofs

\* What was held by a node other than n.
Foreign(n) == UNION {held[m] : m \in Node \ {n}}

TaskTraced(n, t) ==
    /\ t.step \in {"publish", "record"} => t.snap.sum \in held[n] \union {Absent}
    /\ t.step = "write" => t.data \in Foreign(n)

MessageTraced(n, m) == m.type = "file_response" => m.data \in Foreign(n)

\* The strengthening: copies, checksums on their way to the map and contents on
\* their way to a copy are all accounted for in held.
Traced ==
    /\ \A n \in Node : disk[n] \in held[n] \union {Absent}
    /\ \A n \in Node : fileStates[n] # NoState => fileStates[n].sum \in held[n] \union {Absent}
    /\ \A n \in Node : \A t \in DOMAIN tasks[n] : TaskTraced(n, t)
    /\ \A n \in Node : \A m \in DOMAIN inbox[n] : MessageTraced(n, m)

Inv == TypeOK /\ WritesOpenFile /\ held \in [Node -> SUBSET Content] /\ Traced

LEMMA HSpecSpec == HSpec => Spec
  <1>1. HInit => Init
    BY DEF HInit
  <1>2. [HNext]_hvars => [Next]_vars
    BY DEF HNext, hvars, vars
  <1> QED BY <1>1, <1>2, PTL DEF HSpec, Spec

\* What a step must leave: the goroutines and messages are old or traced, and
\* what a node had it has had.
LEMMA TracedStep ==
    ASSUME Traced, disk \in [Node -> Sum], held \in [Node -> SUBSET Content],
           disk' \in [Node -> Sum],
           held' = [n \in Node |-> held[n] \union ({disk'[n]} \ {Absent})],
           \A n \in Node : \A t \in DOMAIN tasks'[n] : t \in DOMAIN tasks[n] \/ TaskTraced(n, t),
           \A n \in Node : \A m \in DOMAIN inbox'[n] : m \in DOMAIN inbox[n] \/ MessageTraced(n, m),
           \A n \in Node : fileStates'[n] = fileStates[n] \/
                           (fileStates'[n] # NoState => fileStates'[n].sum \in held[n] \union {Absent})
    PROVE  held' \in [Node -> SUBSET Content] /\ Traced'
  <1>1. \A n \in Node : held[n] \subseteq held'[n]
    OBVIOUS
  <1>2. \A n \in Node : Foreign(n) \subseteq Foreign(n)'
    BY <1>1 DEF Foreign
  <1>3. \A n \in Node : \A t : TaskTraced(n, t) => TaskTraced(n, t)'
    BY <1>1, <1>2 DEF TaskTraced
  <1>4. \A n \in Node : \A m : MessageTraced(n, m) => MessageTraced(n, m)'
    BY <1>2 DEF MessageTraced
  <1>5. held' \in [Node -> SUBSET Content]
    BY DEF Sum
  <1>6. \A n \in Node : disk'[n] \in held'[n] \union {Absent}
    OBVIOUS
  <1>7. \A n \in Node : \A t \in DOMAIN tasks'[n] : TaskTraced(n, t)'
    BY <1>3 DEF Traced
  <1>8. \A n \in Node : \A m \in DOMAIN inbox'[n] : MessageTraced(n, m)'
    BY <1>4 DEF Traced
  <1>9. \A n \in Node : fileStates'[n] # NoState => fileStates'[n].sum \in held'[n] \union {Absent}
    BY <1>1 DEF Traced
  <1> QED BY <1>5, <1>6, <1>7, <1>8, <1>9 DEF Traced

\* What TracedStep asks of the goroutines, the messages and the records.
Accounted ==
    /\ \A n \in Node : \A t \in DOMAIN tasks'[n] : t \in DOMAIN tasks[n] \/ TaskTraced(n, t)
    /\ \A n \in Node : \A m \in DOMAIN inbox'[n] : m \in DOMAIN inbox[n] \/ MessageTraced(n, m)
    /\ \A n \in Node : fileStates'[n] = fileStates[n] \/
                       (fileStates'[n] # NoState => fileStates'[n].sum \in held[n] \union {Absent})

LEMMA StepAccounted == Inv /\ [Next]_vars => Accounted
  <1> SUFFICES ASSUME Inv, [Next]_vars PROVE Accounted
    OBVIOUS
  <1>types. /\ NodeBags(tasks, Task) /\ NodeBags(inbox, Message)
            /\ tasks = [k \in Node |-> tasks[k]] /\ inbox = [k \in Node |-> inbox[k]]
            /\ fileStates = [k \in Node |-> fileStates[k]]
    BY DEF Inv, TypeOK, NodeBags
  <1>traced. Traced
    BY DEF Inv
  <1>tasks. ASSUME NEW n \in Node, inbox' = inbox, fileStates' = fileStates,
                   NEW t, NEW u, TaskTraced(n, u),
                   \/ tasks' = tasks        \/ tasks' = Spawn(n, u)
                   \/ tasks' = Finish(n, t) \/ tasks' = Advance(n, t, u)
            PROVE  Accounted
    <2>1. \A k \in Node :
            /\ DOMAIN Spawn(n, u)[k] \subseteq DOMAIN tasks[k] \union {u}
            /\ DOMAIN Finish(n, t)[k] \subseteq DOMAIN tasks[k]
            /\ DOMAIN Advance(n, t, u)[k] \subseteq DOMAIN tasks[k] \union {u}
      BY <1>types, TasksDomain
    <2>2. \A k \in Node : k # n => /\ Spawn(n, u)[k] = tasks[k]
                                  /\ Finish(n, t)[k] = tasks[k]
                                  /\ Advance(n, t, u)[k] = tasks[k]
      BY <1>types DEF Spawn, Finish, Advance
    <2>3. \A k \in Node : k # n => tasks'[k] = tasks[k]
      BY <1>tasks, <2>2
    <2>4. DOMAIN tasks'[n] \subseteq DOMAIN tasks[n] \union {u}
      BY <1>tasks, <2>1
    <2> QED BY <1>tasks, <2>3, <2>4 DEF Accounted
  <1>fresh. \A n \in Node : TaskTraced(n, StatStep) /\ TaskTraced(n, RequestStep)
    BY DEF TaskTraced, StatStep, RequestStep
  <1>empty. \A n \in Node : TaskTraced(n, [step |-> "publish", snap |-> NoSnapshot])
    BY DEF TaskTraced, NoSnapshot
  <1>renamed. ASSUME NEW n \in Node, NEW u, TaskTraced(n, u),
                     inbox' = inbox, fileStates' = fileStates, tasks' = Renamed(n, u)
              PROVE  Accounted
    <2>1. /\ \A k \in Node \ {n} : tasks'[k] = tasks[k]
          /\ DOMAIN tasks'[n] \subseteq DOMAIN tasks[n] \union {u}
      BY <1>renamed, <1>types, RenamedTasks
    <2> QED BY <1>renamed, <2>1 DEF Accounted
  <1>1. ASSUME NEW n \in Writers, NEW c \in UserContent, UserWrite(n, c) PROVE Accounted
    BY <1>1, <1>renamed, <1>fresh, WritersAssumption DEF UserWrite
  <1>2. ASSUME NEW n \in Writers, UserDelete(n) PROVE Accounted
    BY <1>2, <1>renamed, <1>empty, WritersAssumption DEF UserDelete
  <1>3. ASSUME NEW n \in Node, Stat(n) PROVE Accounted
    <2> DEFINE u == [step |-> "sum", size |-> Len(disk[n]), mtime |-> modTime[n]]
               v == [step |-> "publish", snap |-> NoSnapshot]
    <2>1. TaskTraced(n, u)
      BY DEF TaskTraced
    <2>2. TaskTraced(n, v)
      BY <1>empty
    <2>3. /\ tasks' = Advance(n, StatStep, u) \/ tasks' = Advance(n, StatStep, v)
          /\ inbox' = inbox /\ fileStates' = fileStates
      BY <1>3 DEF Stat
    <2> HIDE DEF u, v
    <2> QED BY <1>tasks, <2>1, <2>2, <2>3
  <1>4. ASSUME NEW n \in Node, NEW t \in DOMAIN tasks[n], CalculateChecksum(n, t)
        PROVE Accounted
    <2> DEFINE u == [step |-> "publish", snap |-> [sum |-> disk[n], size |-> t.size,
                                                   mtime |-> t.mtime]]
    <2>1. TaskTraced(n, u)
      BY <1>traced DEF TaskTraced, Traced
    <2>2. /\ tasks' = Advance(n, t, u) /\ inbox' = inbox /\ fileStates' = fileStates
      BY <1>4 DEF CalculateChecksum
    <2> HIDE DEF u
    <2> QED BY <1>tasks, <2>1, <2>2
  <1>5. ASSUME NEW n \in Node, NEW t \in DOMAIN tasks[n], PublishFileEvent(n, t)
        PROVE Accounted
    <2> DEFINE u == [step |-> "record", snap |-> t.snap]
    <2>1. TaskTraced(n, t) /\ t.step = "publish"
      BY <1>5, <1>traced DEF PublishFileEvent, Traced
    <2>2. TaskTraced(n, u)
      BY <2>1 DEF TaskTraced
    <2>3. \A k \in Node : MessageTraced(k, EventOf(t.snap))
      BY DEF MessageTraced, EventOf
    <2>4. /\ tasks' = Advance(n, t, u) /\ inbox' = Publication(n, EventOf(t.snap))
          /\ fileStates' = fileStates
      BY <1>5 DEF PublishFileEvent
    <2> HIDE DEF u
    <2>5. \A k \in Node : DOMAIN inbox'[k] \subseteq DOMAIN inbox[k] \union {EventOf(t.snap)}
      BY <1>types, <2>4, InboxDomain
    <2>6. DOMAIN tasks'[n] \subseteq DOMAIN tasks[n] \union {u}
      BY <1>types, <2>4, TasksDomain
    <2>7. \A k \in Node : k # n => tasks'[k] = tasks[k]
      BY <1>types, <2>4 DEF Advance
    <2> QED BY <2>2, <2>3, <2>4, <2>5, <2>6, <2>7 DEF Accounted
  <1>6. ASSUME NEW n \in Node, NEW t \in DOMAIN tasks[n], UpdateFileState(n, t)
        PROVE Accounted
    <2>1. TaskTraced(n, t) /\ t.step = "record"
      BY <1>6, <1>traced DEF UpdateFileState, Traced
    <2>2. fileStates'[n].sum = t.snap.sum /\ \A k \in Node : k # n => fileStates'[k] = fileStates[k]
      BY <1>6, <1>types DEF UpdateFileState
    <2>3. fileStates'[n].sum \in held[n] \union {Absent}
      BY <2>1, <2>2 DEF TaskTraced
    <2>4. \A k \in Node : DOMAIN tasks'[k] \subseteq DOMAIN tasks[k]
      BY <1>6, <1>types, TasksDomain DEF UpdateFileState
    <2>5. inbox' = inbox
      BY <1>6 DEF UpdateFileState
    <2> QED BY <2>2, <2>3, <2>4, <2>5 DEF Accounted
  <1>7. ASSUME NEW n \in Node, NEW m \in DOMAIN inbox[n], DeliverEvent(n, m) PROVE Accounted
    <2> DEFINE u == [step |-> "detect", event |-> m]
    <2>1. TaskTraced(n, u)
      BY DEF TaskTraced
    <2>2. /\ tasks' = Spawn(n, u) \/ tasks' = tasks
          /\ inbox' = Consume(n, m) /\ fileStates' = fileStates
      BY <1>7 DEF DeliverEvent
    <2> HIDE DEF u
    <2>3. \A k \in Node : DOMAIN inbox'[k] \subseteq DOMAIN inbox[k]
      BY <1>types, <2>2, InboxDomain
    <2>4. DOMAIN Spawn(n, u)[n] \subseteq DOMAIN tasks[n] \union {u}
      BY <1>types, TasksDomain
    <2>5. \A k \in Node : k # n => Spawn(n, u)[k] = tasks[k]
      BY <1>types DEF Spawn
    <2> QED BY <2>1, <2>2, <2>3, <2>4, <2>5 DEF Accounted
  <1>8. ASSUME NEW n \in Node, NEW t \in DOMAIN tasks[n], DetectConflict(n, t)
        PROVE Accounted
    <2> DEFINE u == [step |-> "resolve", event |-> t.event]
    <2>1. TaskTraced(n, u)
      BY DEF TaskTraced
    <2>2. /\ tasks' = Advance(n, t, u) \/ tasks' = Advance(n, t, RequestStep)
          /\ inbox' = inbox /\ fileStates' = fileStates
      BY <1>8 DEF DetectConflict
    <2> HIDE DEF u
    <2> QED BY <1>tasks, <1>fresh, <2>1, <2>2
  <1>9. ASSUME NEW n \in Node, NEW t \in DOMAIN tasks[n], ResolveConflict(n, t)
        PROVE Accounted
    <2>1. \A k \in Node : fileStates'[k] = fileStates[k]
                          \/ (fileStates'[k] # NoState => fileStates'[k].sum \in held[k] \union {Absent})
      <3>1. MarkedConflict(n).sum \in held[n] \union {Absent}
        <4>1. CASE fileStates[n] = NoState
          BY <4>1 DEF MarkedConflict
        <4>2. CASE fileStates[n] # NoState
          <5>1. fileStates[n] \in FileState /\ fileStates[n].sum \in held[n] \union {Absent}
            BY <1>traced, <4>2 DEF Traced, Inv, TypeOK
          <5>2. MarkedConflict(n).sum = fileStates[n].sum
            BY <4>2, <5>1 DEF MarkedConflict, FileState
          <5> QED BY <5>1, <5>2
        <4> QED BY <4>1, <4>2
      <3>2. fileStates' = fileStates \/ fileStates' = [fileStates EXCEPT ![n] = MarkedConflict(n)]
        BY <1>9 DEF ResolveConflict
      <3> QED BY <1>types, <3>1, <3>2
    <2>2. /\ tasks' = Advance(n, t, RequestStep) \/ tasks' = Finish(n, t)
          /\ inbox' = inbox
      BY <1>9 DEF ResolveConflict
    <2>3. /\ DOMAIN Advance(n, t, RequestStep)[n] \subseteq DOMAIN tasks[n] \union {RequestStep}
          /\ DOMAIN Finish(n, t)[n] \subseteq DOMAIN tasks[n]
      BY <1>types, TasksDomain
    <2>4. \A k \in Node : k # n => tasks'[k] = tasks[k]
      BY <1>types, <2>2 DEF Advance, Finish
    <2>5. DOMAIN tasks'[n] \subseteq DOMAIN tasks[n] \union {RequestStep}
      BY <2>2, <2>3
    <2> QED BY <1>fresh, <2>1, <2>2, <2>4, <2>5 DEF Accounted
  <1>10. ASSUME NEW n \in Node, RequestFile(n) PROVE Accounted
    <2> DEFINE q == [type |-> "file_request"]
    <2>1. /\ tasks' = Finish(n, RequestStep) /\ inbox' = Publication(n, q)
          /\ fileStates' = fileStates
      BY <1>10 DEF RequestFile
    <2>2. \A k \in Node : MessageTraced(k, q)
      BY DEF MessageTraced
    <2> HIDE DEF q
    <2>3. \A k \in Node : /\ DOMAIN tasks'[k] \subseteq DOMAIN tasks[k]
                          /\ DOMAIN inbox'[k] \subseteq DOMAIN inbox[k] \union {q}
      BY <1>types, <2>1, TasksDomain, InboxDomain
    <2> QED BY <2>1, <2>2, <2>3 DEF Accounted
  <1>11. ASSUME NEW n \in Node, NEW m \in DOMAIN inbox[n], HandleFileRequest(n, m)
         PROVE Accounted
    <2> DEFINE rest == Consume(n, m)
               answer == [type |-> "file_response", data |-> disk[n]]
    <2>1. \A r \in Node : DOMAIN rest[r] \subseteq DOMAIN inbox[r]
      BY <1>types, InboxDomain
    <2>2. \A r \in Receivers(n) : disk[n] # Absent => MessageTraced(r, answer)
      BY <1>traced DEF Receivers, MessageTraced, Foreign, Traced
    <2>3. \A r \in Node : DOMAIN BagAdd(rest[r], answer) \subseteq DOMAIN rest[r] \union {answer}
      BY BagDomains
    <2>4. /\ inbox' = [r \in Node |->
                      IF disk[n] # Absent /\ r \in Receivers(n)
                      THEN BagAdd(rest[r], answer) ELSE rest[r]]
          /\ tasks' = tasks /\ fileStates' = fileStates
      BY <1>11 DEF HandleFileRequest
    <2> HIDE DEF rest, answer
    <2>5. \A r \in Node : \A e \in DOMAIN inbox'[r] :
            e \in DOMAIN inbox[r] \/ MessageTraced(r, e)
      BY <2>1, <2>2, <2>3, <2>4
    <2> QED BY <2>4, <2>5 DEF Accounted
  <1>12. ASSUME NEW n \in Node, NEW m \in DOMAIN inbox[n], HandleFileResponse(n, m)
         PROVE Accounted
    <2> DEFINE u == [step |-> "write", data |-> m.data]
    <2>1. TaskTraced(n, u)
      BY <1>12, <1>traced DEF HandleFileResponse, Traced, MessageTraced, TaskTraced
    <2>2. /\ inbox' = Consume(n, m) /\ fileStates' = fileStates
          /\ \E ts \in Notified(tasks[n]) : tasks' = [tasks EXCEPT ![n] = BagAdd(ts, u)]
      BY <1>12 DEF HandleFileResponse
    <2> HIDE DEF u
    <2>3. PICK ts \in Notified(tasks[n]) : tasks' = [tasks EXCEPT ![n] = BagAdd(ts, u)]
      BY <2>2
    <2>4. DOMAIN ts \subseteq DOMAIN tasks[n] \union {StatStep}
      BY <2>3, BagDomains DEF Notified
    <2>5. DOMAIN BagAdd(ts, u) \subseteq DOMAIN ts \union {u}
      BY BagDomains
    <2>6. tasks'[n] = BagAdd(ts, u) /\ \A k \in Node : k # n => tasks'[k] = tasks[k]
      BY <1>types, <2>3
    <2>7. \A k \in Node : DOMAIN inbox'[k] \subseteq DOMAIN inbox[k]
      BY <1>types, <2>2, InboxDomain
    <2> QED BY <1>fresh, <2>1, <2>2, <2>4, <2>5, <2>6, <2>7 DEF Accounted
  <1>13. ASSUME NEW n \in Node, NEW t \in DOMAIN tasks[n], WriteData(n, t) PROVE Accounted
    <2>1. CASE t.data = << >>
      <3>1. tasks' = Finish(n, t) /\ inbox' = inbox /\ fileStates' = fileStates
        BY <1>13, <2>1 DEF WriteData
      <3> QED BY <1>tasks, <1>fresh, <3>1
    <2>2. CASE t.data # << >>
      <3> DEFINE rest == BagRemove(tasks[n], t)
      <3>1. PICK ts \in Notified(rest) : tasks' = [tasks EXCEPT ![n] = ts]
        BY <1>13, <2>2 DEF WriteData
      <3>2. DOMAIN rest \subseteq DOMAIN tasks[n]
        BY BagDomains
      <3>3. DOMAIN ts \subseteq DOMAIN rest \union {StatStep}
        BY <3>1, BagDomains DEF Notified
      <3>4. tasks'[n] = ts /\ \A k \in Node : k # n => tasks'[k] = tasks[k]
        BY <1>types, <3>1
      <3>5. inbox' = inbox /\ fileStates' = fileStates
        BY <1>13 DEF WriteData
      <3> HIDE DEF rest
      <3> QED BY <1>fresh, <3>2, <3>3, <3>4, <3>5 DEF Accounted
    <2> QED BY <2>1, <2>2
  <1>14. ASSUME NEW n \in Node, NEW m \in DOMAIN inbox[n], Lose(n, m) PROVE Accounted
    <2>1. \A k \in Node : DOMAIN inbox'[k] \subseteq DOMAIN inbox[k]
      BY <1>14, <1>types, InboxDomain DEF Lose
    <2> QED BY <1>14, <2>1 DEF Lose, Accounted
  <1>15. ASSUME NEW n \in Node, NEW t \in DOMAIN tasks[n], PublishFails(n, t)
         PROVE Accounted
    BY <1>15, <1>tasks, <1>fresh DEF PublishFails
  <1>16. ASSUME NEW n \in Node, Restart(n) PROVE Accounted
    BY <1>16, <1>types, BagDomains DEF Restart, Accounted
  <1>17. ASSUME Tick \/ UNCHANGED vars PROVE Accounted
    BY <1>17 DEF Tick, vars, Accounted
  <1> QED
    BY <1>1, <1>2, <1>3, <1>4, <1>5, <1>6, <1>7, <1>8, <1>9, <1>10, <1>11, <1>12,
       <1>13, <1>14, <1>15, <1>16, <1>17
    DEF Next, User, Watcher, Handler, Fault

LEMMA InvHolds == HSpec => []Inv
  <1>1. HInit /\ TypeOK /\ WritesOpenFile => Inv
    BY BagDomains DEF HInit, Init, Inv, Traced
  <1>2. Inv /\ [HNext]_hvars /\ (TypeOK /\ WritesOpenFile)' => Inv'
    <2> SUFFICES ASSUME Inv, [HNext]_hvars, TypeOK', WritesOpenFile' PROVE Inv'
      OBVIOUS
    <2>1. CASE HNext
      <3>1. [Next]_vars /\ held' = [n \in Node |-> held[n] \union ({disk'[n]} \ {Absent})]
        BY <2>1 DEF HNext
      <3>2. Accounted
        BY <3>1, StepAccounted
      <3>3. disk \in [Node -> Sum] /\ disk' \in [Node -> Sum]
        BY DEF Inv, TypeOK
      <3>4. held' \in [Node -> SUBSET Content] /\ Traced'
        BY <3>1, <3>2, <3>3, TracedStep DEF Accounted, Inv
      <3> QED BY <3>4 DEF Inv
    <2>2. CASE UNCHANGED hvars
      BY <2>2 DEF hvars, Inv, Traced, TaskTraced, MessageTraced, Foreign
    <2> QED BY <2>1, <2>2
  <1>3. HSpec => [](TypeOK /\ WritesOpenFile)
    BY HSpecSpec, TypeCorrect, PTL
  <1> QED BY <1>1, <1>2, <1>3, PTL DEF HSpec

-----------------------------------------------------------------------------
(* Refinement.                                                              *)

\* A copy that stays leaves the history as it is; a copy that becomes c adds c.
LEMMA HistoryStep ==
    ASSUME Inv, held' = [n \in Node |-> held[n] \union ({disk'[n]} \ {Absent})]
    PROVE  /\ disk' = disk => held' = held
           /\ \A n \in Node : \A c \in Content :
                disk' = [disk EXCEPT ![n] = c] => held' = [held EXCEPT ![n] = @ \union {c}]
           /\ \A n \in Node : disk' = [disk EXCEPT ![n] = Absent] => held' = held
  <1>1. /\ disk \in [Node -> Sum] /\ held \in [Node -> SUBSET Content]
        /\ \A n \in Node : disk[n] \in held[n] \union {Absent}
    BY DEF Inv, TypeOK, Traced
  <1>2. ASSUME disk' = disk PROVE held' = held
    BY <1>1, <1>2
  <1>3. ASSUME NEW n \in Node, NEW c \in Content, disk' = [disk EXCEPT ![n] = c]
        PROVE  held' = [held EXCEPT ![n] = @ \union {c}]
    BY <1>1, <1>3, AbsentAssumption
  <1>4. ASSUME NEW n \in Node, disk' = [disk EXCEPT ![n] = Absent] PROVE held' = held
    BY <1>1, <1>4
  <1> QED BY <1>2, <1>3, <1>4

\* Every step of the code is a step of the abstract file, or none.
LEMMA StepRefines == Inv /\ [HNext]_hvars => [Replicas!ANext]_(Replicas!avars)
  <1> SUFFICES ASSUME Inv, HNext PROVE [Replicas!ANext]_(Replicas!avars)
    BY DEF hvars, Replicas!avars, RecordedSum
  <1>held. held' = [n \in Node |-> held[n] \union ({disk'[n]} \ {Absent})]
    BY DEF HNext
  <1>types. /\ disk \in [Node -> Sum] /\ fileStates = [k \in Node |-> fileStates[k]]
            /\ NodeBags(tasks, Task) /\ Traced /\ WritesOpenFile
    BY DEF Inv, TypeOK
  <1>calm. ASSUME disk' = disk, fileStates' = fileStates
           PROVE  UNCHANGED Replicas!avars
    BY <1>calm, <1>held, HistoryStep DEF Replicas!avars, RecordedSum
  <1>record. ASSUME NEW n \in Node, NEW s, disk' = disk,
                    fileStates' = [fileStates EXCEPT ![n] = s],
                    s # NoState, s.sum \in held[n] \union {Absent}
             PROVE  Replicas!Record(n)
    <2>1. held' = held
      BY <1>held, <1>record, HistoryStep
    <2>2. [k \in Node |-> RecordedSum(k)]'
            = [[k \in Node |-> RecordedSum(k)] EXCEPT ![n] = s.sum]
      BY <1>types, <1>record DEF RecordedSum
    <2> QED BY <1>record, <2>1, <2>2 DEF Replicas!Record
  <1>becomes. ASSUME NEW n \in Node, NEW c \in Content, disk' = [disk EXCEPT ![n] = c],
                     fileStates' = fileStates
              PROVE  Replicas!Becomes(n, c)
    BY <1>becomes, <1>held, HistoryStep DEF Replicas!Becomes, RecordedSum
  <1>1. ASSUME NEW n \in Writers, NEW c \in UserContent, UserWrite(n, c) PROVE Replicas!ANext
    <2>1. n \in Node /\ c \in Content
      BY WritersAssumption, ContentAssumption
    <2>2. Replicas!Becomes(n, c)
      BY <1>1, <1>becomes, <2>1 DEF UserWrite
    <2> QED BY <2>1, <2>2 DEF Replicas!ANext, Replicas!Save
  <1>2. ASSUME NEW n \in Writers, UserDelete(n) PROVE Replicas!ANext
    <2>1. n \in Node
      BY WritersAssumption
    <2>2. Replicas!Remove(n)
      BY <1>2, <1>held, <2>1, HistoryStep DEF UserDelete, Replicas!Remove, RecordedSum
    <2> QED BY <2>1, <2>2 DEF Replicas!ANext
  <1>3. ASSUME NEW n \in Node, Watcher(n) PROVE [Replicas!ANext]_(Replicas!avars)
    <2>1. ASSUME NEW t \in DOMAIN tasks[n], UpdateFileState(n, t) PROVE Replicas!ANext
      <3> DEFINE s == [sum |-> t.snap.sum, size |-> t.snap.size, modTime |-> t.snap.mtime,
                       lastSync |-> now, status |-> "synced"]
      <3>1. t \in EmitTask /\ t.step = "record"
        BY <1>types, <2>1 DEF UpdateFileState, NodeBags, BagOver, Task, StatTask,
                              SumTask, EmitTask, DecideTask, RequestTask, WriteTask
      <3>2. s \in FileState
        BY <3>1, BoundAssumption DEF Inv, TypeOK, Time, EmitTask, Snapshot, FileState
      <3>3. TaskTraced(n, t)
        BY <1>types DEF Traced
      <3>4. s # NoState /\ s.sum \in held[n] \union {Absent}
        BY <3>1, <3>2, <3>3, NoStateAssumption DEF TaskTraced
      <3>5. disk' = disk /\ fileStates' = [fileStates EXCEPT ![n] = s]
        BY <2>1 DEF UpdateFileState
      <3> HIDE DEF s
      <3>6. Replicas!Record(n)
        BY <1>record, <3>4, <3>5
      <3> QED BY <3>6 DEF Replicas!ANext
    <2> QED BY <1>3, <1>calm, <2>1 DEF Watcher, Stat, CalculateChecksum, PublishFileEvent
  <1>4. ASSUME NEW n \in Node, NEW t \in DOMAIN tasks[n], ResolveConflict(n, t)
        PROVE [Replicas!ANext]_(Replicas!avars)
    <2>1. CASE fileStates' = fileStates
      BY <1>4, <1>calm, <2>1 DEF ResolveConflict
    <2>2. CASE fileStates' # fileStates
      <3>1. disk' = disk /\ fileStates' = [fileStates EXCEPT ![n] = MarkedConflict(n)]
        BY <1>4, <2>2 DEF ResolveConflict
      <3>2. MarkedConflict(n) \in FileState /\ MarkedConflict(n).sum \in held[n] \union {Absent}
        <4>1. CASE fileStates[n] = NoState
          BY <4>1 DEF MarkedConflict, FileState, Sum, Time, NoTime
        <4>2. CASE fileStates[n] # NoState
          <5>1. fileStates[n] \in FileState /\ fileStates[n].sum \in held[n] \union {Absent}
            BY <1>types, <4>2 DEF Traced, Inv, TypeOK
          <5> QED BY <4>2, <5>1 DEF MarkedConflict, FileState
        <4> QED BY <4>1, <4>2
      <3>3. Replicas!Record(n)
        BY <1>record, <3>1, <3>2, NoStateAssumption
      <3> QED BY <3>3 DEF Replicas!ANext
    <2> QED BY <2>1, <2>2
  <1>5. ASSUME NEW n \in Node, NEW m \in DOMAIN inbox[n], HandleFileResponse(n, m)
        PROVE Replicas!ANext
    <2>1. m.data \in Foreign(n)
      BY <1>5, <1>types DEF HandleFileResponse, Traced, MessageTraced
    <2>2. \E k \in Node \ {n} : held[k] # {}
      BY <2>1 DEF Foreign
    <2>3. Replicas!Becomes(n, << >>)
      BY <1>5, <1>becomes, EmptySeq DEF HandleFileResponse, Content
    <2> QED BY <2>2, <2>3 DEF Replicas!ANext, Replicas!Truncate
  <1>6. ASSUME NEW n \in Node, NEW t \in DOMAIN tasks[n], WriteData(n, t)
        PROVE [Replicas!ANext]_(Replicas!avars)
    <2>1. CASE t.data = << >>
      BY <1>6, <1>calm, <2>1 DEF WriteData
    <2>2. CASE t.data # << >>
      <3>1. t.data \in Foreign(n) /\ disk[n] # Absent
        BY <1>6, <1>types DEF WriteData, Traced, TaskTraced, WritesOpenFile
      <3>2. PICK k \in Node \ {n} : t.data \in held[k]
        BY <3>1 DEF Foreign
      <3>3. Overlay(t.data, disk[n]) \in Content
        BY <1>types, <3>1, <3>2, OverlayContent DEF Inv, Sum
      <3>4. Replicas!Becomes(n, Overlay(t.data, disk[n]))
        BY <1>6, <1>becomes, <2>2, <3>3 DEF WriteData
      <3>5. Overlay(t.data, disk[n]) = Replicas!Overlay(t.data, disk[n])
        BY DEF Overlay, Replicas!Overlay
      <3> QED BY <3>1, <3>2, <3>4, <3>5 DEF Replicas!ANext, Replicas!Replace
    <2> QED BY <2>1, <2>2
  <1>7. ASSUME NEW n \in Node, Restart(n) PROVE Replicas!ANext
    <2>1. Replicas!Forget(n)
      BY <1>7, <1>types, <1>held, HistoryStep DEF Restart, Replicas!Forget, RecordedSum
    <2> QED BY <2>1 DEF Replicas!ANext
  <1>8. ASSUME NEW n \in Node, Handler(n) \/ Fault(n)
        PROVE [Replicas!ANext]_(Replicas!avars)
    BY <1>calm, <1>4, <1>5, <1>6, <1>7, <1>8
    DEF Handler, Fault, DeliverEvent, DetectConflict, RequestFile, HandleFileRequest,
        Lose, PublishFails
  <1>9. ASSUME Tick PROVE [Replicas!ANext]_(Replicas!avars)
    BY <1>calm, <1>9 DEF Tick
  <1> QED BY <1>1, <1>2, <1>3, <1>8, <1>9 DEF HNext, Next, User

\* The copies of a file implement ReplicatedFile: through every interleaving,
\* loss, failed publication and crash, a copy comes from its user or from what
\* another node had (createOrModifyFile, file_sync.go:334), and what a node
\* records it once had (updateFileState, file_sync.go:372).
THEOREM Implements == HSpec => ImplementsReplicatedFile
  <1>1. HInit => Replicas!AInit
    BY DEF HInit, Init, Replicas!AInit, RecordedSum
  <1>2. HSpec => []Inv
    BY InvHolds
  <1> QED BY <1>1, <1>2, StepRefines, PTL DEF HSpec, ImplementsReplicatedFile, Replicas!ASpec
=============================================================================
