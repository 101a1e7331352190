------------------------ MODULE FileSyncPresenceProofs ------------------------
(***************************************************************************)
(* The exchange event, request, response leaves nobody out, for every set  *)
(* of nodes and of writers, every conflict resolution and every timing, as *)
(* long as the topic delivers, nobody deletes the file and no process dies. *)
(***************************************************************************)
EXTENDS FileSyncProofs

-----------------------------------------------------------------------------
(* The inductive invariant.                                                 *)

ChangeSteps == {"stat", "sum", "publish"}
AskSteps    == {"detect", "request"}

\* Without the file, a node has recorded nothing of it and at most asks for it.
Newcomer(n) ==
    /\ fileStates[n] = NoState
    /\ \A t \in DOMAIN tasks[n] : t.step \in AskSteps

\* A node that has the file is about to announce it; has been asked for it.
Announces(w) ==
    disk[w] # Absent /\ \E t \in DOMAIN tasks[w] : t.step \in ChangeSteps
IsAsked(w) ==
    disk[w] # Absent /\ \E m \in DOMAIN inbox[w] : m.type = "file_request"

\* Node n is told of the file or sent it; is about to ask for it.
IsTold(n) == \E m \in DOMAIN inbox[n] : m.type \in {"file_event", "file_response"}
Asks(n)   == \E t \in DOMAIN tasks[n] : t.step \in AskSteps

OnItsWay(n) == IsTold(n) \/ Asks(n) \/ \E w \in Node : Announces(w) \/ IsAsked(w)

SomeoneHasIt == \E w \in Node : disk[w] # Absent

\* Alone, its first half is inductive too.
Newcomers == \A n \in Node : disk[n] = Absent => Newcomer(n)

Exchange ==
    \A n \in Node : disk[n] = Absent /\ SomeoneHasIt => OnItsWay(n)

\* At rest nothing is on its way, so nobody is without the file.
LEMMA ExchangeEnds == Exchange => Presence
  <1> SUFFICES ASSUME Exchange, Idle, NEW m \in Node, NEW n \in Node,
                      disk[n] # Absent, disk[m] = Absent
               PROVE  FALSE
    BY DEF Presence
  <1>1. OnItsWay(m)
    BY DEF Exchange, SomeoneHasIt
  <1>2. \A k \in Node : DOMAIN tasks[k] = {} /\ DOMAIN inbox[k] = {}
    BY BagDomains DEF Idle
  <1> QED BY <1>1, <1>2 DEF OnItsWay, IsTold, Asks, Announces, IsAsked

-----------------------------------------------------------------------------
(* Steps, as changes of what is in the bags.                                *)

\* What a bag holds after an element is added, and at least after a removal.
LEMMA BagMembers ==
    /\ \A B, x : DOMAIN BagAdd(B, x) = DOMAIN B \union {x}
    /\ \A B, x : DOMAIN B \ {x} \subseteq DOMAIN BagRemove(B, x)
  BY DEF BagAdd, BagRemove

\* The same for a goroutine of node n that starts, ends, goes on ...
LEMMA SpawnMembers ==
    ASSUME NodeBags(tasks, Task), NEW n \in Node, NEW u
    PROVE  /\ \A k \in Node \ {n} : Spawn(n, u)[k] = tasks[k]
           /\ DOMAIN Spawn(n, u)[n] = DOMAIN tasks[n] \union {u}
  <1>1. tasks = [k \in Node |-> tasks[k]]
    BY DEF NodeBags
  <1>2. DOMAIN BagAdd(tasks[n], u) = DOMAIN tasks[n] \union {u}
    BY BagMembers
  <1> QED BY <1>1, <1>2 DEF Spawn

LEMMA FinishMembers ==
    ASSUME NodeBags(tasks, Task), NEW n \in Node, NEW t
    PROVE  /\ \A k \in Node \ {n} : Finish(n, t)[k] = tasks[k]
           /\ DOMAIN Finish(n, t)[n] \subseteq DOMAIN tasks[n]
           /\ DOMAIN tasks[n] \ {t} \subseteq DOMAIN Finish(n, t)[n]
  <1>1. tasks = [k \in Node |-> tasks[k]]
    BY DEF NodeBags
  <1>2. /\ DOMAIN BagRemove(tasks[n], t) \subseteq DOMAIN tasks[n]
        /\ DOMAIN tasks[n] \ {t} \subseteq DOMAIN BagRemove(tasks[n], t)
    BY BagMembers, BagDomains
  <1> QED BY <1>1, <1>2 DEF Finish

LEMMA AdvanceMembers ==
    ASSUME NodeBags(tasks, Task), NEW n \in Node, NEW t, NEW u
    PROVE  /\ \A k \in Node \ {n} : Advance(n, t, u)[k] = tasks[k]
           /\ DOMAIN Advance(n, t, u)[n] \subseteq DOMAIN tasks[n] \union {u}
           /\ (DOMAIN tasks[n] \ {t}) \union {u} \subseteq DOMAIN Advance(n, t, u)[n]
  <1>1. tasks = [k \in Node |-> tasks[k]]
    BY DEF NodeBags
  <1>2. /\ DOMAIN BagRemove(tasks[n], t) \subseteq DOMAIN tasks[n]
        /\ DOMAIN tasks[n] \ {t} \subseteq DOMAIN BagRemove(tasks[n], t)
    BY BagMembers, BagDomains
  <1>3. DOMAIN BagAdd(BagRemove(tasks[n], t), u)
          = DOMAIN BagRemove(tasks[n], t) \union {u}
    BY BagMembers
  <1> QED BY <1>1, <1>2, <1>3 DEF Advance

\* ... and a message on its way to node n.
LEMMA InboxMembers ==
    ASSUME NodeBags(inbox, Message), NEW n \in Node, NEW m
    PROVE  /\ \A k \in Node \ {n} : /\ Consume(n, m)[k] = inbox[k]
                                    /\ DOMAIN Publication(n, m)[k]
                                         = DOMAIN inbox[k] \union {m}
           /\ Publication(n, m)[n] = inbox[n]
           /\ DOMAIN Consume(n, m)[n] \subseteq DOMAIN inbox[n]
           /\ DOMAIN inbox[n] \ {m} \subseteq DOMAIN Consume(n, m)[n]
  <1>1. inbox = [k \in Node |-> inbox[k]]
    BY DEF NodeBags
  <1>2. /\ DOMAIN BagRemove(inbox[n], m) \subseteq DOMAIN inbox[n]
        /\ DOMAIN inbox[n] \ {m} \subseteq DOMAIN BagRemove(inbox[n], m)
    BY BagMembers, BagDomains
  <1>3. \A k \in Node : DOMAIN BagAdd(inbox[k], m) = DOMAIN inbox[k] \union {m}
    BY BagMembers
  <1> QED BY <1>1, <1>2, <1>3 DEF Consume, Publication, Receivers

\* What the kernel makes of a change: all that was there, and a stat for sure.
LEMMA NotifiedMembers ==
    ASSUME NEW B, NEW ts \in Notified(B)
    PROVE  DOMAIN ts = DOMAIN B \union {StatStep}
  BY BagMembers DEF Notified, BagIn, BagToSet

-----------------------------------------------------------------------------
(* Newcomers.                                                               *)

\* Without deletions and crashes, a node without the file never had it, and
\* none of its goroutines is one that a file or a record of it brings about.
LEMMA StepNewcomers ==
    ASSUME ~AllowDelete, restarts' = restarts,
           TypeOK, WritesOpenFile, Newcomers, [Next]_vars
    PROVE  /\ \A n \in Node : disk[n] # Absent => disk'[n] # Absent
           /\ Newcomers'
  <1> DEFINE Goal == /\ \A n \in Node : disk[n] # Absent => disk'[n] # Absent
                     /\ Newcomers'
  <1>types. /\ NodeBags(tasks, Task) /\ NodeBags(inbox, Message)
            /\ disk = [k \in Node |-> disk[k]] /\ tasks = [k \in Node |-> tasks[k]]
            /\ fileStates = [k \in Node |-> fileStates[k]]
    BY DEF TypeOK, NodeBags
  \* A step of node n that leaves the others and its own file alone.
  <1>own. ASSUME NEW n \in Node, disk' = disk,
                 \A k \in Node \ {n} : /\ DOMAIN tasks'[k] = DOMAIN tasks[k]
                                       /\ fileStates'[k] = fileStates[k],
                 disk[n] = Absent =>
                   /\ fileStates'[n] = fileStates[n]
                   /\ \A t \in DOMAIN tasks'[n] : t \in DOMAIN tasks[n] \/ t.step \in AskSteps
          PROVE  Goal
    BY <1>own DEF Newcomers, Newcomer
  \* A step of node n that leaves a file there.
  <1>file. ASSUME NEW n \in Node, disk'[n] # Absent, fileStates' = fileStates,
                  \A k \in Node \ {n} : tasks'[k] = tasks[k] /\ disk'[k] = disk[k]
           PROVE  Goal
    BY <1>file DEF Newcomers, Newcomer
  <1>still. ASSUME UNCHANGED <<disk, fileStates, tasks>> PROVE Goal
    BY <1>still DEF Newcomers, Newcomer
  <1> HIDE DEF Goal
  <1>1. ASSUME NEW n \in Writers, User(n) PROVE Goal
    <2>1. PICK c \in UserContent : UserWrite(n, c)
      BY <1>1 DEF User, UserDelete
    <2>2. n \in Node /\ c # Absent
      BY WritersAssumption, ContentAssumption, AbsentAssumption
    <2> QED BY <1>file, <1>types, <2>1, <2>2, RenamedTasks DEF UserWrite
  <1>2. ASSUME NEW n \in Node, Watcher(n) PROVE Goal
    <2>1. PICK t \in DOMAIN tasks[n] : t.step \notin AskSteps
      BY <1>2 DEF Watcher, Stat, CalculateChecksum, PublishFileEvent, UpdateFileState,
                  BagIn, BagToSet, StatStep, AskSteps
    <2>2. disk[n] # Absent
      BY <2>1 DEF Newcomers, Newcomer
    <2>3. PICK B : tasks' = [tasks EXCEPT ![n] = B]
      BY <1>2 DEF Watcher, Stat, CalculateChecksum, PublishFileEvent, UpdateFileState,
                  Advance, Finish
    <2>4. /\ disk' = disk
          /\ \E s : fileStates' = [fileStates EXCEPT ![n] = s]
      BY <1>2, <1>types DEF Watcher, Stat, CalculateChecksum, PublishFileEvent,
                            UpdateFileState
    <2> QED BY <1>own, <1>types, <2>2, <2>3, <2>4
  <1>3. ASSUME NEW n \in Node, NEW m \in DOMAIN inbox[n], DeliverEvent(n, m) PROVE Goal
    <2> DEFINE u == [step |-> "detect", event |-> m]
    <2>1. /\ tasks' = tasks \/ tasks' = Spawn(n, u)
          /\ disk' = disk /\ fileStates' = fileStates /\ u.step \in AskSteps
      BY <1>3 DEF DeliverEvent, AskSteps
    <2> HIDE DEF u
    <2> QED BY <1>own, <1>types, <2>1, SpawnMembers
  <1>4. ASSUME NEW n \in Node, NEW t \in DOMAIN tasks[n],
               DetectConflict(n, t) \/ ResolveConflict(n, t)
        PROVE  Goal
    <2>1. CASE disk[n] = Absent
      <3>1. DetectConflict(n, t) /\ fileStates[n] = NoState
        BY <1>4, <2>1 DEF Newcomers, Newcomer, ResolveConflict, AskSteps
      <3>2. /\ tasks' = Advance(n, t, RequestStep) /\ RequestStep.step \in AskSteps
            /\ disk' = disk /\ fileStates' = fileStates
        BY <3>1 DEF DetectConflict, HasConflict, RequestStep, AskSteps
      <3> QED BY <1>own, <1>types, <3>2, AdvanceMembers
    <2>2. CASE disk[n] # Absent
      <3>1. /\ \E B : tasks' = [tasks EXCEPT ![n] = B]
            /\ \E s : fileStates' = [fileStates EXCEPT ![n] = s]
            /\ disk' = disk
        BY <1>4, <1>types DEF DetectConflict, ResolveConflict, Advance, Finish
      <3> QED BY <1>own, <1>types, <2>2, <3>1
    <2> QED BY <2>1, <2>2
  <1>5. ASSUME NEW n \in Node, RequestFile(n) PROVE Goal
    <2>1. /\ tasks' = Finish(n, RequestStep)
          /\ disk' = disk /\ fileStates' = fileStates
      BY <1>5 DEF RequestFile
    <2> QED BY <1>own, <1>types, <2>1, FinishMembers
  <1>6. ASSUME NEW n \in Node, NEW m \in DOMAIN inbox[n],
               HandleFileRequest(n, m) \/ Lose(n, m)
        PROVE  Goal
    BY <1>6, <1>still DEF HandleFileRequest, Lose
  <1>7. ASSUME NEW n \in Node, NEW m \in DOMAIN inbox[n], HandleFileResponse(n, m)
        PROVE  Goal
    <2>1. << >> # Absent
      BY EmptySeq, AbsentAssumption DEF Content
    <2> QED BY <1>7, <1>file, <1>types, <2>1 DEF HandleFileResponse
  <1>8. ASSUME NEW n \in Node, NEW t \in DOMAIN tasks[n], WriteData(n, t) PROVE Goal
    <2>1. disk[n] # Absent /\ t \in WriteTask
      BY <1>8, <1>types
      DEF WritesOpenFile, WriteData, NodeBags, BagOver, Task, StatTask, SumTask,
          EmitTask, DecideTask, RequestTask, WriteTask
    <2>2. disk'[n] # Absent
      BY <1>8, <1>types, <2>1, OverlayContent, AbsentAssumption
      DEF WriteData, TypeOK, WriteTask, Sum
    <2>3. /\ \E B : tasks' = [tasks EXCEPT ![n] = B]
          /\ \E c : disk' = [disk EXCEPT ![n] = c]
          /\ fileStates' = fileStates
      BY <1>8, <1>types DEF WriteData, Finish
    <2> QED BY <1>file, <1>types, <2>2, <2>3
  <1>9. ASSUME NEW n \in Node, NEW t \in DOMAIN tasks[n], PublishFails(n, t) PROVE Goal
    <2>1. /\ tasks' = Finish(n, t)
          /\ disk' = disk /\ fileStates' = fileStates
      BY <1>9 DEF PublishFails
    <2> QED BY <1>own, <1>types, <2>1, FinishMembers
  <1>10. ASSUME NEW n \in Node, Restart(n) PROVE FALSE
    BY <1>10, BoundAssumption DEF Restart, TypeOK
  <1>11. ASSUME Tick \/ UNCHANGED vars PROVE Goal
    BY <1>11, <1>still DEF Tick, vars
  <1> QED
    BY <1>1, <1>2, <1>3, <1>4, <1>5, <1>6, <1>7, <1>8, <1>9, <1>10, <1>11
    DEF Next, Handler, Fault, Goal

-----------------------------------------------------------------------------
(* The exchange.                                                            *)

\* Each step that uses up what was on its way to a node without the file puts
\* the next thing in its place: a change becomes an event, an event a request,
\* a request that reaches a node with the file a response.
LEMMA StepExchange ==
    ASSUME ~Lossy, ~AllowDelete, restarts' = restarts,
           TypeOK, WritesOpenFile, Newcomers, Exchange, [Next]_vars
    PROVE  Exchange'
  <1> SUFFICES ASSUME NEW n \in Node, disk'[n] = Absent, SomeoneHasIt'
               PROVE  OnItsWay(n)'
    BY DEF Exchange
  <1>types. /\ NodeBags(tasks, Task) /\ NodeBags(inbox, Message)
            /\ disk = [k \in Node |-> disk[k]] /\ tasks = [k \in Node |-> tasks[k]]
            /\ inbox = [k \in Node |-> inbox[k]]
    BY DEF TypeOK, NodeBags
  <1>files. \A k \in Node : disk[k] # Absent => disk'[k] # Absent
    BY StepNewcomers
  <1>new. disk[n] = Absent /\ Newcomer(n)
    BY <1>files DEF Newcomers
  <1>change. ASSUME NEW k \in Node, disk'[k] # Absent, NEW t \in DOMAIN tasks'[k],
                    t.step \in ChangeSteps
             PROVE  OnItsWay(n)'
    BY <1>change DEF OnItsWay, Announces
  \* A step that uses up nothing of what was on its way to n.
  <1>keeps. ASSUME disk' = disk \/ SomeoneHasIt,
                   \A j \in Node : \A t \in DOMAIN tasks[j] :
                     t.step \in ChangeSteps \/ (j = n /\ t.step \in AskSteps)
                       => t \in DOMAIN tasks'[j],
                   \A j \in Node : \A m \in DOMAIN inbox[j] :
                     \/ disk[j] # Absent /\ m.type = "file_request"
                     \/ j = n /\ m.type \in {"file_event", "file_response"}
                     => m \in DOMAIN inbox'[j]
            PROVE  OnItsWay(n)'
    <2>1. OnItsWay(n)
      BY <1>keeps, <1>new DEF Exchange, SomeoneHasIt
    <2>2. CASE IsTold(n)
      <3>1. IsTold(n)'
        BY <1>keeps, <2>2 DEF IsTold
      <3> QED BY <3>1 DEF OnItsWay
    <2>3. CASE Asks(n)
      <3>1. Asks(n)'
        BY <1>keeps, <2>3 DEF Asks
      <3> QED BY <3>1 DEF OnItsWay
    <2>4. ASSUME NEW w \in Node, Announces(w) PROVE OnItsWay(n)'
      <3>1. Announces(w)'
        BY <1>keeps, <1>files, <2>4 DEF Announces
      <3> QED BY <3>1 DEF OnItsWay
    <2>5. ASSUME NEW w \in Node, IsAsked(w) PROVE OnItsWay(n)'
      <3>1. IsAsked(w)'
        BY <1>keeps, <1>files, <2>5 DEF IsAsked
      <3> QED BY <3>1 DEF OnItsWay
    <2> QED BY <2>1, <2>2, <2>3, <2>4, <2>5 DEF OnItsWay
  <1>task. ASSUME disk' = disk \/ SomeoneHasIt, NEW k \in Node, NEW t,
                  \A j \in Node \ {k} : tasks'[j] = tasks[j],
                  DOMAIN tasks[k] \ {t} \subseteq DOMAIN tasks'[k],
                  t.step \notin ChangeSteps, k = n => t.step \notin AskSteps,
                  \A j \in Node : DOMAIN inbox[j] \subseteq DOMAIN inbox'[j]
           PROVE  OnItsWay(n)'
    BY <1>task, <1>keeps
  <1>message. ASSUME disk' = disk, NEW k \in Node, NEW m,
                     \A j \in Node \ {k} : inbox'[j] = inbox[j],
                     DOMAIN inbox[k] \ {m} \subseteq DOMAIN inbox'[k],
                     disk[k] # Absent => m.type # "file_request",
                     k = n => m.type \notin {"file_event", "file_response"},
                     \A j \in Node : DOMAIN tasks[j] \subseteq DOMAIN tasks'[j]
              PROVE  OnItsWay(n)'
    BY <1>message, <1>keeps
  <1>1. ASSUME NEW k \in Writers, User(k) PROVE OnItsWay(n)'
    <2>1. PICK c \in UserContent : UserWrite(k, c)
      BY <1>1 DEF User, UserDelete
    <2>2. k \in Node /\ c # Absent
      BY WritersAssumption, ContentAssumption, AbsentAssumption
    <2>3. disk'[k] # Absent /\ tasks' = Renamed(k, StatStep)
      BY <1>types, <2>1, <2>2 DEF UserWrite
    <2>4. StatStep \in DOMAIN tasks'[k] /\ StatStep.step \in ChangeSteps
      BY <1>types, <2>2, <2>3, RenamedTasks DEF StatStep, ChangeSteps
    <2> QED BY <1>change, <2>2, <2>3, <2>4
  <1>2. ASSUME NEW k \in Node, Stat(k) PROVE OnItsWay(n)'
    <2> DEFINE u == [step |-> "sum", size |-> Len(disk[k]), mtime |-> modTime[k]]
    <2>1. disk[k] # Absent
      BY <1>2 DEF Stat, BagIn, BagToSet, StatStep, Newcomers, Newcomer, AskSteps
    <2>2. tasks' = Advance(k, StatStep, u) /\ disk' = disk /\ u.step \in ChangeSteps
      BY <1>2, <2>1 DEF Stat, ChangeSteps
    <2> HIDE DEF u
    <2>3. u \in DOMAIN tasks'[k]
      BY <1>types, <2>2, AdvanceMembers
    <2> QED BY <1>change, <2>1, <2>2, <2>3
  <1>3. ASSUME NEW k \in Node, NEW t \in DOMAIN tasks[k], CalculateChecksum(k, t)
        PROVE OnItsWay(n)'
    <2> DEFINE u == [step |-> "publish", snap |-> [sum |-> disk[k], size |-> t.size,
                                                   mtime |-> t.mtime]]
    <2>1. disk[k] # Absent
      BY <1>3 DEF CalculateChecksum, Newcomers, Newcomer, AskSteps
    <2>2. tasks' = Advance(k, t, u) /\ disk' = disk /\ u.step \in ChangeSteps
      BY <1>3, <2>1 DEF CalculateChecksum, ChangeSteps
    <2> HIDE DEF u
    <2>3. u \in DOMAIN tasks'[k]
      BY <1>types, <2>2, AdvanceMembers
    <2> QED BY <1>change, <2>1, <2>2, <2>3
  <1>4. ASSUME NEW k \in Node, NEW t \in DOMAIN tasks[k], PublishFileEvent(k, t)
        PROVE OnItsWay(n)'
    <2> DEFINE e == EventOf(t.snap)
    <2>1. k # n
      BY <1>4, <1>new DEF PublishFileEvent, Newcomer, AskSteps
    <2>2. inbox' = Publication(k, e) /\ e.type = "file_event"
      BY <1>4 DEF PublishFileEvent, EventOf
    <2> HIDE DEF e
    <2>3. e \in DOMAIN inbox'[n]
      BY <1>types, <2>1, <2>2, InboxMembers
    <2> QED BY <2>2, <2>3 DEF OnItsWay, IsTold
  <1>5. ASSUME NEW k \in Node, NEW t \in DOMAIN tasks[k], UpdateFileState(k, t)
        PROVE OnItsWay(n)'
    <2>1. /\ tasks' = Finish(k, t) /\ inbox' = inbox /\ disk' = disk
          /\ t.step \notin ChangeSteps /\ t.step \notin AskSteps
      BY <1>5 DEF UpdateFileState, ChangeSteps, AskSteps
    <2>2. DOMAIN tasks[k] \ {t} \subseteq DOMAIN tasks'[k]
      BY <1>types, <2>1, FinishMembers
    <2>3. \A j \in Node \ {k} : tasks'[j] = tasks[j]
      BY <1>types, <2>1, FinishMembers
    <2> QED BY <1>task, <2>1, <2>2, <2>3
  <1>6. ASSUME NEW k \in Node, NEW m \in DOMAIN inbox[k], DeliverEvent(k, m)
        PROVE OnItsWay(n)'
    <2> DEFINE u == [step |-> "detect", event |-> m]
    <2>1. /\ inbox' = Consume(k, m) /\ disk' = disk /\ m.type = "file_event"
          /\ tasks' = tasks \/ tasks' = Spawn(k, u)
          /\ k = n => tasks' = Spawn(k, u)
      BY <1>6, <1>new DEF DeliverEvent, ShouldSync, Newcomer
    <2>2. u.step \in AskSteps
      BY DEF AskSteps
    <2> HIDE DEF u
    <2>3. CASE k = n
      <3>1. u \in DOMAIN tasks'[n]
        BY <1>types, <2>1, <2>3, SpawnMembers
      <3> QED BY <2>2, <3>1 DEF OnItsWay, Asks
    <2>4. CASE k # n
      <3>1. \A j \in Node : DOMAIN tasks[j] \subseteq DOMAIN tasks'[j]
        BY <1>types, <2>1, SpawnMembers
      <3>2. /\ DOMAIN inbox[k] \ {m} \subseteq DOMAIN inbox'[k]
            /\ \A j \in Node \ {k} : inbox'[j] = inbox[j]
        BY <1>types, <2>1, InboxMembers
      <3> QED BY <1>message, <2>1, <2>4, <3>1, <3>2
    <2> QED BY <2>3, <2>4
  <1>7. ASSUME NEW k \in Node, NEW t \in DOMAIN tasks[k], DetectConflict(k, t)
        PROVE OnItsWay(n)'
    <2>1. PICK u : /\ tasks' = Advance(k, t, u)
                   /\ k = n => u = RequestStep
      BY <1>7, <1>new DEF DetectConflict, HasConflict, Newcomer
    <2>2. disk' = disk /\ inbox' = inbox /\ t.step \notin ChangeSteps
      BY <1>7 DEF DetectConflict, ChangeSteps
    <2>3. /\ (DOMAIN tasks[k] \ {t}) \union {u} \subseteq DOMAIN tasks'[k]
          /\ \A j \in Node \ {k} : tasks'[j] = tasks[j]
      BY <1>types, <2>1, AdvanceMembers
    <2>4. CASE k = n
      <3>1. RequestStep \in DOMAIN tasks'[n] /\ RequestStep.step \in AskSteps
        BY <2>1, <2>3, <2>4 DEF RequestStep, AskSteps
      <3> QED BY <3>1 DEF OnItsWay, Asks
    <2>5. CASE k # n
      <3>1. DOMAIN tasks[k] \ {t} \subseteq DOMAIN tasks'[k]
        BY <2>3
      <3> QED BY <1>task, <1>7, <2>2, <2>3, <2>5, <3>1
    <2> QED BY <2>4, <2>5
  <1>8. ASSUME NEW k \in Node, NEW t \in DOMAIN tasks[k], ResolveConflict(k, t)
        PROVE OnItsWay(n)'
    <2>1. /\ disk' = disk /\ inbox' = inbox
          /\ t.step \notin ChangeSteps /\ t.step \notin AskSteps
          /\ tasks' = Advance(k, t, RequestStep) \/ tasks' = Finish(k, t)
      BY <1>8 DEF ResolveConflict, ChangeSteps, AskSteps
    <2>2. /\ DOMAIN tasks[k] \ {t} \subseteq DOMAIN tasks'[k]
          /\ \A j \in Node \ {k} : tasks'[j] = tasks[j]
      BY <1>types, <2>1, AdvanceMembers, FinishMembers
    <2> QED BY <1>task, <2>1, <2>2
  <1>9. ASSUME NEW k \in Node, RequestFile(k) PROVE OnItsWay(n)'
    <2> DEFINE q == [type |-> "file_request"]
    <2>1. /\ disk' = disk /\ inbox' = Publication(k, q) /\ q.type = "file_request"
          /\ tasks' = Finish(k, RequestStep)
      BY <1>9 DEF RequestFile
    <2> HIDE DEF q
    <2>2. /\ \A j \in Node \ {k} : DOMAIN inbox'[j] = DOMAIN inbox[j] \union {q}
          /\ inbox'[k] = inbox[k]
      BY <1>types, <2>1, InboxMembers
    <2>3. CASE k = n
      <3>1. PICK w \in Node : disk[w] # Absent
        BY <2>1 DEF SomeoneHasIt
      <3>2. q \in DOMAIN inbox'[w] /\ disk'[w] # Absent
        BY <1>new, <2>1, <2>2, <2>3, <3>1
      <3> QED BY <2>1, <3>2 DEF OnItsWay, IsAsked
    <2>4. CASE k # n
      <3>1. /\ DOMAIN tasks[k] \ {RequestStep} \subseteq DOMAIN tasks'[k]
            /\ \A j \in Node \ {k} : tasks'[j] = tasks[j]
        BY <1>types, <2>1, FinishMembers
      <3>2. RequestStep.step \notin ChangeSteps
        BY DEF RequestStep, ChangeSteps
      <3> QED BY <1>task, <2>1, <2>2, <2>4, <3>1, <3>2
    <2> QED BY <2>3, <2>4
  <1>10. ASSUME NEW k \in Node, NEW m \in DOMAIN inbox[k], HandleFileRequest(k, m)
         PROVE OnItsWay(n)'
    <2> DEFINE rest == Consume(k, m)
               answer == [type |-> "file_response", data |-> disk[k]]
    <2>1. /\ disk' = disk /\ tasks' = tasks /\ m.type = "file_request"
          /\ inbox' = [r \in Node |-> IF disk[k] # Absent /\ r \in Receivers(k)
                                      THEN BagAdd(rest[r], answer) ELSE rest[r]]
          /\ answer.type = "file_response"
      BY <1>10 DEF HandleFileRequest
    <2>2. /\ DOMAIN inbox[k] \ {m} \subseteq DOMAIN rest[k]
          /\ \A j \in Node \ {k} : rest[j] = inbox[j]
      BY <1>types, InboxMembers
    <2> HIDE DEF rest, answer
    <2>3. CASE disk[k] # Absent
      <3>1. inbox'[n] = BagAdd(rest[n], answer)
        <4>1. n \in Receivers(k)
          BY <1>new, <2>3 DEF Receivers
        <4> QED BY <2>1, <2>3, <4>1
      <3>2. DOMAIN BagAdd(rest[n], answer) = DOMAIN rest[n] \union {answer}
        BY BagMembers
      <3>3. answer \in DOMAIN inbox'[n]
        BY <3>1, <3>2
      <3> QED BY <2>1, <3>3 DEF OnItsWay, IsTold
    <2>4. CASE disk[k] = Absent
      <3>1. /\ DOMAIN inbox[k] \ {m} \subseteq DOMAIN inbox'[k]
            /\ \A j \in Node \ {k} : inbox'[j] = inbox[j]
        BY <2>1, <2>2, <2>4
      <3> QED BY <1>message, <2>1, <2>4, <3>1
    <2> QED BY <2>3, <2>4
  <1>11. ASSUME NEW k \in Node, NEW m \in DOMAIN inbox[k], HandleFileResponse(k, m)
         PROVE OnItsWay(n)'
    <2> DEFINE u == [step |-> "write", data |-> m.data]
    <2>1. disk'[k] = << >> /\ << >> # Absent
      BY <1>11, <1>types, EmptySeq, AbsentAssumption DEF HandleFileResponse, Content
    <2>2. PICK ts \in Notified(tasks[k]) : tasks' = [tasks EXCEPT ![k] = BagAdd(ts, u)]
      BY <1>11 DEF HandleFileResponse
    <2> HIDE DEF u
    <2>3. DOMAIN ts = DOMAIN tasks[k] \union {StatStep}
      BY NotifiedMembers
    <2>4. StatStep \in DOMAIN tasks'[k] /\ StatStep.step \in ChangeSteps
      <3>1. DOMAIN tasks'[k] = DOMAIN ts \union {u}
        BY <1>types, <2>2, BagMembers
      <3> QED BY <2>3, <3>1 DEF StatStep, ChangeSteps
    <2> QED BY <1>change, <2>1, <2>4
  <1>12. ASSUME NEW k \in Node, NEW t \in DOMAIN tasks[k], WriteData(k, t)
         PROVE OnItsWay(n)'
    <2>1. /\ disk[k] # Absent /\ inbox' = inbox
          /\ t.step \notin ChangeSteps /\ t.step \notin AskSteps
      BY <1>12 DEF WritesOpenFile, WriteData, ChangeSteps, AskSteps
    <2>2. /\ DOMAIN tasks[k] \ {t} \subseteq DOMAIN tasks'[k]
          /\ \A j \in Node \ {k} : tasks'[j] = tasks[j]
      <3>1. CASE t.data = << >>
        BY <1>12, <1>types, <3>1, FinishMembers DEF WriteData
      <3>2. CASE t.data # << >>
        <4>1. PICK ts \in Notified(BagRemove(tasks[k], t)) :
                     tasks' = [tasks EXCEPT ![k] = ts]
          BY <1>12, <3>2 DEF WriteData
        <4>2. DOMAIN ts = DOMAIN BagRemove(tasks[k], t) \union {StatStep}
          BY <4>1, NotifiedMembers
        <4>3. DOMAIN tasks[k] \ {t} \subseteq DOMAIN BagRemove(tasks[k], t)
          BY BagMembers
        <4> QED BY <1>types, <4>1, <4>2, <4>3
      <3> QED BY <3>1, <3>2
    <2>3. SomeoneHasIt
      BY <2>1 DEF SomeoneHasIt
    <2> QED BY <1>task, <2>1, <2>2, <2>3
  <1>13. ASSUME NEW k \in Node, Fault(k) PROVE FALSE
    BY <1>13, BoundAssumption DEF Fault, Lose, PublishFails, Restart, TypeOK
  <1>14. ASSUME Tick \/ UNCHANGED vars PROVE OnItsWay(n)'
    <2>1. UNCHANGED <<disk, tasks, inbox>>
      BY <1>14 DEF Tick, vars
    <2> QED BY <1>keeps, <2>1
  <1> QED
    BY <1>1, <1>2, <1>3, <1>4, <1>5, <1>6, <1>7, <1>8, <1>9, <1>10, <1>11, <1>12,
       <1>13, <1>14
    DEF Next, Watcher, Handler

\* When all goroutines have ended and all messages have arrived, a file that
\* one node has is on every node: no race between the watcher's record, the
\* events and the answers (handleFileEvent to handleFileResponse,
\* file_sync.go:453-572) makes a node miss it, even if the record of a
\* publication comes after a peer's answer to it.
THEOREM NobodyLeftOut ==
    ASSUME ~Lossy, ~AllowDelete, MaxRestarts = 0
    PROVE  Spec => []Presence
  <1>1. Init => Newcomers /\ Exchange
    BY BagDomains DEF Init, Newcomers, Newcomer, Exchange, SomeoneHasIt
  <1>2. TypeOK /\ WritesOpenFile /\ Newcomers /\ Exchange /\ [Next]_vars
          => (Newcomers /\ Exchange)'
    <2> SUFFICES ASSUME TypeOK, WritesOpenFile, Newcomers, Exchange, [Next]_vars
                 PROVE  (Newcomers /\ Exchange)'
      OBVIOUS
    <2>1. TypeOK'
      BY StepTyped
    <2>2. restarts' = restarts
      BY <2>1 DEF TypeOK
    <2> QED BY <2>2, StepNewcomers, StepExchange
  <1> QED BY <1>1, <1>2, TypeCorrect, ExchangeEnds, PTL DEF Spec
=============================================================================
