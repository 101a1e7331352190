------------------------- MODULE FileSyncSecondProofs -------------------------
(***************************************************************************)
(* What holds of two nodes in the first second of the clock, before any    *)
(* crash and while no node has decided blindly (Undisturbed, in            *)
(* FileSyncWindow): timestamps are whole seconds and records are not, so a *)
(* node that has recorded a change rejects every event.  Nothing is said   *)
(* of a node that decides between the publication of a change and its      *)
(* record (file_sync.go:131-136).  The topic may lose what it likes.       *)
(***************************************************************************)
EXTENDS FileSyncPresenceProofs, FileSyncWindow, FiniteSetTheorems

-----------------------------------------------------------------------------
(* Counting what is in a bag: as many tokens as there are copies.           *)

Tokens(place, B, S) ==
    {k \in {place} \X S \X (Nat \ {0}) : k[2] \in DOMAIN B /\ k[3] <= B[k[2]]}

Copies(B, x) == IF x \in DOMAIN B THEN B[x] ELSE 0

LEMMA TokenParts ==
    ASSUME NEW place, NEW B, NEW S
    PROVE  \A k : k \in Tokens(place, B, S) <=>
             /\ k = <<place, k[2], k[3]>>
             /\ k[2] \in S \cap DOMAIN B /\ k[3] \in Nat \ {0} /\ k[3] <= B[k[2]]
  BY DEF Tokens

\* One more copy is one more token, if it counts.
LEMMA TokenAdded ==
    ASSUME NEW U, NEW B, BagOver(B, U), NEW S, NEW place, NEW x
    PROVE  /\ Tokens(place, BagAdd(B, x), S)
                \subseteq Tokens(place, B, S) \union {<<place, x, Copies(B, x) + 1>>}
           /\ x \notin S => Tokens(place, BagAdd(B, x), S) \subseteq Tokens(place, B, S)
  <1> DEFINE C == BagAdd(B, x)
  <1>1. \A y \in DOMAIN C : \/ y \in DOMAIN B /\ C[y] = B[y]
                            \/ y = x /\ C[y] = Copies(B, x) + 1
    BY DEF BagAdd, Copies
  <1>2. \A y \in DOMAIN B : B[y] \in Nat \ {0}
    BY DEF BagOver
  <1>3. Copies(B, x) \in Nat
    BY <1>2 DEF Copies
  <1> HIDE DEF C
  <1>4. ASSUME NEW k \in Tokens(place, C, S)
        PROVE  k \in Tokens(place, B, S) \/ (x \in S /\ k = <<place, x, Copies(B, x) + 1>>)
    <2>1. /\ k = <<place, k[2], k[3]>> /\ k[2] \in S /\ k[2] \in DOMAIN C
          /\ k[3] \in Nat \ {0} /\ k[3] <= C[k[2]]
      BY TokenParts
    <2>2. CASE k[2] \in DOMAIN B /\ k[3] <= B[k[2]]
      BY <2>1, <2>2, TokenParts
    <2>3. CASE ~(k[2] \in DOMAIN B /\ k[3] <= B[k[2]])
      <3>1. k[2] = x /\ k[3] <= Copies(B, x) + 1
        BY <1>1, <2>1, <2>3
      <3>2. k[3] = Copies(B, x) + 1
        BY <1>2, <1>3, <2>1, <2>3, <3>1 DEF Copies
      <3> QED BY <2>1, <3>1, <3>2
    <2> QED BY <2>2, <2>3
  <1> QED BY <1>4 DEF C

\* One copy less is one token less, if it counted.
LEMMA TokenRemoved ==
    ASSUME NEW U, NEW B, BagOver(B, U), NEW S, NEW place, NEW x
    PROVE  /\ Tokens(place, BagRemove(B, x), S) \subseteq Tokens(place, B, S)
           /\ x \in S \cap DOMAIN B =>
                /\ <<place, x, B[x]>> \in Tokens(place, B, S)
                /\ <<place, x, B[x]>> \notin Tokens(place, BagRemove(B, x), S)
  <1> DEFINE C == BagRemove(B, x)
  <1>1. \A y \in DOMAIN B : B[y] \in Nat \ {0}
    BY DEF BagOver
  <1>2. /\ \A y \in DOMAIN C : y \in DOMAIN B /\ C[y] <= B[y]
        /\ x \in DOMAIN C => C[x] = B[x] - 1
    BY <1>1 DEF BagRemove
  <1>3. \A y \in DOMAIN C : C[y] \in Nat
    BY <1>1 DEF BagRemove
  <1> HIDE DEF C
  <1>4. ASSUME NEW k \in Tokens(place, C, S) PROVE k \in Tokens(place, B, S)
    <2>1. /\ k = <<place, k[2], k[3]>> /\ k[2] \in S /\ k[2] \in DOMAIN C
          /\ k[3] \in Nat \ {0} /\ k[3] <= C[k[2]]
      BY TokenParts
    <2>2. k[2] \in DOMAIN B /\ k[3] <= B[k[2]]
      BY <1>1, <1>2, <1>3, <2>1
    <2> QED BY <2>1, <2>2, TokenParts
  <1>5. ASSUME x \in S \cap DOMAIN B
        PROVE  /\ <<place, x, B[x]>> \in Tokens(place, B, S)
               /\ <<place, x, B[x]>> \notin Tokens(place, C, S)
    <2> DEFINE k == <<place, x, B[x]>>
    <2>1. k = <<place, k[2], k[3]>> /\ k[2] = x /\ k[3] = B[x] /\ B[x] \in Nat \ {0}
      BY <1>1, <1>5
    <2>2. ~(x \in DOMAIN C /\ B[x] <= C[x])
      BY <1>1, <1>2, <1>5
    <2> HIDE DEF k
    <2>3. k \in Tokens(place, B, S) /\ k \notin Tokens(place, C, S)
      BY <1>5, <2>1, <2>2, TokenParts
    <2> QED BY <2>3 DEF k
  <1> QED BY <1>4, <1>5 DEF C

-----------------------------------------------------------------------------
(* The load: what may yet become a request of a node that is told of the    *)
(* changes of the other.                                                    *)

ChangeTasks == {t \in Task : t.step \in ChangeSteps}
AskTasks    == {t \in Task : t.step \in AskSteps}

\* The changes in the goroutines C of one node, the events among the messages
\* E to the other, and those it has taken up in its goroutines A.
Load(C, E, A) ==
    Tokens("change", C, ChangeTasks) \union Tokens("event", E, EventMsg)
        \union Tokens("ask", A, AskTasks)

\* No more than n, and finitely many.
AtMost(S, n) == IsFiniteSet(S) /\ Cardinality(S) <= n

LEMMA Fewer ==
    ASSUME NEW n \in Int, NEW S, AtMost(S, n), NEW T, T \subseteq S
    PROVE  AtMost(T, n)
  <1>1. T \in SUBSET S /\ IsFiniteSet(S) /\ Cardinality(S) <= n
    BY DEF AtMost
  <1>2. IsFiniteSet(T) /\ Cardinality(T) <= Cardinality(S)
    BY <1>1, FS_Subset
  <1>3. Cardinality(S) \in Nat /\ Cardinality(T) \in Nat
    BY <1>1, <1>2, FS_CardinalityType
  <1> QED BY <1>1, <1>2, <1>3 DEF AtMost

LEMMA OneMore ==
    ASSUME NEW n \in Int, NEW S, AtMost(S, n), NEW x, NEW T, T \subseteq S \union {x}
    PROVE  AtMost(T, n + 1)
  <1> DEFINE X == S \union {x}
  <1>1. IsFiniteSet(S) /\ Cardinality(S) <= n
    BY DEF AtMost
  <1>2. IsFiniteSet(X)
    BY <1>1, FS_AddElement
  <1>3. Cardinality(X) = IF x \in S THEN Cardinality(S) ELSE Cardinality(S) + 1
    BY <1>1, FS_AddElement
  <1>4. Cardinality(S) \in Nat
    BY <1>1, FS_CardinalityType
  <1> HIDE DEF X
  <1>5. AtMost(X, n + 1)
    BY <1>1, <1>2, <1>3, <1>4 DEF AtMost
  <1>6. n + 1 \in Int /\ T \subseteq X
    BY DEF X
  <1> QED BY <1>5, <1>6, Fewer

LEMMA OneLess ==
    ASSUME NEW n \in Int, NEW S, AtMost(S, n), NEW x \in S, NEW T, T \subseteq S \ {x}
    PROVE  AtMost(T, n - 1)
  <1> DEFINE X == S \ {x}
  <1>1. IsFiniteSet(S) /\ Cardinality(S) <= n
    BY DEF AtMost
  <1>2. IsFiniteSet(X)
    BY <1>1, FS_RemoveElement
  <1>3. Cardinality(X) = IF x \in S THEN Cardinality(S) - 1 ELSE Cardinality(S)
    BY <1>1, FS_RemoveElement
  <1>4. Cardinality(S) \in Nat
    BY <1>1, FS_CardinalityType
  <1> HIDE DEF X
  <1>5. AtMost(X, n - 1)
    BY <1>1, <1>2, <1>3, <1>4 DEF AtMost
  <1>6. n - 1 \in Int /\ T \subseteq X
    BY DEF X
  <1> QED BY <1>5, <1>6, Fewer

\* Adding what does not count, and removing anything, adds nothing.
LEMMA LoadKept ==
    ASSUME NEW C, NEW E, NEW A, BagOver(C, Task), BagOver(E, Message), BagOver(A, Task),
           NEW n \in Int, AtMost(Load(C, E, A), n), NEW x
    PROVE  /\ AtMost(Load(BagRemove(C, x), E, A), n)
           /\ AtMost(Load(C, BagRemove(E, x), A), n)
           /\ AtMost(Load(C, E, BagRemove(A, x)), n)
           /\ x \notin ChangeTasks => AtMost(Load(BagAdd(C, x), E, A), n)
           /\ x \notin EventMsg => AtMost(Load(C, BagAdd(E, x), A), n)
           /\ x \notin AskTasks => AtMost(Load(C, E, BagAdd(A, x)), n)
  <1>1. /\ Load(BagRemove(C, x), E, A) \subseteq Load(C, E, A)
        /\ Load(C, BagRemove(E, x), A) \subseteq Load(C, E, A)
        /\ Load(C, E, BagRemove(A, x)) \subseteq Load(C, E, A)
    BY TokenRemoved DEF Load
  <1>2. /\ x \notin ChangeTasks => Load(BagAdd(C, x), E, A) \subseteq Load(C, E, A)
        /\ x \notin EventMsg => Load(C, BagAdd(E, x), A) \subseteq Load(C, E, A)
        /\ x \notin AskTasks => Load(C, E, BagAdd(A, x)) \subseteq Load(C, E, A)
    BY TokenAdded DEF Load
  <1> QED BY <1>1, <1>2, Fewer

\* A rename ends writes and adds nothing.
LEMMA LoadUnwritten ==
    ASSUME NEW C, NEW E, NEW A, NEW n \in Int, AtMost(Load(C, E, A), n)
    PROVE  /\ AtMost(Load(WithoutWrites(C), E, A), n)
           /\ AtMost(Load(C, E, WithoutWrites(A)), n)
  <1>1. \A place, B, S : Tokens(place, WithoutWrites(B), S) \subseteq Tokens(place, B, S)
    BY DEF Tokens, WithoutWrites
  <1>2. /\ Load(WithoutWrites(C), E, A) \subseteq Load(C, E, A)
        /\ Load(C, E, WithoutWrites(A)) \subseteq Load(C, E, A)
    BY <1>1 DEF Load
  <1> QED BY <1>2, Fewer

\* Adding what counts adds one.
LEMMA LoadMore ==
    ASSUME NEW C, NEW E, NEW A, BagOver(C, Task), BagOver(E, Message), BagOver(A, Task),
           NEW n \in Int, AtMost(Load(C, E, A), n), NEW x
    PROVE  /\ AtMost(Load(BagAdd(C, x), E, A), n + 1)
           /\ AtMost(Load(C, BagAdd(E, x), A), n + 1)
           /\ AtMost(Load(C, E, BagAdd(A, x)), n + 1)
  <1>1. Load(BagAdd(C, x), E, A)
          \subseteq Load(C, E, A) \union {<<"change", x, Copies(C, x) + 1>>}
    BY TokenAdded DEF Load
  <1>2. Load(C, BagAdd(E, x), A)
          \subseteq Load(C, E, A) \union {<<"event", x, Copies(E, x) + 1>>}
    BY TokenAdded DEF Load
  <1>3. Load(C, E, BagAdd(A, x))
          \subseteq Load(C, E, A) \union {<<"ask", x, Copies(A, x) + 1>>}
    BY TokenAdded DEF Load
  <1> QED BY <1>1, <1>2, <1>3, OneMore

\* Removing what counts takes one away.
LEMMA LoadLess ==
    ASSUME NEW C, NEW E, NEW A, BagOver(C, Task), BagOver(E, Message), BagOver(A, Task),
           NEW n \in Int, AtMost(Load(C, E, A), n), NEW x
    PROVE  /\ x \in ChangeTasks \cap DOMAIN C => AtMost(Load(BagRemove(C, x), E, A), n - 1)
           /\ x \in EventMsg \cap DOMAIN E => AtMost(Load(C, BagRemove(E, x), A), n - 1)
           /\ x \in AskTasks \cap DOMAIN A => AtMost(Load(C, E, BagRemove(A, x)), n - 1)
  <1>1. \A p, q, B, S, i : p # q => <<p, x, i>> \notin Tokens(q, B, S)
    BY DEF Tokens
  <1>2. ASSUME x \in ChangeTasks \cap DOMAIN C
        PROVE  AtMost(Load(BagRemove(C, x), E, A), n - 1)
    <2> DEFINE k == <<"change", x, C[x]>>
    <2>1. k \in Load(C, E, A)
      BY <1>2, TokenRemoved DEF Load
    <2>2. k \notin Tokens("event", E, EventMsg) /\ k \notin Tokens("ask", A, AskTasks)
      BY <1>1
    <2>3. /\ Tokens("change", BagRemove(C, x), ChangeTasks) \subseteq Tokens("change", C, ChangeTasks)
          /\ k \notin Tokens("change", BagRemove(C, x), ChangeTasks)
      BY <1>2, TokenRemoved
    <2> HIDE DEF k
    <2>4. Load(BagRemove(C, x), E, A) \subseteq Load(C, E, A) \ {k}
      BY <2>2, <2>3 DEF Load
    <2> QED BY <2>1, <2>4, OneLess
  <1>3. ASSUME x \in EventMsg \cap DOMAIN E
        PROVE  AtMost(Load(C, BagRemove(E, x), A), n - 1)
    <2> DEFINE k == <<"event", x, E[x]>>
    <2>1. k \in Load(C, E, A)
      BY <1>3, TokenRemoved DEF Load
    <2>2. k \notin Tokens("change", C, ChangeTasks) /\ k \notin Tokens("ask", A, AskTasks)
      BY <1>1
    <2>3. /\ Tokens("event", BagRemove(E, x), EventMsg) \subseteq Tokens("event", E, EventMsg)
          /\ k \notin Tokens("event", BagRemove(E, x), EventMsg)
      BY <1>3, TokenRemoved
    <2> HIDE DEF k
    <2>4. Load(C, BagRemove(E, x), A) \subseteq Load(C, E, A) \ {k}
      BY <2>2, <2>3 DEF Load
    <2> QED BY <2>1, <2>4, OneLess
  <1>4. ASSUME x \in AskTasks \cap DOMAIN A
        PROVE  AtMost(Load(C, E, BagRemove(A, x)), n - 1)
    <2> DEFINE k == <<"ask", x, A[x]>>
    <2>1. k \in Load(C, E, A)
      BY <1>4, TokenRemoved DEF Load
    <2>2. k \notin Tokens("change", C, ChangeTasks) /\ k \notin Tokens("event", E, EventMsg)
      BY <1>1
    <2>3. /\ Tokens("ask", BagRemove(A, x), AskTasks) \subseteq Tokens("ask", A, AskTasks)
          /\ k \notin Tokens("ask", BagRemove(A, x), AskTasks)
      BY <1>4, TokenRemoved
    <2> HIDE DEF k
    <2>4. Load(C, E, BagRemove(A, x)) \subseteq Load(C, E, A) \ {k}
      BY <2>2, <2>3 DEF Load
    <2> QED BY <2>1, <2>4, OneLess
  <1> QED BY <1>2, <1>3, <1>4

\* Replacing what counts by anything adds nothing, in one place or between two.
LEMMA LoadMoved ==
    ASSUME NEW C, NEW E, NEW A, BagOver(C, Task), BagOver(E, Message), BagOver(A, Task),
           NEW n \in Int, AtMost(Load(C, E, A), n), NEW x, NEW y
    PROVE  /\ x \in ChangeTasks \cap DOMAIN C =>
                /\ AtMost(Load(BagAdd(BagRemove(C, x), y), E, A), n)
                /\ AtMost(Load(BagRemove(C, x), BagAdd(E, y), A), n)
           /\ x \in EventMsg \cap DOMAIN E =>
                AtMost(Load(C, BagRemove(E, x), BagAdd(A, y)), n)
           /\ x \in AskTasks \cap DOMAIN A =>
                AtMost(Load(C, E, BagAdd(BagRemove(A, x), y)), n)
  <1>1. /\ BagOver(BagRemove(C, x), Task) /\ BagOver(BagRemove(E, x), Message)
        /\ BagOver(BagRemove(A, x), Task)
    BY RemoveBag
  <1>2. n - 1 \in Int /\ (n - 1) + 1 = n
    OBVIOUS
  <1>3. ASSUME x \in ChangeTasks \cap DOMAIN C
        PROVE  /\ AtMost(Load(BagAdd(BagRemove(C, x), y), E, A), n)
               /\ AtMost(Load(BagRemove(C, x), BagAdd(E, y), A), n)
    <2>1. AtMost(Load(BagRemove(C, x), E, A), n - 1)
      BY <1>3, LoadLess
    <2>2. /\ AtMost(Load(BagAdd(BagRemove(C, x), y), E, A), (n - 1) + 1)
          /\ AtMost(Load(BagRemove(C, x), BagAdd(E, y), A), (n - 1) + 1)
      BY <1>1, <1>2, <2>1, LoadMore
    <2> QED BY <1>2, <2>2
  <1>4. ASSUME x \in EventMsg \cap DOMAIN E
        PROVE  AtMost(Load(C, BagRemove(E, x), BagAdd(A, y)), n)
    <2>1. AtMost(Load(C, BagRemove(E, x), A), n - 1)
      BY <1>4, LoadLess
    <2>2. AtMost(Load(C, BagRemove(E, x), BagAdd(A, y)), (n - 1) + 1)
      BY <1>1, <1>2, <2>1, LoadMore
    <2> QED BY <1>2, <2>2
  <1>5. ASSUME x \in AskTasks \cap DOMAIN A
        PROVE  AtMost(Load(C, E, BagAdd(BagRemove(A, x), y)), n)
    <2>1. AtMost(Load(C, E, BagRemove(A, x)), n - 1)
      BY <1>5, LoadLess
    <2>2. AtMost(Load(C, E, BagAdd(BagRemove(A, x), y)), (n - 1) + 1)
      BY <1>1, <1>2, <2>1, LoadMore
    <2> QED BY <1>2, <2>2
  <1> QED BY <1>3, <1>4, <1>5

-----------------------------------------------------------------------------
(* The setting, and what it does to the decisions of the code.              *)

\* Two nodes, neither of them told to resolve conflicts by size, a second no
\* longer than what hasConflict calls recent, and nobody who deletes the file.
TwoPeers ==
    /\ \E p, q : p # q /\ Node = {p, q}
    /\ TicksPerSecond <= RecentTicks
    /\ \A n \in Node : Strategy[n] # "size"
    /\ ~AllowDelete

\* A step in the first second that is neither a crash nor a blind decision.
CalmStep ==
    /\ now < TicksPerSecond
    /\ restarts' = restarts
    /\ \A n \in Node : ~DecidesBlind(n)

\* Times read from a file that is there, events stamped with the one second.
TimedTask(t) ==
    /\ t.step = "sum" => t.mtime \in Nat
    /\ t.step \in {"publish", "record"} => t.snap.mtime \in Nat
    /\ t.step \in {"detect", "resolve"} => t.event.ts = 0

TimedState(s) == s.modTime \in Nat /\ s.lastSync \in Nat

Timed ==
    \A n \in Node :
        /\ disk[n] # Absent => modTime[n] \in Nat
        /\ fileStates[n] # NoState => TimedState(fileStates[n])
        /\ \A t \in DOMAIN tasks[n] :
             TimedTask(t) /\ (t.step = "resolve" => fileStates[n] # NoState)
        /\ \A m \in DOMAIN inbox[n] : m.type = "file_event" => m.ts = 0

LEMMA Clock == ASSUME TwoPeers, TypeOK, now < TicksPerSecond
               PROVE  now \in Nat /\ now < RecentTicks /\ UnixSeconds(now) = 0
  <1>1. now \in Nat /\ now < TicksPerSecond /\ now < RecentTicks
    BY BoundAssumption, ClockAssumption DEF TwoPeers, TypeOK
  <1>2. now % TicksPerSecond = now
    BY <1>1, ClockAssumption
  <1> QED BY <1>1, <1>2 DEF UnixSeconds

\* Whoever has recorded the file sees a conflict in every event, for the five
\* seconds of hasConflict, and resolves it in its own favour.
LEMMA Rejects ==
    ASSUME TwoPeers, TypeOK, now < TicksPerSecond, Timed, NEW n \in Node, fileStates[n] # NoState,
           NEW e, e.ts = 0
    PROVE  HasConflict(n, e) /\ ~Accepts(n, e)
  <1>1. fileStates[n].modTime \in Nat /\ fileStates[n].lastSync \in Nat
    BY DEF Timed, TimedState
  <1>2. fileStates[n].lastSync > now - RecentTicks
    BY <1>1, Clock, ClockAssumption
  <1>3. ~(e.ts > fileStates[n].modTime)
    BY <1>1
  <1> QED BY <1>2, <1>3 DEF TwoPeers, HasConflict, Accepts

LEMMA StepTimed ==
    ASSUME TwoPeers, CalmStep, TypeOK, WritesOpenFile, Newcomers, Timed, [Next]_vars
    PROVE  /\ Timed'
           /\ \A n \in Node : fileStates[n] # NoState => fileStates'[n] # NoState
  <1> DEFINE Goal == /\ Timed'
                     /\ \A n \in Node : fileStates[n] # NoState => fileStates'[n] # NoState
  <1>types. /\ NodeBags(tasks, Task) /\ NodeBags(inbox, Message)
            /\ disk = [k \in Node |-> disk[k]] /\ modTime = [k \in Node |-> modTime[k]]
            /\ fileStates = [k \in Node |-> fileStates[k]]
            /\ tasks = [k \in Node |-> tasks[k]]
            /\ \A k \in Node : fileStates[k] \in FileState \union {NoState}
    BY DEF TypeOK, NodeBags
  <1>now. now \in Nat /\ UnixSeconds(now) = 0
    BY Clock DEF CalmStep
  <1>quiet. ~AllowDelete /\ restarts \in Nat /\ restarts' = restarts
    BY BoundAssumption DEF TwoPeers, CalmStep, TypeOK
  <1>emit. \A n \in Node : \A t \in DOMAIN tasks[n] :
             t.step = "record" => t.snap \in Snapshot
    BY <1>types DEF NodeBags, BagOver, Task, StatTask, SumTask, EmitTask, DecideTask,
                    RequestTask, WriteTask
  \* A step of node n that keeps what is on the disks, starts at most the
  \* goroutine u, and sends or records only what is timed.
  <1>step. ASSUME NEW n \in Node, NEW u, TimedTask(u),
                  u.step = "resolve" => fileStates[n] # NoState,
                  UNCHANGED <<disk, modTime>>,
                  DOMAIN tasks'[n] \subseteq DOMAIN tasks[n] \union {u},
                  \A k \in Node \ {n} : tasks'[k] = tasks[k],
                  \A k \in Node : \/ fileStates'[k] = fileStates[k]
                                  \/ fileStates'[k] # NoState /\ TimedState(fileStates'[k]),
                  \A k \in Node : \A m \in DOMAIN inbox'[k] :
                    m \in DOMAIN inbox[k] \/ (m.type = "file_event" => m.ts = 0)
           PROVE  Goal
    BY <1>step DEF Timed
  \* A step of node n that changes its file.
  <1>file. ASSUME NEW n \in Node, modTime'[n] \in Nat,
                  \A k \in Node \ {n} : /\ disk'[k] = disk[k] /\ modTime'[k] = modTime[k]
                                        /\ tasks'[k] = tasks[k],
                  \A t \in DOMAIN tasks'[n] :
                    t \in DOMAIN tasks[n] \/ t.step \in {"stat", "write"},
                  fileStates' = fileStates,
                  \A k \in Node : DOMAIN inbox'[k] \subseteq DOMAIN inbox[k]
           PROVE  Goal
    BY <1>file DEF Timed, TimedTask
  <1>still. ASSUME UNCHANGED <<disk, modTime, fileStates, tasks>>,
                   \A k \in Node : \A m \in DOMAIN inbox'[k] :
                     m \in DOMAIN inbox[k] \/ (m.type = "file_event" => m.ts = 0)
            PROVE  Goal
    BY <1>still DEF Timed
  <1> HIDE DEF Goal
  <1>1. ASSUME NEW n \in Writers, User(n) PROVE Goal
    <2>1. PICK c \in UserContent : UserWrite(n, c)
      BY <1>1, <1>quiet DEF User, UserDelete
    <2>2. n \in Node
      BY WritersAssumption
    <2>3. /\ \A k \in Node \ {n} : tasks'[k] = tasks[k]
          /\ DOMAIN tasks'[n] \subseteq DOMAIN tasks[n] \union {StatStep}
      BY <1>types, <2>1, <2>2, RenamedTasks DEF UserWrite
    <2>4. /\ modTime'[n] = now /\ fileStates' = fileStates /\ inbox' = inbox
          /\ \A k \in Node \ {n} : disk'[k] = disk[k] /\ modTime'[k] = modTime[k]
      BY <1>types, <2>1, <2>2 DEF UserWrite
    <2> QED BY <1>file, <1>now, <2>2, <2>3, <2>4 DEF StatStep
  <1>2. ASSUME NEW n \in Node, Stat(n) PROVE Goal
    <2> DEFINE u == [step |-> "sum", size |-> Len(disk[n]), mtime |-> modTime[n]]
    <2>1. disk[n] # Absent
      BY <1>2 DEF Stat, BagIn, BagToSet, StatStep, Newcomers, Newcomer, AskSteps
    <2>2. /\ tasks' = Advance(n, StatStep, u)
          /\ UNCHANGED <<disk, modTime, fileStates, inbox>>
      BY <1>2, <2>1 DEF Stat
    <2>3. TimedTask(u) /\ u.step # "resolve"
      BY <2>1 DEF Timed, TimedTask
    <2> HIDE DEF u
    <2>4. /\ DOMAIN tasks'[n] \subseteq DOMAIN tasks[n] \union {u}
          /\ \A k \in Node \ {n} : tasks'[k] = tasks[k]
      BY <1>types, <2>2, AdvanceMembers
    <2> QED BY <1>step, <2>2, <2>3, <2>4
  <1>3. ASSUME NEW n \in Node, NEW t \in DOMAIN tasks[n], CalculateChecksum(n, t)
        PROVE Goal
    <2> DEFINE u == [step |-> "publish", snap |-> [sum |-> disk[n], size |-> t.size,
                                                   mtime |-> t.mtime]]
    <2>1. tasks' = Advance(n, t, u) /\ UNCHANGED <<disk, modTime, fileStates, inbox>>
      BY <1>3 DEF CalculateChecksum
    <2>2. TimedTask(u) /\ u.step # "resolve"
      BY <1>3 DEF CalculateChecksum, Timed, TimedTask
    <2> HIDE DEF u
    <2>3. /\ DOMAIN tasks'[n] \subseteq DOMAIN tasks[n] \union {u}
          /\ \A k \in Node \ {n} : tasks'[k] = tasks[k]
      BY <1>types, <2>1, AdvanceMembers
    <2> QED BY <1>step, <2>1, <2>2, <2>3
  <1>4. ASSUME NEW n \in Node, NEW t \in DOMAIN tasks[n], PublishFileEvent(n, t)
        PROVE Goal
    <2> DEFINE u == [step |-> "record", snap |-> t.snap]
               e == EventOf(t.snap)
    <2>1. /\ tasks' = Advance(n, t, u) /\ inbox' = Publication(n, e)
          /\ UNCHANGED <<disk, modTime, fileStates>>
      BY <1>4 DEF PublishFileEvent
    <2>2. TimedTask(u) /\ u.step # "resolve"
      BY <1>4 DEF PublishFileEvent, Timed, TimedTask
    <2>3. e.ts = 0
      BY <1>now DEF EventOf
    <2> HIDE DEF u, e
    <2>4. /\ DOMAIN tasks'[n] \subseteq DOMAIN tasks[n] \union {u}
          /\ \A k \in Node \ {n} : tasks'[k] = tasks[k]
      BY <1>types, <2>1, AdvanceMembers
    <2>5. \A k \in Node : DOMAIN inbox'[k] \subseteq DOMAIN inbox[k] \union {e}
      BY <1>types, <2>1, InboxDomain
    <2> QED BY <1>step, <2>1, <2>2, <2>3, <2>4, <2>5
  <1>5. ASSUME NEW n \in Node, NEW t \in DOMAIN tasks[n], UpdateFileState(n, t)
        PROVE Goal
    <2> DEFINE s == [sum |-> t.snap.sum, size |-> t.snap.size,
                     modTime |-> t.snap.mtime, lastSync |-> now, status |-> "synced"]
    <2>1. /\ tasks' = Finish(n, t) /\ fileStates' = [fileStates EXCEPT ![n] = s]
          /\ UNCHANGED <<disk, modTime, inbox>>
      BY <1>5 DEF UpdateFileState
    <2>2. TimedState(s)
      BY <1>5, <1>now DEF UpdateFileState, Timed, TimedTask, TimedState
    <2>3. s \in FileState
      BY <1>5, <1>now, <1>emit DEF UpdateFileState, FileState, Snapshot, Time
    <2> HIDE DEF s
    <2>4. /\ DOMAIN tasks'[n] \subseteq DOMAIN tasks[n]
          /\ \A k \in Node \ {n} : tasks'[k] = tasks[k]
      BY <1>types, <2>1, FinishMembers
    <2>5. \A k \in Node : \/ fileStates'[k] = fileStates[k]
                          \/ fileStates'[k] # NoState /\ TimedState(fileStates'[k])
      BY <1>types, <2>1, <2>2, <2>3, NoStateAssumption
    <2>6. TimedTask(StatStep) /\ StatStep.step # "resolve"
      BY DEF TimedTask, StatStep
    <2> QED BY <1>step, <2>1, <2>4, <2>5, <2>6
  <1>6. ASSUME NEW n \in Node, NEW m \in DOMAIN inbox[n], DeliverEvent(n, m) PROVE Goal
    <2> DEFINE u == [step |-> "detect", event |-> m]
    <2>1. /\ tasks' = tasks \/ tasks' = Spawn(n, u)
          /\ inbox' = Consume(n, m) /\ UNCHANGED <<disk, modTime, fileStates>>
      BY <1>6 DEF DeliverEvent
    <2>2. TimedTask(u) /\ u.step # "resolve"
      BY <1>6 DEF DeliverEvent, Timed, TimedTask
    <2> HIDE DEF u
    <2>3. /\ DOMAIN tasks'[n] \subseteq DOMAIN tasks[n] \union {u}
          /\ \A k \in Node \ {n} : tasks'[k] = tasks[k]
      BY <1>types, <2>1, SpawnMembers
    <2>4. \A k \in Node : DOMAIN inbox'[k] \subseteq DOMAIN inbox[k]
      BY <1>types, <2>1, InboxDomain
    <2> QED BY <1>step, <2>1, <2>2, <2>3, <2>4
  <1>7. ASSUME NEW n \in Node, NEW t \in DOMAIN tasks[n], DetectConflict(n, t) PROVE Goal
    <2> DEFINE r == [step |-> "resolve", event |-> t.event]
    <2>1. PICK u : /\ tasks' = Advance(n, t, u)
                   /\ u = RequestStep \/ (u = r /\ HasConflict(n, t.event))
      BY <1>7 DEF DetectConflict
    <2>2. TimedTask(u) /\ (u.step = "resolve" => fileStates[n] # NoState)
      BY <1>7, <2>1 DEF DetectConflict, HasConflict, Timed, TimedTask, RequestStep
    <2> HIDE DEF r
    <2>3. /\ DOMAIN tasks'[n] \subseteq DOMAIN tasks[n] \union {u}
          /\ \A k \in Node \ {n} : tasks'[k] = tasks[k]
      BY <1>types, <2>1, AdvanceMembers
    <2>4. UNCHANGED <<disk, modTime, fileStates, inbox>>
      BY <1>7 DEF DetectConflict
    <2> QED BY <1>step, <2>2, <2>3, <2>4
  <1>8. ASSUME NEW n \in Node, NEW t \in DOMAIN tasks[n], ResolveConflict(n, t) PROVE Goal
    <2>1. fileStates[n] # NoState /\ TimedState(fileStates[n])
      BY <1>8 DEF ResolveConflict, Timed
    <2>2. MarkedConflict(n) = [fileStates[n] EXCEPT !.status = "conflict"]
      BY <2>1 DEF MarkedConflict
    <2>3. TimedState(MarkedConflict(n)) /\ MarkedConflict(n) \in FileState
      BY <1>types, <2>1, <2>2 DEF TimedState, FileState
    <2>4. /\ \/ fileStates' = fileStates
             \/ fileStates' = [fileStates EXCEPT ![n] = MarkedConflict(n)]
          /\ tasks' = Advance(n, t, RequestStep) \/ tasks' = Finish(n, t)
          /\ UNCHANGED <<disk, modTime, inbox>>
      BY <1>8 DEF ResolveConflict
    <2>5. \A k \in Node : \/ fileStates'[k] = fileStates[k]
                          \/ fileStates'[k] # NoState /\ TimedState(fileStates'[k])
      BY <1>types, <2>3, <2>4, NoStateAssumption
    <2>6. /\ DOMAIN tasks'[n] \subseteq DOMAIN tasks[n] \union {RequestStep}
          /\ \A k \in Node \ {n} : tasks'[k] = tasks[k]
      BY <1>types, <2>4, AdvanceMembers, FinishMembers
    <2>7. TimedTask(RequestStep) /\ RequestStep.step # "resolve"
      BY DEF TimedTask, RequestStep
    <2> QED BY <1>step, <2>4, <2>5, <2>6, <2>7
  <1>9. ASSUME NEW n \in Node, RequestFile(n) PROVE Goal
    <2> DEFINE q == [type |-> "file_request"]
    <2>1. /\ tasks' = Finish(n, RequestStep) /\ inbox' = Publication(n, q)
          /\ UNCHANGED <<disk, modTime, fileStates>> /\ q.type # "file_event"
      BY <1>9 DEF RequestFile
    <2> HIDE DEF q
    <2>2. /\ DOMAIN tasks'[n] \subseteq DOMAIN tasks[n]
          /\ \A k \in Node \ {n} : tasks'[k] = tasks[k]
      BY <1>types, <2>1, FinishMembers
    <2>3. \A k \in Node : DOMAIN inbox'[k] \subseteq DOMAIN inbox[k] \union {q}
      BY <1>types, <2>1, InboxDomain
    <2>4. TimedTask(StatStep) /\ StatStep.step # "resolve"
      BY DEF TimedTask, StatStep
    <2> QED BY <1>step, <2>1, <2>2, <2>3, <2>4
  <1>10. ASSUME NEW n \in Node, NEW m \in DOMAIN inbox[n], HandleFileRequest(n, m)
         PROVE Goal
    <2> DEFINE rest == Consume(n, m)
               answer == [type |-> "file_response", data |-> disk[n]]
    <2>1. /\ UNCHANGED <<disk, modTime, fileStates, tasks>>
          /\ \A r \in Node : inbox'[r] = BagAdd(rest[r], answer) \/ inbox'[r] = rest[r]
          /\ answer.type # "file_event"
      BY <1>10 DEF HandleFileRequest
    <2>2. \A r \in Node : DOMAIN rest[r] \subseteq DOMAIN inbox[r]
      BY <1>types, InboxDomain
    <2> HIDE DEF rest, answer
    <2>3. \A r \in Node : DOMAIN BagAdd(rest[r], answer) = DOMAIN rest[r] \union {answer}
      BY BagMembers
    <2>4. \A r \in Node : DOMAIN inbox'[r] \subseteq DOMAIN inbox[r] \union {answer}
      BY <2>1, <2>2, <2>3
    <2> QED BY <1>still, <2>1, <2>4
  <1>11. ASSUME NEW n \in Node, NEW m \in DOMAIN inbox[n], HandleFileResponse(n, m)
         PROVE Goal
    <2> DEFINE u == [step |-> "write", data |-> m.data]
    <2>1. PICK ts \in Notified(tasks[n]) : tasks' = [tasks EXCEPT ![n] = BagAdd(ts, u)]
      BY <1>11 DEF HandleFileResponse
    <2>2. u.step = "write" /\ StatStep.step = "stat"
      BY DEF StatStep
    <2> HIDE DEF u
    <2>3. DOMAIN ts = DOMAIN tasks[n] \union {StatStep}
      BY NotifiedMembers
    <2>4. DOMAIN BagAdd(ts, u) = DOMAIN ts \union {u}
      BY BagMembers
    <2>5. /\ DOMAIN tasks'[n] = DOMAIN tasks[n] \union {StatStep, u}
          /\ \A k \in Node \ {n} : tasks'[k] = tasks[k]
      BY <1>types, <2>1, <2>3, <2>4
    <2>6. /\ modTime'[n] = now /\ fileStates' = fileStates
          /\ \A k \in Node \ {n} : disk'[k] = disk[k] /\ modTime'[k] = modTime[k]
      BY <1>types, <1>11 DEF HandleFileResponse
    <2>7. \A k \in Node : DOMAIN inbox'[k] \subseteq DOMAIN inbox[k]
      BY <1>types, <1>11, InboxDomain DEF HandleFileResponse
    <2> QED BY <1>file, <1>now, <2>2, <2>5, <2>6, <2>7
  <1>12. ASSUME NEW n \in Node, NEW t \in DOMAIN tasks[n], WriteData(n, t) PROVE Goal
    <2>1. CASE t.data = << >>
      <3>1. /\ tasks' = Finish(n, t)
            /\ UNCHANGED <<disk, modTime, fileStates, inbox>>
        BY <1>12, <2>1 DEF WriteData
      <3>2. /\ DOMAIN tasks'[n] \subseteq DOMAIN tasks[n]
            /\ \A k \in Node \ {n} : tasks'[k] = tasks[k]
        BY <1>types, <3>1, FinishMembers
      <3>3. TimedTask(StatStep) /\ StatStep.step # "resolve"
        BY DEF TimedTask, StatStep
      <3> QED BY <1>step, <3>1, <3>2, <3>3
    <2>2. CASE t.data # << >>
      <3>1. PICK ts \in Notified(BagRemove(tasks[n], t)) : tasks' = [tasks EXCEPT ![n] = ts]
        BY <1>12, <2>2 DEF WriteData
      <3>2. DOMAIN ts = DOMAIN BagRemove(tasks[n], t) \union {StatStep}
        BY NotifiedMembers
      <3>3. DOMAIN BagRemove(tasks[n], t) \subseteq DOMAIN tasks[n]
        BY BagDomains
      <3>4. /\ DOMAIN tasks'[n] \subseteq DOMAIN tasks[n] \union {StatStep}
            /\ \A k \in Node \ {n} : tasks'[k] = tasks[k]
        BY <1>types, <3>1, <3>2, <3>3
      <3>5. /\ modTime'[n] = now /\ fileStates' = fileStates /\ inbox' = inbox
            /\ \A k \in Node \ {n} : disk'[k] = disk[k] /\ modTime'[k] = modTime[k]
        BY <1>types, <1>12, <2>2 DEF WriteData
      <3> QED BY <1>file, <1>now, <3>4, <3>5 DEF StatStep
    <2> QED BY <2>1, <2>2
  <1>13. ASSUME NEW n \in Node, NEW m \in DOMAIN inbox[n], Lose(n, m) PROVE Goal
    <2>1. inbox' = Consume(n, m) /\ UNCHANGED <<disk, modTime, fileStates, tasks>>
      BY <1>13 DEF Lose
    <2>2. \A k \in Node : DOMAIN inbox'[k] \subseteq DOMAIN inbox[k]
      BY <1>types, <2>1, InboxDomain
    <2> QED BY <1>still, <2>1, <2>2
  <1>14. ASSUME NEW n \in Node, NEW t \in DOMAIN tasks[n], PublishFails(n, t) PROVE Goal
    <2>1. /\ tasks' = Finish(n, t)
          /\ UNCHANGED <<disk, modTime, fileStates, inbox>>
      BY <1>14 DEF PublishFails
    <2>2. /\ DOMAIN tasks'[n] \subseteq DOMAIN tasks[n]
          /\ \A k \in Node \ {n} : tasks'[k] = tasks[k]
      BY <1>types, <2>1, FinishMembers
    <2>3. TimedTask(StatStep) /\ StatStep.step # "resolve"
      BY DEF TimedTask, StatStep
    <2> QED BY <1>step, <2>1, <2>2, <2>3
  <1>15. ASSUME NEW n \in Node, Restart(n) PROVE FALSE
    BY <1>15, <1>quiet DEF Restart
  <1>16. ASSUME Tick \/ UNCHANGED vars PROVE Goal
    BY <1>16, <1>still DEF Tick, vars
  <1> QED
    BY <1>1, <1>2, <1>3, <1>4, <1>5, <1>6, <1>7, <1>8, <1>9, <1>10, <1>11, <1>12,
       <1>13, <1>14, <1>15, <1>16
    DEF Next, Watcher, Handler, Fault, Goal

-----------------------------------------------------------------------------
(* Whoever records first stays ahead.                                       *)

\* Node f neither asks nor is answered.
Safe(f, g) ==
    /\ \A t \in DOMAIN tasks[f] : t.step \notin {"request", "write"}
    /\ \A m \in DOMAIN inbox[f] : m.type # "file_response"
    /\ \A m \in DOMAIN inbox[g] : m.type # "file_request"

\* Node f has published its file and recorded it, or has the record to make, and
\* what it has is what a user saved.
Ahead(f, g) ==
    /\ Safe(f, g)
    /\ fileStates[f] # NoState \/ \E t \in DOMAIN tasks[f] : t.step = "record"
    /\ disk[f] \in UserContent

\* Before anything is published.
Early ==
    /\ \A n \in Node : /\ DOMAIN inbox[n] = {} /\ fileStates[n] = NoState
                       /\ \A t \in DOMAIN tasks[n] : t.step \in ChangeSteps
                       /\ disk[n] \in UserContent \union {Absent}
    /\ ops > 0 => \E n \in Node : disk[n] # Absent

\* What may still make node g ask costs no more than is left of the budget.
Budget(f, g) == AtMost(Load(tasks[f], inbox[g], tasks[g]), ops - requests)

LEMMA EarlyIsSafe == ASSUME Early, NEW f \in Node, NEW g \in Node PROVE Safe(f, g)
  BY DEF Early, Safe, ChangeSteps

\* A step of one node's goroutines leaves those of the other alone.
LEMMA TasksElsewhere ==
    ASSUME NodeBags(tasks, Task), NEW n \in Node, NEW k \in Node, n # k, NEW t, NEW u
    PROVE  /\ Spawn(n, u)[k] = tasks[k]
           /\ Finish(n, t)[k] = tasks[k]
           /\ Advance(n, t, u)[k] = tasks[k]
           /\ Renamed(n, u)[k] = tasks[k]
  BY DEF NodeBags, Spawn, Finish, Advance, Renamed

\* A change by a user adds one to the load and to the budget, a request takes
\* one from both, and every other step moves it on or drops it.
LEMMA StepBudget ==
    ASSUME TwoPeers, CalmStep, TypeOK, Timed, NEW f \in Node, NEW g \in Node, f # g,
           Node = {f, g}, Safe(f, g), Budget(f, g), [Next]_vars
    PROVE  Budget(f, g)'
  <1> DEFINE C == tasks[f]
             E == inbox[g]
             A == tasks[g]
             N == ops - requests
             Goal == Budget(f, g)'
  <1>types. /\ NodeBags(tasks, Task) /\ NodeBags(inbox, Message)
            /\ tasks = [k \in Node |-> tasks[k]] /\ inbox = [k \in Node |-> inbox[k]]
            /\ ops \in Nat /\ requests \in Nat
    BY BoundAssumption DEF TypeOK, NodeBags
  <1>bags. /\ BagOver(C, Task) /\ BagOver(E, Message) /\ BagOver(A, Task)
           /\ N \in Int /\ AtMost(Load(C, E, A), N)
    BY <1>types DEF NodeBags, Budget
  <1>kinds. /\ \A t \in DOMAIN C : t.step \in ChangeSteps => t \in ChangeTasks
            /\ \A t \in DOMAIN A : t.step \in AskSteps => t \in AskTasks
            /\ \A m \in DOMAIN E : m.type = "file_event" => m \in EventMsg
            /\ \A m : m.type # "file_event" => m \notin EventMsg
            /\ \A t : t.step \notin ChangeSteps => t \notin ChangeTasks
            /\ \A t : t.step \notin AskSteps => t \notin AskTasks
    BY <1>bags DEF BagOver, ChangeTasks, AskTasks, Message, EventMsg, RequestMsg, ResponseMsg
  <1>quiet. ~AllowDelete /\ restarts \in Nat /\ restarts' = restarts
    BY BoundAssumption DEF TwoPeers, CalmStep, TypeOK
  \* A step of node f, and one of node g.
  <1>f. ASSUME NEW B, tasks' = [tasks EXCEPT ![f] = B], inbox'[g] = E, ops' = ops,
               requests' = requests, AtMost(Load(B, E, A), N)
        PROVE  Goal
    BY <1>f, <1>types DEF Budget
  <1>g. ASSUME NEW B, tasks' = [tasks EXCEPT ![g] = B], ops' = ops,
               requests' = requests, AtMost(Load(C, inbox'[g], B), N)
        PROVE  Goal
    BY <1>g, <1>types DEF Budget
  <1>still. ASSUME tasks' = tasks, ops' = ops, requests' = requests,
                   AtMost(Load(C, inbox'[g], A), N)
            PROVE  Goal
    BY <1>still DEF Budget
  <1> HIDE DEF Goal, C, E, A, N
  \* A goroutine ends; one that counts goes on as another; one that does not
  \* count starts or goes on.
  <1>finish. ASSUME NEW n \in Node, NEW t, tasks' = Finish(n, t),
                    UNCHANGED <<inbox, ops, requests>>
             PROVE  Goal
    <2>1. AtMost(Load(BagRemove(C, t), E, A), N) /\ AtMost(Load(C, E, BagRemove(A, t)), N)
      BY <1>bags, LoadKept
    <2>2. CASE n = f
      BY <1>f, <1>finish, <2>1, <2>2 DEF Finish, C, E
    <2>3. CASE n = g
      BY <1>g, <1>finish, <2>1, <2>3 DEF Finish, A, E
    <2> QED BY <2>2, <2>3
  <1>advance. ASSUME NEW n \in Node, NEW t \in DOMAIN tasks[n], NEW u,
                     tasks' = Advance(n, t, u), UNCHANGED <<inbox, ops, requests>>,
                     n = f => t.step \in ChangeSteps \/ u.step \notin ChangeSteps,
                     n = g => t.step \in AskSteps \/ u.step \notin AskSteps
              PROVE  Goal
    <2>1. CASE n = f
      <3>1. /\ BagOver(BagRemove(C, t), Task)
            /\ AtMost(Load(BagRemove(C, t), E, A), N)
        BY <1>bags, LoadKept, RemoveBag
      <3>2. AtMost(Load(BagAdd(BagRemove(C, t), u), E, A), N)
        <4>1. CASE t.step \in ChangeSteps
          <5>1. t \in ChangeTasks \cap DOMAIN C
            BY <1>advance, <1>kinds, <2>1, <4>1 DEF C
          <5> QED BY <1>bags, <5>1, LoadMoved
        <4>2. CASE u.step \notin ChangeSteps
          <5>1. u \notin ChangeTasks
            BY <1>kinds, <4>2
          <5> QED BY <1>bags, <3>1, <5>1, LoadKept
        <4> QED BY <1>advance, <2>1, <4>1, <4>2
      <3> QED BY <1>f, <1>advance, <2>1, <3>2 DEF Advance, C, E
    <2>2. CASE n = g
      <3>1. /\ BagOver(BagRemove(A, t), Task)
            /\ AtMost(Load(C, E, BagRemove(A, t)), N)
        BY <1>bags, LoadKept, RemoveBag
      <3>2. AtMost(Load(C, E, BagAdd(BagRemove(A, t), u)), N)
        <4>1. CASE t.step \in AskSteps
          <5>1. t \in AskTasks \cap DOMAIN A
            BY <1>advance, <1>kinds, <2>2, <4>1 DEF A
          <5> QED BY <1>bags, <5>1, LoadMoved
        <4>2. CASE u.step \notin AskSteps
          <5>1. u \notin AskTasks
            BY <1>kinds, <4>2
          <5> QED BY <1>bags, <3>1, <5>1, LoadKept
        <4> QED BY <1>advance, <2>2, <4>1, <4>2
      <3> QED BY <1>g, <1>advance, <2>2, <3>2 DEF Advance, A, E
    <2> QED BY <2>1, <2>2
  \* What the kernel makes of a change of the file of node g.
  <1>notified. ASSUME NEW B, BagOver(B, Task), NEW X, BagOver(X, Message),
                      AtMost(Load(C, X, B), N), NEW ts \in Notified(B)
               PROVE  BagOver(ts, Task) /\ AtMost(Load(C, X, ts), N)
    <2>1. BagOver(ts, Task)
      BY <1>notified, NotifiedTyped
    <2>2. StatStep \notin AskTasks
      BY <1>kinds DEF StatStep, AskSteps
    <2>3. AtMost(Load(C, X, BagAdd(B, StatStep)), N)
      BY <1>bags, <1>notified, <2>2, LoadKept
    <2> QED BY <1>notified, <2>1, <2>3 DEF Notified
  <1>1. ASSUME NEW n \in Writers, User(n) PROVE Goal
    <2>1. PICK c \in UserContent : UserWrite(n, c)
      BY <1>1, <1>quiet DEF User, UserDelete
    <2>2. n \in Node /\ ops' - requests' = N + 1 /\ inbox' = inbox
      BY <1>types, <2>1, WritersAssumption DEF UserWrite, N
    <2>3. /\ AtMost(Load(BagAdd(WithoutWrites(C), StatStep), E, A), N + 1)
          /\ AtMost(Load(C, E, BagAdd(WithoutWrites(A), StatStep)), N + 1)
      <3>1. BagOver(WithoutWrites(C), Task) /\ BagOver(WithoutWrites(A), Task)
        BY <1>bags DEF BagOver, WithoutWrites
      <3>2. /\ AtMost(Load(WithoutWrites(C), E, A), N)
            /\ AtMost(Load(C, E, WithoutWrites(A)), N)
        BY <1>bags, LoadUnwritten
      <3> QED BY <1>bags, <3>1, <3>2, LoadMore
    <2>4. tasks' = [tasks EXCEPT ![n] = BagAdd(WithoutWrites(@), StatStep)]
      BY <2>1 DEF UserWrite, Renamed
    <2>5. CASE n = f
      BY <1>types, <2>2, <2>3, <2>4, <2>5 DEF Goal, Budget, C, E, A
    <2>6. CASE n = g
      BY <1>types, <2>2, <2>3, <2>4, <2>6 DEF Goal, Budget, C, E, A
    <2> QED BY <2>2, <2>5, <2>6
  <1>2. ASSUME NEW n \in Node, Stat(n) PROVE Goal
    <2>1. PICK u : /\ tasks' = Advance(n, StatStep, u) /\ u.step \in {"sum", "publish"}
      BY <1>2 DEF Stat
    <2>2. StatStep \in DOMAIN tasks[n] /\ UNCHANGED <<inbox, ops, requests>>
      BY <1>2 DEF Stat, BagIn, BagToSet
    <2> QED BY <1>advance, <2>1, <2>2 DEF StatStep, ChangeSteps, AskSteps
  <1>3. ASSUME NEW n \in Node, NEW t \in DOMAIN tasks[n], CalculateChecksum(n, t)
        PROVE  Goal
    <2>1. PICK u : tasks' = Advance(n, t, u) /\ u.step = "publish"
      BY <1>3 DEF CalculateChecksum
    <2>2. t.step = "sum" /\ UNCHANGED <<inbox, ops, requests>>
      BY <1>3 DEF CalculateChecksum
    <2> QED BY <1>advance, <2>1, <2>2 DEF ChangeSteps, AskSteps
  <1>4. ASSUME NEW n \in Node, NEW t \in DOMAIN tasks[n], PublishFileEvent(n, t)
        PROVE  Goal
    <2> DEFINE u == [step |-> "record", snap |-> t.snap]
               e == EventOf(t.snap)
    <2>1. /\ tasks' = Advance(n, t, u) /\ inbox' = Publication(n, e) /\ t.step = "publish"
          /\ ops' = ops /\ requests' = requests
      BY <1>4 DEF PublishFileEvent
    <2>2. u \notin ChangeTasks /\ u \notin AskTasks
      BY <1>kinds DEF ChangeSteps, AskSteps
    <2> HIDE DEF u, e
    <2>3. CASE n = f
      <3> DEFINE R == BagRemove(C, t)
                 X == BagAdd(E, e)
      <3>1. t \in ChangeTasks \cap DOMAIN C
        BY <1>kinds, <2>1, <2>3 DEF C, ChangeSteps
      <3>2. AtMost(Load(R, X, A), N)
        BY <1>bags, <3>1, LoadMoved
      <3>3. BagOver(R, Task) /\ inbox'[g] = X /\ e \in Message
        <4>1. t \in EmitTask /\ now \in Nat
          BY <1>types, <2>1, BoundAssumption
          DEF NodeBags, BagOver, Task, StatTask, SumTask, EmitTask, DecideTask,
              RequestTask, WriteTask, TypeOK
        <4>2. e \in EventMsg
          BY <4>1, EventTyped DEF EmitTask, e
        <4>3. g \in Receivers(n)
          BY <2>3 DEF Receivers
        <4> QED BY <1>bags, <2>1, <4>2, <4>3, RemoveBag DEF Publication, Message, E
      <3>4. BagOver(X, Message)
        BY <1>bags, <3>3, AddBag
      <3> HIDE DEF R, X
      <3>5. AtMost(Load(BagAdd(R, u), X, A), N)
        BY <1>bags, <2>2, <3>2, <3>3, <3>4, LoadKept
      <3>6. tasks'[f] = BagAdd(R, u) /\ tasks'[g] = A /\ ops' - requests' = N
        BY <1>types, <2>1, <2>3 DEF Advance, R, A, C, N
      <3> QED BY <3>3, <3>5, <3>6 DEF Goal, Budget
    <2>4. CASE n = g
      <3>1. AtMost(Load(C, E, BagRemove(A, t)), N) /\ BagOver(BagRemove(A, t), Task)
        BY <1>bags, LoadKept, RemoveBag
      <3>2. AtMost(Load(C, E, BagAdd(BagRemove(A, t), u)), N)
        BY <1>bags, <2>2, <3>1, LoadKept
      <3>3. inbox'[g] = E
        BY <2>1, <2>4 DEF Publication, Receivers, E
      <3> QED BY <1>g, <2>1, <2>4, <3>2, <3>3 DEF Advance, A
    <2> QED BY <2>3, <2>4
  <1>5. ASSUME NEW n \in Node, NEW t \in DOMAIN tasks[n],
               UpdateFileState(n, t) \/ PublishFails(n, t)
        PROVE  Goal
    BY <1>5, <1>finish DEF UpdateFileState, PublishFails
  <1>6. ASSUME NEW n \in Node, NEW m \in DOMAIN inbox[n], DeliverEvent(n, m) PROVE Goal
    <2> DEFINE u == [step |-> "detect", event |-> m]
    <2>1. /\ inbox' = Consume(n, m) /\ ops' = ops /\ requests' = requests
          /\ tasks' = tasks \/ tasks' = Spawn(n, u)
          /\ m.type = "file_event" /\ u.step = "detect"
      BY <1>6 DEF DeliverEvent
    <2> HIDE DEF u
    <2>2. CASE n = f
      <3>1. inbox'[g] = E
        BY <1>types, <2>1, <2>2 DEF Consume, E
      <3>2. u \notin ChangeTasks
        BY <1>kinds, <2>1 DEF ChangeSteps
      <3>3. AtMost(Load(BagAdd(C, u), E, A), N)
        BY <1>bags, <3>2, LoadKept
      <3>4. CASE tasks' = tasks
        BY <1>still, <1>bags, <2>1, <3>1, <3>4
      <3>5. CASE tasks' = Spawn(n, u)
        BY <1>f, <2>1, <2>2, <3>1, <3>3, <3>5 DEF Spawn, C
      <3> QED BY <2>1, <3>4, <3>5
    <2>3. CASE n = g
      <3>1. inbox'[g] = BagRemove(E, m) /\ m \in EventMsg \cap DOMAIN E
        BY <1>types, <1>kinds, <2>1, <2>3 DEF Consume, E
      <3>2. /\ AtMost(Load(C, BagRemove(E, m), BagAdd(A, u)), N)
            /\ AtMost(Load(C, BagRemove(E, m), A), N)
        BY <1>bags, <3>1, LoadMoved, LoadKept
      <3>3. CASE tasks' = tasks
        BY <1>still, <2>1, <3>1, <3>2, <3>3
      <3>4. CASE tasks' = Spawn(n, u)
        BY <1>g, <2>1, <2>3, <3>1, <3>2, <3>4 DEF Spawn, A
      <3> QED BY <2>1, <3>3, <3>4
    <2> QED BY <2>2, <2>3
  <1>7. ASSUME NEW n \in Node, NEW t \in DOMAIN tasks[n], DetectConflict(n, t) PROVE Goal
    <2>1. PICK u : tasks' = Advance(n, t, u) /\ u.step \in {"resolve", "request"}
      BY <1>7 DEF DetectConflict, RequestStep
    <2>2. t.step = "detect" /\ UNCHANGED <<inbox, ops, requests>>
      BY <1>7 DEF DetectConflict
    <2> QED BY <1>advance, <2>1, <2>2 DEF ChangeSteps, AskSteps
  <1>8. ASSUME NEW n \in Node, NEW t \in DOMAIN tasks[n], ResolveConflict(n, t) PROVE Goal
    <2>1. fileStates[n] # NoState /\ t.event.ts = 0
      BY <1>8 DEF ResolveConflict, Timed, TimedTask
    <2>2. ~Accepts(n, t.event)
      BY <2>1, Rejects DEF CalmStep
    <2> QED BY <1>8, <1>finish, <2>2 DEF ResolveConflict
  <1>9. ASSUME NEW n \in Node, RequestFile(n) PROVE Goal
    <2>1. /\ RequestStep \in DOMAIN tasks[n] /\ RequestStep.step = "request"
          /\ tasks' = Finish(n, RequestStep)
      BY <1>9 DEF RequestFile, BagIn, BagToSet, RequestStep
    <2>2. n = g
      BY <2>1 DEF Safe
    <2>3. inbox'[g] = E /\ ops' - requests' = N - 1
      BY <1>9, <1>types, <2>2 DEF RequestFile, Publication, Receivers, E, N
    <2>4. RequestStep \in AskTasks \cap DOMAIN A
      BY <1>kinds, <2>1, <2>2 DEF A, AskSteps
    <2>5. AtMost(Load(C, E, BagRemove(A, RequestStep)), N - 1)
      BY <1>bags, <2>4, LoadLess
    <2>6. tasks'[f] = C /\ tasks'[g] = BagRemove(A, RequestStep)
      BY <1>types, <2>1, <2>2 DEF Finish, C, A
    <2> QED BY <2>3, <2>5, <2>6 DEF Goal, Budget
  <1>10. ASSUME NEW n \in Node, NEW m \in DOMAIN inbox[n], HandleFileRequest(n, m)
         PROVE  Goal
    <2> DEFINE answer == [type |-> "file_response", data |-> disk[n]]
    <2>1. n = f
      BY <1>10 DEF HandleFileRequest, Safe
    <2>2. /\ tasks' = tasks /\ ops' = ops /\ requests' = requests
          /\ inbox'[g] = BagAdd(E, answer) \/ inbox'[g] = E
      BY <1>10, <1>types, <2>1 DEF HandleFileRequest, Consume, E
    <2>3. answer \notin EventMsg
      BY <1>kinds
    <2> HIDE DEF answer
    <2>4. AtMost(Load(C, BagAdd(E, answer), A), N)
      BY <1>bags, <2>3, LoadKept
    <2> QED BY <1>still, <1>bags, <2>2, <2>4
  <1>11. ASSUME NEW n \in Node, NEW m \in DOMAIN inbox[n], HandleFileResponse(n, m)
         PROVE  Goal
    <2> DEFINE u == [step |-> "write", data |-> m.data]
    <2>1. n = g
      BY <1>11 DEF HandleFileResponse, Safe
    <2>2. PICK ts \in Notified(tasks[n]) : tasks' = [tasks EXCEPT ![n] = BagAdd(ts, u)]
      BY <1>11 DEF HandleFileResponse
    <2>3. inbox'[g] = BagRemove(E, m) /\ ops' = ops /\ requests' = requests
      BY <1>11, <1>types, <2>1 DEF HandleFileResponse, Consume, E
    <2>4. u \notin AskTasks
      BY <1>kinds DEF AskSteps
    <2> HIDE DEF u
    <2>5. AtMost(Load(C, BagRemove(E, m), A), N) /\ BagOver(BagRemove(E, m), Message)
      BY <1>bags, LoadKept, RemoveBag
    <2>6. BagOver(ts, Task) /\ AtMost(Load(C, BagRemove(E, m), ts), N)
      BY <1>bags, <1>notified, <2>1, <2>2, <2>5 DEF A
    <2>7. AtMost(Load(C, BagRemove(E, m), BagAdd(ts, u)), N)
      BY <1>bags, <2>4, <2>5, <2>6, LoadKept
    <2> QED BY <1>g, <2>1, <2>2, <2>3, <2>7
  <1>12. ASSUME NEW n \in Node, NEW t \in DOMAIN tasks[n], WriteData(n, t) PROVE Goal
    <2>1. n = g /\ inbox'[g] = E /\ ops' = ops /\ requests' = requests
      BY <1>12 DEF WriteData, Safe, E
    <2>2. CASE t.data = << >>
      BY <1>12, <1>finish, <2>2 DEF WriteData
    <2>3. CASE t.data # << >>
      <3>1. PICK ts \in Notified(BagRemove(tasks[n], t)) : tasks' = [tasks EXCEPT ![n] = ts]
        BY <1>12, <2>3 DEF WriteData
      <3>2. AtMost(Load(C, E, BagRemove(A, t)), N) /\ BagOver(BagRemove(A, t), Task)
        BY <1>bags, LoadKept, RemoveBag
      <3>3. AtMost(Load(C, E, ts), N)
        BY <1>bags, <1>notified, <2>1, <3>1, <3>2 DEF A
      <3> QED BY <1>g, <2>1, <3>1, <3>3
    <2> QED BY <2>2, <2>3
  <1>13. ASSUME NEW n \in Node, NEW m \in DOMAIN inbox[n], Lose(n, m) PROVE Goal
    <2>1. /\ tasks' = tasks /\ ops' = ops /\ requests' = requests
          /\ inbox'[g] = BagRemove(E, m) \/ inbox'[g] = E
      BY <1>13, <1>types DEF Lose, Consume, E
    <2>2. AtMost(Load(C, BagRemove(E, m), A), N)
      BY <1>bags, LoadKept
    <2> QED BY <1>still, <1>bags, <2>1, <2>2
  <1>14. ASSUME NEW n \in Node, Restart(n) PROVE FALSE
    BY <1>14, <1>quiet DEF Restart
  <1>15. ASSUME Tick \/ UNCHANGED vars PROVE Goal
    BY <1>15, <1>still, <1>bags DEF Tick, vars, E
  <1> QED
    BY <1>1, <1>2, <1>3, <1>4, <1>5, <1>6, <1>7, <1>8, <1>9, <1>10, <1>11, <1>12,
       <1>13, <1>14, <1>15
    DEF Next, Watcher, Handler, Fault, Goal

LEMMA StepAhead ==
    ASSUME TwoPeers, CalmStep, TypeOK, WritesOpenFile, Newcomers, Timed,
           NEW f \in Node, NEW g \in Node, f # g, Node = {f, g}, Ahead(f, g), [Next]_vars
    PROVE  Ahead(f, g)'
  <1> DEFINE Goal == Ahead(f, g)'
  <1>types. /\ NodeBags(tasks, Task) /\ NodeBags(inbox, Message)
            /\ disk = [k \in Node |-> disk[k]] /\ tasks = [k \in Node |-> tasks[k]]
            /\ fileStates = [k \in Node |-> fileStates[k]]
            /\ inbox = [k \in Node |-> inbox[k]]
    BY DEF TypeOK, NodeBags
  <1>quiet. ~AllowDelete /\ restarts \in Nat /\ restarts' = restarts
    BY BoundAssumption DEF TwoPeers, CalmStep, TypeOK
  <1>states. fileStates[f] # NoState => fileStates'[f] # NoState
    BY StepTimed
  <1>safe. /\ \A t \in DOMAIN tasks[f] : t.step \notin {"request", "write"}
           /\ \A m \in DOMAIN inbox[f] : m.type # "file_response"
           /\ \A m \in DOMAIN inbox[g] : m.type # "file_request"
           /\ disk[f] \in UserContent
    BY DEF Ahead, Safe
  <1>keeps. ASSUME disk'[f] \in UserContent,
                   \A t \in DOMAIN tasks'[f] :
                     t \in DOMAIN tasks[f] \/ t.step \notin {"request", "write"},
                   \A t \in DOMAIN tasks[f] :
                     t.step = "record" => t \in DOMAIN tasks'[f] \/ fileStates'[f] # NoState,
                   \A m \in DOMAIN inbox'[f] : m \in DOMAIN inbox[f] \/ m.type # "file_response",
                   \A m \in DOMAIN inbox'[g] : m \in DOMAIN inbox[g] \/ m.type # "file_request"
            PROVE  Goal
    <2>1. Safe(f, g)'
      BY <1>keeps, <1>safe, <1>states DEF Safe
    <2>2. (fileStates[f] # NoState \/ \E t \in DOMAIN tasks[f] : t.step = "record")'
      BY <1>keeps, <1>states DEF Ahead
    <2> QED BY <1>keeps, <2>1, <2>2 DEF Ahead
  \* A step that sends nothing but events.
  <1>calm. ASSUME disk'[f] \in UserContent, NEW n \in Node, NEW t, NEW u,
                  \/ tasks' = tasks        \/ tasks' = Spawn(n, u)
                  \/ tasks' = Finish(n, t) \/ tasks' = Advance(n, t, u),
                  u.step \notin {"request", "write"},
                  t.step = "record" => fileStates'[f] # NoState,
                  \A k \in Node : \A m \in DOMAIN inbox'[k] :
                    m \in DOMAIN inbox[k] \/ m.type = "file_event"
           PROVE  Goal
    <2>0. n # f => tasks'[f] = tasks[f]
      <3>1. n # f => /\ Spawn(n, u)[f] = tasks[f] /\ Finish(n, t)[f] = tasks[f]
                     /\ Advance(n, t, u)[f] = tasks[f]
        BY <1>types, TasksElsewhere
      <3> QED BY <1>calm, <3>1
    <2>1. DOMAIN tasks'[f] \subseteq DOMAIN tasks[f] \union {u}
      BY <1>calm, <1>types, <2>0, FinishMembers, SpawnMembers, AdvanceMembers
    <2>2. DOMAIN tasks[f] \ {t} \subseteq DOMAIN tasks'[f]
      <3>1. CASE n # f \/ tasks' = tasks
        BY <2>0, <3>1
      <3>2. CASE n = f /\ tasks' = Spawn(n, u)
        BY <1>types, <3>2, SpawnMembers
      <3>3. CASE n = f /\ (tasks' = Finish(n, t) \/ tasks' = Advance(n, t, u))
        BY <1>types, <3>3, FinishMembers, AdvanceMembers
      <3> QED BY <1>calm, <3>1, <3>2, <3>3
    <2>3. \A x \in DOMAIN tasks[f] :
            x.step = "record" => x \in DOMAIN tasks'[f] \/ fileStates'[f] # NoState
      BY <1>calm, <2>2
    <2> QED BY <1>calm, <1>keeps, <2>1, <2>3
  \* A step of node g that sends at most events and requests.
  <1>other. ASSUME disk'[f] = disk[f], tasks'[f] = tasks[f],
                   \A m \in DOMAIN inbox'[f] : m \in DOMAIN inbox[f] \/ m.type # "file_response",
                   DOMAIN inbox'[g] \subseteq DOMAIN inbox[g]
            PROVE  Goal
    BY <1>other, <1>keeps, <1>safe
  <1> HIDE DEF Goal
  <1>1. ASSUME NEW n \in Writers, User(n) PROVE Goal
    <2>1. PICK c \in UserContent : UserWrite(n, c)
      BY <1>1, <1>quiet DEF User, UserDelete
    <2>2. n \in Node /\ disk'[f] \in UserContent /\ inbox' = inbox
      BY <1>types, <1>safe, <2>1, WritersAssumption DEF UserWrite
    <2>3. tasks' = Renamed(n, StatStep) /\ StatStep.step = "stat"
      BY <2>1 DEF UserWrite, StatStep
    <2>4. /\ DOMAIN tasks'[f] \subseteq DOMAIN tasks[f] \union {StatStep}
          /\ \A t \in DOMAIN tasks[f] : t.step = "record" => t \in DOMAIN tasks'[f]
      <3>1. CASE n = f
        BY <1>types, <2>2, <2>3, <3>1, RenamedTasks
      <3>2. CASE n # f
        <4>1. tasks'[f] = tasks[f]
          BY <1>types, <2>2, <2>3, <3>2, TasksElsewhere
        <4> QED BY <4>1
      <3> QED BY <3>1, <3>2
    <2> QED BY <1>keeps, <2>2, <2>3, <2>4
  <1>2. ASSUME NEW n \in Node, Stat(n) PROVE Goal
    <2>1. PICK u : tasks' = Advance(n, StatStep, u) /\ u.step \in {"sum", "publish"}
      BY <1>2 DEF Stat
    <2>2. disk' = disk /\ inbox' = inbox /\ StatStep.step = "stat"
      BY <1>2 DEF Stat, StatStep
    <2> QED BY <1>calm, <1>safe, <2>1, <2>2
  <1>3. ASSUME NEW n \in Node, NEW t \in DOMAIN tasks[n], CalculateChecksum(n, t)
        PROVE  Goal
    <2>1. PICK u : tasks' = Advance(n, t, u) /\ u.step = "publish"
      BY <1>3 DEF CalculateChecksum
    <2>2. disk' = disk /\ inbox' = inbox /\ t.step = "sum"
      BY <1>3 DEF CalculateChecksum
    <2> QED BY <1>calm, <1>safe, <2>1, <2>2
  <1>4. ASSUME NEW n \in Node, NEW t \in DOMAIN tasks[n], PublishFileEvent(n, t)
        PROVE  Goal
    <2>1. PICK u, e : /\ tasks' = Advance(n, t, u) /\ inbox' = Publication(n, e)
                      /\ u.step = "record" /\ e.type = "file_event"
      BY <1>4 DEF PublishFileEvent, EventOf
    <2>2. disk' = disk /\ t.step = "publish"
      BY <1>4 DEF PublishFileEvent
    <2>3. \A k \in Node : DOMAIN inbox'[k] \subseteq DOMAIN inbox[k] \union {e}
      BY <1>types, <2>1, InboxDomain
    <2> QED BY <1>calm, <1>safe, <2>1, <2>2, <2>3
  <1>5. ASSUME NEW n \in Node, NEW t \in DOMAIN tasks[n], UpdateFileState(n, t)
        PROVE  Goal
    <2>1. /\ tasks' = Finish(n, t) /\ disk' = disk /\ inbox' = inbox
          /\ fileStates' = [fileStates EXCEPT ![n] =
                [sum |-> t.snap.sum, size |-> t.snap.size, modTime |-> t.snap.mtime,
                 lastSync |-> now, status |-> "synced"]]
      BY <1>5 DEF UpdateFileState
    <2>2. CASE n = f
      <3>1. fileStates'[f] # NoState
        <4>1. TypeOK'
          BY StepTyped
        <4>2. t \in EmitTask /\ now \in Nat
          BY <1>5, <1>types, <2>2, BoundAssumption
          DEF UpdateFileState, NodeBags, BagOver, Task, StatTask, SumTask, EmitTask,
              DecideTask, RequestTask, WriteTask, TypeOK
        <4>3. [sum |-> t.snap.sum, size |-> t.snap.size, modTime |-> t.snap.mtime,
               lastSync |-> now, status |-> "synced"] \in FileState
          BY <4>2 DEF EmitTask, Snapshot, FileState, Time
        <4> QED BY <1>types, <2>1, <2>2, <4>3, NoStateAssumption
      <3>2. StatStep.step = "stat"
        BY DEF StatStep
      <3> QED BY <1>calm, <1>safe, <2>1, <2>2, <3>1, <3>2
    <2>3. CASE n = g
      <3>1. tasks'[f] = tasks[f]
        BY <1>types, <2>1, <2>3, FinishMembers
      <3> QED BY <1>other, <2>1, <3>1
    <2> QED BY <2>2, <2>3
  <1>6. ASSUME NEW n \in Node, NEW m \in DOMAIN inbox[n], DeliverEvent(n, m) PROVE Goal
    <2> DEFINE u == [step |-> "detect", event |-> m]
    <2>1. /\ tasks' = tasks \/ tasks' = Spawn(n, u)
          /\ inbox' = Consume(n, m) /\ disk' = disk /\ u.step = "detect"
      BY <1>6 DEF DeliverEvent
    <2> HIDE DEF u
    <2>2. \A k \in Node : DOMAIN inbox'[k] \subseteq DOMAIN inbox[k]
      BY <1>types, <2>1, InboxDomain
    <2>3. StatStep.step = "stat"
      BY DEF StatStep
    <2> QED BY <1>calm, <1>safe, <1>states, <2>1, <2>2, <2>3
  <1>7. ASSUME NEW n \in Node, NEW t \in DOMAIN tasks[n], DetectConflict(n, t) PROVE Goal
    <2>1. t.step = "detect" /\ disk' = disk /\ inbox' = inbox
      BY <1>7 DEF DetectConflict
    <2>2. CASE n = f
      <3>1. fileStates[f] # NoState /\ t.event.ts = 0
        BY <1>7, <2>1, <2>2 DEF Ahead, CalmStep, DecidesBlind, Timed, TimedTask
      <3>2. HasConflict(f, t.event)
        BY <3>1, Rejects DEF CalmStep
      <3>3. PICK u : tasks' = Advance(f, t, u) /\ u.step = "resolve"
        BY <1>7, <2>2, <3>2 DEF DetectConflict
      <3> QED BY <1>calm, <1>safe, <2>1, <3>3
    <2>3. CASE n = g
      <3>1. PICK u : tasks' = Advance(n, t, u)
        BY <1>7 DEF DetectConflict
      <3>2. tasks'[f] = tasks[f]
        BY <1>types, <2>3, <3>1, TasksElsewhere
      <3> QED BY <1>other, <2>1, <3>2
    <2> QED BY <2>2, <2>3
  <1>8. ASSUME NEW n \in Node, NEW t \in DOMAIN tasks[n], ResolveConflict(n, t) PROVE Goal
    <2>1. t.step = "resolve" /\ disk' = disk /\ inbox' = inbox
      BY <1>8 DEF ResolveConflict
    <2>2. fileStates[n] # NoState /\ t.event.ts = 0
      BY <2>1 DEF Timed, TimedTask
    <2>3. tasks' = Finish(n, t)
      BY <1>8, <2>2, Rejects DEF ResolveConflict, CalmStep
    <2>4. StatStep.step = "stat"
      BY DEF StatStep
    <2> QED BY <1>calm, <1>safe, <2>1, <2>3, <2>4
  <1>9. ASSUME NEW n \in Node, RequestFile(n) PROVE Goal
    <2> DEFINE q == [type |-> "file_request"]
    <2>1. n = g
      BY <1>9, <1>safe DEF RequestFile, BagIn, BagToSet, RequestStep
    <2>2. /\ tasks' = Finish(g, RequestStep) /\ inbox' = Publication(g, q)
          /\ disk' = disk /\ q.type # "file_response"
      BY <1>9, <2>1 DEF RequestFile
    <2> HIDE DEF q
    <2>3. tasks'[f] = tasks[f]
      BY <1>types, <2>2, FinishMembers
    <2>4. DOMAIN inbox'[f] = DOMAIN inbox[f] \union {q} /\ inbox'[g] = inbox[g]
      BY <1>types, <2>2, InboxMembers
    <2> QED BY <1>other, <2>2, <2>3, <2>4
  <1>10. ASSUME NEW n \in Node, NEW m \in DOMAIN inbox[n], HandleFileRequest(n, m)
         PROVE  Goal
    <2> DEFINE rest == Consume(f, m)
               answer == [type |-> "file_response", data |-> disk[f]]
    <2>1. n = f
      BY <1>10, <1>safe DEF HandleFileRequest
    <2>2. /\ tasks' = tasks /\ disk' = disk /\ answer.type # "file_request"
          /\ inbox'[f] = rest[f]
          /\ inbox'[g] = BagAdd(rest[g], answer) \/ inbox'[g] = rest[g]
      BY <1>10, <2>1 DEF HandleFileRequest, Receivers
    <2>3. \A k \in Node : DOMAIN rest[k] \subseteq DOMAIN inbox[k]
      BY <1>types, InboxDomain
    <2> HIDE DEF rest, answer
    <2>4. DOMAIN BagAdd(rest[g], answer) = DOMAIN rest[g] \union {answer}
      BY BagMembers
    <2> QED BY <1>keeps, <1>safe, <2>2, <2>3, <2>4
  <1>11. ASSUME NEW n \in Node, NEW m \in DOMAIN inbox[n], HandleFileResponse(n, m)
         PROVE  Goal
    <2>1. n = g
      BY <1>11, <1>safe DEF HandleFileResponse
    <2>2. disk'[f] = disk[f] /\ tasks'[f] = tasks[f] /\ inbox' = Consume(n, m)
      BY <1>11, <1>types, <2>1 DEF HandleFileResponse
    <2>3. \A k \in Node : DOMAIN inbox'[k] \subseteq DOMAIN inbox[k]
      BY <1>types, <2>2, InboxDomain
    <2> QED BY <1>other, <2>2, <2>3
  <1>12. ASSUME NEW n \in Node, NEW t \in DOMAIN tasks[n], WriteData(n, t) PROVE Goal
    <2>1. n = g
      BY <1>12, <1>safe DEF WriteData
    <2>2. disk'[f] = disk[f] /\ tasks'[f] = tasks[f] /\ inbox' = inbox
      BY <1>12, <1>types, <2>1 DEF WriteData, Finish
    <2> QED BY <1>other, <2>2
  <1>13. ASSUME NEW n \in Node, NEW m \in DOMAIN inbox[n], Lose(n, m) PROVE Goal
    <2>1. disk' = disk /\ tasks' = tasks /\ inbox' = Consume(n, m)
      BY <1>13 DEF Lose
    <2>2. \A k \in Node : DOMAIN inbox'[k] \subseteq DOMAIN inbox[k]
      BY <1>types, <2>1, InboxDomain
    <2> QED BY <1>other, <2>1, <2>2
  <1>14. ASSUME NEW n \in Node, NEW t \in DOMAIN tasks[n], PublishFails(n, t) PROVE Goal
    <2>1. tasks' = Finish(n, t) /\ disk' = disk /\ inbox' = inbox /\ t.step = "publish"
      BY <1>14 DEF PublishFails
    <2>2. StatStep.step = "stat"
      BY DEF StatStep
    <2> QED BY <1>calm, <1>safe, <2>1, <2>2
  <1>15. ASSUME NEW n \in Node, Restart(n) PROVE FALSE
    BY <1>15, <1>quiet DEF Restart
  <1>16. ASSUME Tick \/ UNCHANGED vars PROVE Goal
    BY <1>16, <1>other DEF Tick, vars
  <1> QED
    BY <1>1, <1>2, <1>3, <1>4, <1>5, <1>6, <1>7, <1>8, <1>9, <1>10, <1>11, <1>12,
       <1>13, <1>14, <1>15, <1>16
    DEF Next, Watcher, Handler, Fault, Goal

\* The first publication puts its node ahead, unless it fails.
LEMMA StepEarly ==
    ASSUME TwoPeers, CalmStep, TypeOK, WritesOpenFile, Newcomers, Timed,
           NEW p \in Node, NEW q \in Node, p # q, Node = {p, q}, Early, [Next]_vars
    PROVE  Early' \/ Ahead(p, q)' \/ Ahead(q, p)'
  <1> DEFINE Goal == Early' \/ Ahead(p, q)' \/ Ahead(q, p)'
  <1>types. /\ NodeBags(tasks, Task) /\ NodeBags(inbox, Message)
            /\ disk = [k \in Node |-> disk[k]] /\ tasks = [k \in Node |-> tasks[k]]
            /\ inbox = [k \in Node |-> inbox[k]] /\ ops \in Nat
    BY BoundAssumption DEF TypeOK, NodeBags
  <1>quiet. ~AllowDelete /\ restarts \in Nat /\ restarts' = restarts
    BY BoundAssumption DEF TwoPeers, CalmStep, TypeOK
  <1>early. \A n \in Node :
              /\ DOMAIN inbox[n] = {} /\ fileStates[n] = NoState
              /\ \A t \in DOMAIN tasks[n] : t.step \in ChangeSteps
              /\ disk[n] \in UserContent \union {Absent}
              /\ \A t \in DOMAIN tasks[n] : disk[n] # Absent
    BY DEF Early, Newcomers, Newcomer, ChangeSteps, AskSteps
  \* A step of node n that sends nothing and starts nothing else.
  <1>calm. ASSUME NEW n \in Node, NEW t, NEW u,
                  u.step \in ChangeSteps, UNCHANGED <<disk, fileStates, inbox, ops>>,
                  tasks' = tasks \/ tasks' = Finish(n, t) \/ tasks' = Advance(n, t, u)
           PROVE  Goal
    <2>1. \A k \in Node : /\ DOMAIN Finish(n, t)[k] \subseteq DOMAIN tasks[k]
                          /\ DOMAIN Advance(n, t, u)[k] \subseteq DOMAIN tasks[k] \union {u}
      BY <1>types, TasksDomain
    <2>2. \A k \in Node : DOMAIN tasks'[k] \subseteq DOMAIN tasks[k] \union {u}
      BY <1>calm, <2>1
    <2> QED BY <1>calm, <2>2 DEF Early
  <1> HIDE DEF Goal
  <1>1. ASSUME NEW n \in Writers, User(n) PROVE Goal
    <2>1. PICK c \in UserContent : UserWrite(n, c)
      BY <1>1, <1>quiet DEF User, UserDelete
    <2>2. n \in Node /\ c # Absent
      BY WritersAssumption, ContentAssumption, AbsentAssumption
    <2>3. /\ disk' = [disk EXCEPT ![n] = c] /\ tasks' = Renamed(n, StatStep)
          /\ fileStates' = fileStates /\ inbox' = inbox
      BY <2>1 DEF UserWrite
    <2>4. \A k \in Node : DOMAIN tasks'[k] \subseteq DOMAIN tasks[k] \union {StatStep}
      <3>1. DOMAIN tasks'[n] \subseteq DOMAIN tasks[n] \union {StatStep}
        BY <1>types, <2>2, <2>3, RenamedTasks
      <3>2. \A k \in Node \ {n} : tasks'[k] = tasks[k]
        BY <1>types, <2>2, <2>3, TasksElsewhere
      <3> QED BY <3>1, <3>2
    <2>5. /\ disk'[n] = c /\ \A k \in Node : disk'[k] = disk[k] \/ disk'[k] = c
      BY <1>types, <2>2, <2>3
    <2>6. Early'
      BY <1>early, <2>2, <2>3, <2>4, <2>5 DEF Early, StatStep, ChangeSteps
    <2> QED BY <2>6 DEF Goal
  <1>2. ASSUME NEW n \in Node, Stat(n) PROVE Goal
    <2>1. PICK u : tasks' = Advance(n, StatStep, u) /\ u.step \in ChangeSteps
      BY <1>2 DEF Stat, ChangeSteps
    <2> QED BY <1>2, <1>calm, <2>1 DEF Stat
  <1>3. ASSUME NEW n \in Node, NEW t \in DOMAIN tasks[n], CalculateChecksum(n, t)
        PROVE  Goal
    <2>1. PICK u : tasks' = Advance(n, t, u) /\ u.step \in ChangeSteps
      BY <1>3 DEF CalculateChecksum, ChangeSteps
    <2> QED BY <1>3, <1>calm, <2>1 DEF CalculateChecksum
  <1>4. ASSUME NEW n \in Node, NEW t \in DOMAIN tasks[n], PublishFileEvent(n, t)
        PROVE  Goal
    <2>1. PICK u, e : /\ tasks' = Advance(n, t, u) /\ inbox' = Publication(n, e)
                      /\ u.step = "record" /\ e.type = "file_event"
      BY <1>4 DEF PublishFileEvent, EventOf
    <2>2. disk' = disk /\ disk[n] \in UserContent
      BY <1>4, <1>early DEF PublishFileEvent
    <2>3. PICK k \in Node : k # n
      OBVIOUS
    <2>4. /\ u \in DOMAIN tasks'[n]
          /\ DOMAIN tasks'[n] \subseteq DOMAIN tasks[n] \union {u}
      BY <1>types, <2>1, AdvanceMembers
    <2>5. /\ inbox'[n] = inbox[n]
          /\ DOMAIN inbox'[k] \subseteq DOMAIN inbox[k] \union {e}
      BY <1>types, <2>1, <2>3, InboxMembers, InboxDomain
    <2>6. Safe(n, k)'
      BY <1>early, <2>1, <2>4, <2>5 DEF Safe, ChangeSteps
    <2>7. Ahead(n, k)'
      BY <2>1, <2>2, <2>4, <2>6 DEF Ahead
    <2> QED BY <2>3, <2>7 DEF Goal
  <1>5. ASSUME NEW n \in Node, NEW t \in DOMAIN tasks[n],
               \/ UpdateFileState(n, t)    \/ DetectConflict(n, t)
               \/ ResolveConflict(n, t)    \/ WriteData(n, t)
        PROVE  FALSE
    BY <1>5, <1>early
    DEF UpdateFileState, DetectConflict, ResolveConflict, WriteData, ChangeSteps
  <1>6. ASSUME NEW n \in Node, RequestFile(n) PROVE FALSE
    BY <1>6, <1>early DEF RequestFile, BagIn, BagToSet, RequestStep, ChangeSteps
  <1>7. ASSUME NEW n \in Node, NEW m \in DOMAIN inbox[n] PROVE FALSE
    BY <1>early
  <1>8. ASSUME NEW n \in Node, NEW t \in DOMAIN tasks[n], PublishFails(n, t) PROVE Goal
    <2>1. StatStep.step \in ChangeSteps
      BY DEF StatStep, ChangeSteps
    <2> QED BY <1>8, <1>calm, <2>1 DEF PublishFails
  <1>9. ASSUME NEW n \in Node, Restart(n) PROVE FALSE
    BY <1>9, <1>quiet DEF Restart
  <1>10. ASSUME Tick \/ UNCHANGED vars PROVE Goal
    <2>1. StatStep.step \in ChangeSteps
      BY DEF StatStep, ChangeSteps
    <2> QED BY <1>10, <1>calm, <2>1 DEF Tick, vars
  <1> QED
    BY <1>1, <1>2, <1>3, <1>4, <1>5, <1>6, <1>7, <1>8, <1>9, <1>10
    DEF Next, Watcher, Handler, Fault, Goal

-----------------------------------------------------------------------------
(* The inductive invariant and what follows from it.                        *)

\* Either nothing was published yet, or one of the two is ahead of the other
\* and only that other may ask, no more often than there were changes.
FirstComesFirst ==
    \/ Early /\ \A f, g \in Node : f # g => Budget(f, g)
    \/ \E f, g \in Node : f # g /\ Ahead(f, g) /\ Budget(f, g)

LEMMA InitFirst == ASSUME TwoPeers, Init PROVE Timed /\ FirstComesFirst
  <1>1. /\ \A n \in Node : /\ DOMAIN tasks[n] = {} /\ DOMAIN inbox[n] = {}
                           /\ tasks[n] = EmptyBag /\ inbox[n] = EmptyBag
                           /\ disk[n] = Absent /\ fileStates[n] = NoState
        /\ ops = 0 /\ requests = 0
    BY BagDomains DEF Init
  <1>2. \A place, S : Tokens(place, EmptyBag, S) = {}
    BY BagDomains DEF Tokens
  <1>3. Load(EmptyBag, EmptyBag, EmptyBag) = {}
    BY <1>2 DEF Load
  <1>4. AtMost({}, 0)
    BY FS_EmptySet DEF AtMost
  <1>5. \A f, g \in Node : Budget(f, g)
    BY <1>1, <1>3, <1>4 DEF Budget
  <1>6. Early /\ Timed
    BY <1>1 DEF Early, Timed
  <1> QED BY <1>5, <1>6 DEF FirstComesFirst

LEMMA StepFirst ==
    ASSUME TwoPeers, CalmStep, TypeOK, WritesOpenFile, Newcomers, Timed, FirstComesFirst,
           [Next]_vars
    PROVE  FirstComesFirst'
  <1>1. CASE Early /\ \A f, g \in Node : f # g => Budget(f, g)
    <2>1. PICK p \in Node, q \in Node : p # q /\ Node = {p, q}
      BY DEF TwoPeers
    <2>2. \A f, g \in Node : f # g => Budget(f, g)'
      BY <1>1, <2>1, EarlyIsSafe, StepBudget
    <2>3. Early' \/ Ahead(p, q)' \/ Ahead(q, p)'
      BY <1>1, <2>1, StepEarly
    <2> QED BY <2>1, <2>2, <2>3 DEF FirstComesFirst
  <1>2. ASSUME NEW f \in Node, NEW g \in Node, f # g, Ahead(f, g), Budget(f, g)
        PROVE  FirstComesFirst'
    <2>1. Node = {f, g}
      BY <1>2 DEF TwoPeers
    <2>2. Ahead(f, g)'
      BY <1>2, <2>1, StepAhead
    <2>3. Budget(f, g)'
      BY <1>2, <2>1, StepBudget DEF Ahead
    <2> QED BY <1>2, <2>2, <2>3 DEF FirstComesFirst
  <1> QED BY <1>1, <1>2 DEF FirstComesFirst

\* Whoever publishes first comes first, until the execution is disturbed.
OrderedInv == Undisturbed => Newcomers /\ Timed /\ FirstComesFirst

\* A goroutine that decides is gone afterwards.
LEMMA DecisionChanges ==
    ASSUME TypeOK, NEW n \in Node, DecidesBlind(n)
    PROVE  tasks' # tasks
  <1>1. PICK t \in DOMAIN tasks[n] : DetectConflict(n, t)
    BY DEF DecidesBlind
  <1>2. PICK u : tasks' = Advance(n, t, u) /\ u # t
    BY <1>1 DEF DetectConflict, RequestStep
  <1>3. tasks[n][t] \in Nat \ {0} /\ tasks = [k \in Node |-> tasks[k]]
    BY DEF TypeOK, NodeBags, BagOver
  <1> DEFINE B == tasks[n]
             R == BagRemove(B, t)
  <1>4. t \in DOMAIN R => R[t] = B[t] - 1
    BY <1>3 DEF BagRemove
  <1> HIDE DEF R
  <1>5. t \in DOMAIN BagAdd(R, u) => t \in DOMAIN R /\ BagAdd(R, u)[t] = R[t]
    BY <1>2 DEF BagAdd
  <1>6. BagAdd(R, u) # B
    BY <1>3, <1>4, <1>5
  <1>7. tasks'[n] = BagAdd(R, u)
    BY <1>2, <1>3 DEF Advance, R
  <1> QED BY <1>6, <1>7

\* What leads to an undisturbed state is undisturbed, and the step calm.
LEMMA CalmSteps ==
    ASSUME TypeOK, [WNext]_wvars, blind \in BOOLEAN, Undisturbed'
    PROVE  Undisturbed /\ CalmStep /\ [Next]_vars /\ restarts = 0
  <1>types. now \in Nat /\ restarts \in Nat /\ TicksPerSecond \in Nat
    BY BoundAssumption, ClockAssumption DEF TypeOK
  <1>1. [Next]_vars
    BY DEF WNext, wvars, vars
  <1>2. now' \in {now, now + 1} /\ restarts' \in {restarts, restarts + 1}
    BY <1>1 DEF Next, User, UserWrite, UserDelete, Watcher, Stat, CalculateChecksum,
           PublishFileEvent, UpdateFileState, Handler, DeliverEvent, DetectConflict,
           ResolveConflict, RequestFile, HandleFileRequest, HandleFileResponse,
           WriteData, Fault, Lose, PublishFails, Restart, Tick, vars
  <1>3. blind = FALSE /\ \A n \in Node : ~DecidesBlind(n)
    <2>1. CASE WNext
      BY <2>1 DEF WNext, Undisturbed
    <2>2. CASE UNCHANGED wvars
      BY <2>2, DecisionChanges DEF wvars, Undisturbed
    <2> QED BY <2>1, <2>2
  <1> QED BY <1>types, <1>1, <1>2, <1>3 DEF Undisturbed, CalmStep

\* The history variable restricts nothing.
LEMMA WindowSpec == WSpec => Spec /\ [](blind \in BOOLEAN)
  <1>1. WInit => Init /\ blind \in BOOLEAN
    BY DEF WInit
  <1>2. [WNext]_wvars => [Next]_vars
    BY DEF WNext, wvars, vars
  <1>3. blind \in BOOLEAN /\ [WNext]_wvars => (blind \in BOOLEAN)'
    BY DEF WNext, wvars
  <1> QED BY <1>1, <1>2, <1>3, PTL DEF WSpec, Spec

LEMMA SecondInvariant ==
    ASSUME TwoPeers
    PROVE  WSpec => [](TypeOK /\ OrderedInv)
  <1>1. WInit => OrderedInv
    <2>1. Init => Newcomers
      BY BagDomains DEF Init, Newcomers, Newcomer
    <2> QED BY <2>1, InitFirst DEF WInit, OrderedInv
  <1>2. TypeOK /\ WritesOpenFile /\ blind \in BOOLEAN /\ OrderedInv /\ [WNext]_wvars
          => OrderedInv'
    <2> SUFFICES ASSUME TypeOK, WritesOpenFile, blind \in BOOLEAN, OrderedInv,
                        [WNext]_wvars, Undisturbed'
                 PROVE  (Newcomers /\ Timed /\ FirstComesFirst)'
      BY DEF OrderedInv
    <2>1. CalmStep /\ [Next]_vars /\ Newcomers /\ Timed /\ FirstComesFirst
      BY CalmSteps DEF OrderedInv
    <2>2. ~AllowDelete /\ restarts' = restarts
      BY <2>1 DEF TwoPeers, CalmStep
    <2> QED BY <2>1, <2>2, StepNewcomers, StepTimed, StepFirst
  <1> QED BY <1>1, <1>2, WindowSpec, TypeCorrect, PTL DEF WSpec

\* While undisturbed, one change costs at most one request, whoever makes it and
\* whatever the topic loses: the writes of handleFileResponse
\* (file_sync.go:552-572) are announced like any other and nobody asks for them.
THEOREM OneRequestPerChange ==
    ASSUME TwoPeers
    PROVE  WSpec => []RequestBudget
  <1>1. Cardinality(Node) = 2
    <2>1. PICK p, q : p # q /\ Node = {p, q}
      BY DEF TwoPeers
    <2>2. IsFiniteSet({p}) /\ Cardinality({p}) = 1 /\ q \notin {p}
      BY <2>1, FS_Singleton
    <2>3. Cardinality({p} \union {q}) = 2
      BY <2>2, FS_AddElement
    <2>4. Node = {p} \union {q}
      BY <2>1
    <2> QED BY <2>3, <2>4
  <1>2. ASSUME TypeOK, OrderedInv, Undisturbed PROVE RequestBudget
    <2>1. PICK f \in Node, g \in Node : Budget(f, g)
      BY <1>2 DEF OrderedInv, FirstComesFirst, TwoPeers
    <2>2. ops - requests >= 0 /\ ops \in Nat /\ requests \in Nat
      <3> DEFINE L == Load(tasks[f], inbox[g], tasks[g])
      <3>1. Cardinality(L) \in Nat /\ Cardinality(L) <= ops - requests
        BY <2>1, FS_CardinalityType DEF Budget, AtMost
      <3> HIDE DEF L
      <3> QED BY <1>2, <3>1, BoundAssumption DEF TypeOK
    <2> QED BY <1>1, <2>2 DEF RequestBudget
  <1>3. TypeOK /\ OrderedInv => RequestBudget
    BY <1>2 DEF RequestBudget
  <1> QED BY <1>3, SecondInvariant, PTL

\* While undisturbed, the file only travels to one of the two nodes, so that no
\* os.Create (file_sync.go:343) truncates what the other side is sending.
THEOREM OnlyOneReceives ==
    ASSUME TwoPeers
    PROVE  WSpec => []OneWay
  <1>1. ASSUME OrderedInv, Undisturbed PROVE OneWay
    <2>1. CASE Early
      BY <2>1 DEF Early, OneWay, Receiving, ChangeSteps
    <2>2. ASSUME NEW f \in Node, NEW g \in Node, f # g, Ahead(f, g) PROVE OneWay
      <3>1. ~Receiving(f) /\ Node = {f, g}
        BY <2>2 DEF Ahead, Safe, Receiving, TwoPeers
      <3> QED BY <3>1 DEF OneWay
    <2> QED BY <1>1, <2>1, <2>2 DEF OrderedInv, FirstComesFirst
  <1>2. OrderedInv => OneWay
    BY <1>1 DEF OneWay
  <1> QED BY <1>2, SecondInvariant, PTL

\* While undisturbed, from the first save on, the node that published first, or
\* until then every node with the file, holds a whole content that a user saved:
\* os.Create (file_sync.go:343) only ever truncates the other copy.
THEOREM SavedCopyIsKept ==
    ASSUME TwoPeers
    PROVE  WSpec => []SavedCopyLeft
  <1>1. OrderedInv => SavedCopyLeft
    BY DEF OrderedInv, FirstComesFirst, Early, Ahead, SavedCopyLeft
  <1> QED BY <1>1, SecondInvariant, PTL

-----------------------------------------------------------------------------
(* A single save.                                                           *)

\* A write that is at least as long as the file leaves nothing of it.
LEMMA WriteReplaces ==
    ASSUME NEW d \in Content, NEW c \in Content, Len(c) <= Len(d)
    PROVE  Overlay(d, c) = d
  <1>1. Len(c) \in Nat /\ Len(d) \in Nat
    BY LenProperties DEF Content
  <1>2. SubSeq(c, Len(d) + 1, Len(c)) = << >>
    BY <1>1, SubSeqEmpty
  <1> QED BY <1>2, ConcatEmptySeq DEF Overlay, Content

\* All that is sent to node g, or that it has still to write, is what f has; and
\* what g has is that, or nothing, as long as the rest is still to be written.
Carried(f, g) ==
    /\ disk[f] # Absent
    /\ \A m \in DOMAIN inbox[g] : m.type = "file_response" => m.data = disk[f]
    /\ \A t \in DOMAIN tasks[g] : t.step = "write" => t.data = disk[f]
    /\ disk[g] \in {Absent, << >>, disk[f]}
    /\ disk[g] = << >> => \/ disk[f] = << >>
                          \/ \E t \in DOMAIN tasks[g] : t.step = "write"

\* Before the first save, after it, and (where it says nothing) after the second.
OneSource ==
    \/ ops = 0 /\ Early /\ \A n \in Node : disk[n] = Absent
    \/ ops = 1 /\ \E f, g \in Node : /\ f # g /\ Carried(f, g)
                                     /\ (Early /\ disk[g] = Absent) \/ Ahead(f, g)
    \/ ops > 1

LEMMA StepCarried ==
    ASSUME TwoPeers, CalmStep, TypeOK, WritesOpenFile, NEW f \in Node, NEW g \in Node, f # g,
           Node = {f, g}, Safe(f, g), Carried(f, g), [Next]_vars, ops' = ops
    PROVE  Carried(f, g)'
  <1> DEFINE Goal == Carried(f, g)'
  <1>types. /\ NodeBags(tasks, Task) /\ NodeBags(inbox, Message)
            /\ disk = [k \in Node |-> disk[k]] /\ tasks = [k \in Node |-> tasks[k]]
            /\ inbox = [k \in Node |-> inbox[k]]
            /\ ops \in Nat
    BY BoundAssumption DEF TypeOK, NodeBags
  <1>files. \A k \in Node : disk[k] \in Content \union {Absent}
    BY DEF TypeOK, Sum
  <1>quiet. ~AllowDelete /\ restarts \in Nat /\ restarts' = restarts
    BY BoundAssumption DEF TwoPeers, CalmStep, TypeOK
  \* A step that changes no file, sends no other answer and ends no write.
  <1>keeps. ASSUME UNCHANGED disk,
                   \A m \in DOMAIN inbox'[g] : \/ m \in DOMAIN inbox[g]
                                               \/ m.type # "file_response"
                                               \/ m.data = disk[f],
                   \A t \in DOMAIN tasks'[g] : t \in DOMAIN tasks[g] \/ t.step # "write",
                   \A t \in DOMAIN tasks[g] : t.step = "write" => t \in DOMAIN tasks'[g]
            PROVE  Goal
    BY <1>keeps DEF Carried
  <1>task. ASSUME UNCHANGED disk, NEW n \in Node, NEW t, t.step # "write",
                  NEW u, u.step # "write",
                  \/ tasks' = tasks        \/ tasks' = Spawn(n, u)
                  \/ tasks' = Finish(n, t) \/ tasks' = Advance(n, t, u),
                  \A m \in DOMAIN inbox'[g] : m \in DOMAIN inbox[g] \/ m.type # "file_response"
           PROVE  Goal
    <2>1. CASE n # g
      <3>1. /\ Spawn(n, u)[g] = tasks[g] /\ Finish(n, t)[g] = tasks[g]
            /\ Advance(n, t, u)[g] = tasks[g]
        BY <1>types, <2>1, TasksElsewhere
      <3>2. tasks'[g] = tasks[g]
        BY <1>task, <3>1
      <3> QED BY <1>task, <1>keeps, <3>2
    <2>2. CASE n = g
      <3>1. DOMAIN Spawn(n, u)[n] = DOMAIN tasks[n] \union {u}
        BY <1>types, SpawnMembers
      <3>2. /\ DOMAIN tasks[n] \ {t} \subseteq DOMAIN Finish(n, t)[n]
            /\ DOMAIN Finish(n, t)[n] \subseteq DOMAIN tasks[n]
        BY <1>types, FinishMembers
      <3>3. /\ DOMAIN tasks[n] \ {t} \subseteq DOMAIN Advance(n, t, u)[n]
            /\ DOMAIN Advance(n, t, u)[n] \subseteq DOMAIN tasks[n] \union {u}
        BY <1>types, AdvanceMembers
      <3>4. /\ DOMAIN tasks[n] \ {t} \subseteq DOMAIN tasks'[n]
            /\ DOMAIN tasks'[n] \subseteq DOMAIN tasks[n] \union {u}
        BY <1>task, <3>1, <3>2, <3>3
      <3>5. /\ \A x \in DOMAIN tasks'[g] : x \in DOMAIN tasks[g] \/ x.step # "write"
            /\ \A x \in DOMAIN tasks[g] : x.step = "write" => x \in DOMAIN tasks'[g]
        BY <1>task, <2>2, <3>4
      <3> QED BY <1>task, <1>keeps, <3>5
    <2> QED BY <2>1, <2>2
  <1> HIDE DEF Goal
  <1>1. ASSUME NEW n \in Writers, User(n) PROVE FALSE
    BY <1>1, <1>types, <1>quiet DEF User, UserWrite, UserDelete
  <1>2. ASSUME NEW n \in Node, Stat(n) PROVE Goal
    <2>1. PICK u : tasks' = Advance(n, StatStep, u) /\ u.step \in {"sum", "publish"}
      BY <1>2 DEF Stat
    <2>2. UNCHANGED <<disk, inbox>> /\ StatStep.step = "stat"
      BY <1>2 DEF Stat, StatStep
    <2> QED BY <1>task, <2>1, <2>2
  <1>3. ASSUME NEW n \in Node, NEW t \in DOMAIN tasks[n],
               CalculateChecksum(n, t) \/ DetectConflict(n, t)
        PROVE  Goal
    <2>1. PICK u : tasks' = Advance(n, t, u) /\ u.step \in {"publish", "resolve", "request"}
      BY <1>3 DEF CalculateChecksum, DetectConflict, RequestStep
    <2>2. UNCHANGED <<disk, inbox>> /\ t.step \in {"sum", "detect"}
      BY <1>3 DEF CalculateChecksum, DetectConflict
    <2> QED BY <1>task, <2>1, <2>2
  <1>4. ASSUME NEW n \in Node, NEW t \in DOMAIN tasks[n], PublishFileEvent(n, t)
        PROVE  Goal
    <2>1. PICK u, e : /\ tasks' = Advance(n, t, u) /\ inbox' = Publication(n, e)
                      /\ u.step = "record" /\ e.type = "file_event"
      BY <1>4 DEF PublishFileEvent, EventOf
    <2>2. UNCHANGED disk /\ t.step = "publish"
      BY <1>4 DEF PublishFileEvent
    <2>3. DOMAIN inbox'[g] \subseteq DOMAIN inbox[g] \union {e}
      BY <1>types, <2>1, InboxDomain
    <2> QED BY <1>task, <2>1, <2>2, <2>3
  <1>5. ASSUME NEW n \in Node, NEW t \in DOMAIN tasks[n],
               UpdateFileState(n, t) \/ ResolveConflict(n, t) \/ PublishFails(n, t)
        PROVE  Goal
    <2>1. tasks' = Finish(n, t) \/ tasks' = Advance(n, t, RequestStep)
      BY <1>5 DEF UpdateFileState, ResolveConflict, PublishFails
    <2>2. /\ UNCHANGED <<disk, inbox>> /\ t.step \in {"record", "resolve", "publish"}
          /\ RequestStep.step = "request"
      BY <1>5 DEF UpdateFileState, ResolveConflict, PublishFails, RequestStep
    <2> QED BY <1>task, <2>1, <2>2
  <1>6. ASSUME NEW n \in Node, NEW m \in DOMAIN inbox[n], DeliverEvent(n, m) PROVE Goal
    <2>1. PICK u : tasks' = tasks \/ (tasks' = Spawn(n, u) /\ u.step = "detect")
      BY <1>6 DEF DeliverEvent
    <2>2. UNCHANGED disk /\ inbox' = Consume(n, m) /\ StatStep.step = "stat"
      BY <1>6 DEF DeliverEvent, StatStep
    <2>3. DOMAIN inbox'[g] \subseteq DOMAIN inbox[g]
      BY <1>types, <2>2, InboxDomain
    <2> QED BY <1>task, <2>1, <2>2, <2>3
  <1>7. ASSUME NEW n \in Node, RequestFile(n) PROVE Goal
    <2> DEFINE q == [type |-> "file_request"]
    <2>1. /\ tasks' = Finish(n, RequestStep) /\ inbox' = Publication(n, q)
          /\ UNCHANGED disk /\ q.type # "file_response" /\ RequestStep.step = "request"
      BY <1>7 DEF RequestFile, RequestStep
    <2> HIDE DEF q
    <2>2. DOMAIN inbox'[g] \subseteq DOMAIN inbox[g] \union {q}
      BY <1>types, <2>1, InboxDomain
    <2> QED BY <1>task, <2>1, <2>2
  <1>8. ASSUME NEW n \in Node, NEW m \in DOMAIN inbox[n], HandleFileRequest(n, m)
        PROVE  Goal
    <2> DEFINE rest == Consume(f, m)
               answer == [type |-> "file_response", data |-> disk[f]]
    <2>1. n = f
      BY <1>8 DEF HandleFileRequest, Safe
    <2>2. /\ UNCHANGED <<disk, tasks>> /\ answer.data = disk[f]
          /\ inbox'[g] = BagAdd(rest[g], answer) \/ inbox'[g] = rest[g]
      BY <1>8, <2>1 DEF HandleFileRequest
    <2>3. DOMAIN rest[g] \subseteq DOMAIN inbox[g]
      BY <1>types, InboxDomain
    <2> HIDE DEF rest, answer
    <2>4. DOMAIN BagAdd(rest[g], answer) = DOMAIN rest[g] \union {answer}
      BY BagMembers
    <2> QED BY <1>keeps, <2>2, <2>3, <2>4
  <1>9. ASSUME NEW n \in Node, NEW m \in DOMAIN inbox[n], HandleFileResponse(n, m)
        PROVE  Goal
    <2> DEFINE u == [step |-> "write", data |-> m.data]
    <2>1. n = g /\ m.data = disk[f]
      BY <1>9 DEF HandleFileResponse, Safe, Carried
    <2>2. PICK ts \in Notified(tasks[g]) : tasks' = [tasks EXCEPT ![g] = BagAdd(ts, u)]
      BY <1>9, <2>1 DEF HandleFileResponse
    <2>3. u.step = "write" /\ u.data = disk[f] /\ StatStep.step = "stat"
      BY <2>1 DEF StatStep
    <2>4. disk'[g] = << >> /\ disk'[f] = disk[f] /\ inbox' = Consume(n, m)
      BY <1>9, <1>types, <2>1 DEF HandleFileResponse
    <2> HIDE DEF u
    <2>5. DOMAIN ts = DOMAIN tasks[g] \union {StatStep}
      BY NotifiedMembers
    <2>6. DOMAIN BagAdd(ts, u) = DOMAIN ts \union {u}
      BY BagMembers
    <2>7. DOMAIN tasks'[g] = DOMAIN tasks[g] \union {StatStep, u}
      BY <1>types, <2>2, <2>5, <2>6
    <2>8. DOMAIN inbox'[g] \subseteq DOMAIN inbox[g]
      BY <1>types, <2>4, InboxDomain
    <2> QED BY <2>3, <2>4, <2>7, <2>8 DEF Goal, Carried
  <1>10. ASSUME NEW n \in Node, NEW t \in DOMAIN tasks[n], WriteData(n, t) PROVE Goal
    <2>1. n = g /\ t.step = "write" /\ t.data = disk[f] /\ inbox' = inbox
      BY <1>10 DEF WriteData, Safe, Carried
    <2>2. disk[g] \in Content /\ disk[f] \in Content /\ disk[g] \in {<< >>, disk[f]}
      BY <1>files, <2>1 DEF WritesOpenFile, Carried
    <2>3. \A k \in DOMAIN tasks'[g] : k.step = "write" => k.data = disk[f]
      <3>1. CASE t.data = << >>
        <4>1. DOMAIN tasks'[g] \subseteq DOMAIN tasks[g]
          BY <1>10, <1>types, <2>1, <3>1, FinishMembers DEF WriteData
        <4> QED BY <4>1 DEF Carried
      <3>2. CASE t.data # << >>
        <4>1. PICK ts \in Notified(BagRemove(tasks[g], t)) : tasks' = [tasks EXCEPT ![g] = ts]
          BY <1>10, <2>1, <3>2 DEF WriteData
        <4>2. /\ DOMAIN ts = DOMAIN BagRemove(tasks[g], t) \union {StatStep}
              /\ DOMAIN BagRemove(tasks[g], t) \subseteq DOMAIN tasks[g]
              /\ StatStep.step = "stat"
          BY NotifiedMembers, BagDomains DEF StatStep
        <4> QED BY <1>types, <4>1, <4>2 DEF Carried
      <3> QED BY <3>1, <3>2
    <2>4. disk'[f] = disk[f] /\ disk'[g] = disk[f]
      <3>1. CASE t.data = << >>
        BY <1>10, <2>1, <2>2, <3>1 DEF WriteData
      <3>2. CASE t.data # << >>
        <4>1. Len(disk[g]) <= Len(disk[f])
          BY <2>2, EmptySeq, LenProperties DEF Content
        <4>2. Overlay(disk[f], disk[g]) = disk[f]
          BY <2>2, <4>1, WriteReplaces
        <4> QED BY <1>10, <1>types, <2>1, <3>2, <4>2 DEF WriteData
      <3> QED BY <3>1, <3>2
    <2> QED BY <2>1, <2>3, <2>4 DEF Goal, Carried
  <1>11. ASSUME NEW n \in Node, NEW m \in DOMAIN inbox[n], Lose(n, m) PROVE Goal
    <2>1. UNCHANGED <<disk, tasks>> /\ inbox' = Consume(n, m)
      BY <1>11 DEF Lose
    <2>2. DOMAIN inbox'[g] \subseteq DOMAIN inbox[g]
      BY <1>types, <2>1, InboxDomain
    <2> QED BY <1>keeps, <2>1, <2>2
  <1>12. ASSUME NEW n \in Node, Restart(n) PROVE FALSE
    BY <1>12, <1>quiet DEF Restart
  <1>13. ASSUME Tick \/ UNCHANGED vars PROVE Goal
    BY <1>13, <1>keeps DEF Tick, vars
  <1> QED
    BY <1>1, <1>2, <1>3, <1>4, <1>5, <1>6, <1>7, <1>8, <1>9, <1>10, <1>11, <1>12, <1>13
    DEF Next, Watcher, Handler, Fault, Goal

\* Before anything is published only users change files.
LEMMA EarlyFiles ==
    ASSUME TypeOK, Early, [Next]_vars
    PROVE  /\ disk' = disk /\ ops' = ops
           \/ \E n \in Writers : User(n)
  <1>1. ASSUME NEW n \in Node, Watcher(n) PROVE disk' = disk /\ ops' = ops
    BY <1>1 DEF Watcher, Stat, CalculateChecksum, PublishFileEvent, UpdateFileState
  <1>2. ASSUME NEW n \in Node, Handler(n) PROVE disk' = disk /\ ops' = ops
    BY <1>2 DEF Early, Handler, DetectConflict, ResolveConflict, RequestFile, WriteData,
                ChangeSteps
  <1>3. ASSUME NEW n \in Node, Fault(n) PROVE disk' = disk /\ ops' = ops
    BY <1>3 DEF Fault, Lose, PublishFails, Restart
  <1> QED BY <1>1, <1>2, <1>3 DEF Next, Tick, vars

LEMMA StepOneSource ==
    ASSUME TwoPeers, CalmStep, TypeOK, WritesOpenFile, Newcomers, Timed, OneSource, [Next]_vars
    PROVE  OneSource'
  <1>types. /\ NodeBags(tasks, Task) /\ NodeBags(inbox, Message)
            /\ disk = [k \in Node |-> disk[k]] /\ tasks = [k \in Node |-> tasks[k]]
            /\ ops \in Nat
    BY BoundAssumption DEF TypeOK, NodeBags
  <1>ops. ops' = ops \/ ops' = ops + 1
    BY DEF Next, User, UserWrite, UserDelete, Watcher, Stat, CalculateChecksum,
           PublishFileEvent, UpdateFileState, Handler, DeliverEvent, DetectConflict,
           ResolveConflict, RequestFile, HandleFileRequest, HandleFileResponse,
           WriteData, Fault, Lose, PublishFails, Restart, Tick, vars
  <1>1. CASE ops = 0 /\ Early /\ \A n \in Node : disk[n] = Absent
    <2>1. PICK p \in Node, q \in Node : p # q /\ Node = {p, q}
      BY DEF TwoPeers
    <2>2. Early' \/ Ahead(p, q)' \/ Ahead(q, p)'
      BY <1>1, <2>1, StepEarly
    <2>3. CASE disk' = disk /\ ops' = ops
      <3>1. Absent \notin UserContent
        BY ContentAssumption, AbsentAssumption
      <3>2. Early'
        BY <1>1, <2>1, <2>2, <2>3, <3>1 DEF Ahead
      <3> QED BY <1>1, <2>3, <3>2 DEF OneSource
    <2>4. ASSUME NEW n \in Writers, User(n) PROVE OneSource'
      <3>1. PICK c \in UserContent : UserWrite(n, c)
        BY <2>4 DEF User, UserDelete, TwoPeers
      <3>2. n \in Node /\ c # Absent
        BY WritersAssumption, ContentAssumption, AbsentAssumption
      <3>3. PICK g \in Node : g # n
        BY <2>1, <3>2
      <3>4. disk'[n] = c /\ disk'[g] = Absent /\ ops' = 1
        BY <1>1, <1>types, <3>1, <3>2, <3>3 DEF UserWrite
      <3>5. DOMAIN inbox'[g] = {}
        BY <1>1, <3>1 DEF UserWrite, Early
      <3>6. \A t \in DOMAIN tasks'[g] : t.step # "write"
        <4>1. tasks'[g] = tasks[g]
          BY <1>types, <3>1, <3>2, <3>3, RenamedTasks DEF UserWrite
        <4> QED BY <1>1, <4>1 DEF Early, ChangeSteps
      <3>7. << >> # Absent
        BY EmptySeq, AbsentAssumption DEF Content
      <3>8. Carried(n, g)'
        BY <3>2, <3>4, <3>5, <3>6, <3>7 DEF Carried
      <3>9. ~Ahead(g, n)'
        BY <3>4, ContentAssumption, AbsentAssumption DEF Ahead
      <3>10. Early' \/ Ahead(n, g)'
        BY <2>1, <2>2, <3>2, <3>3, <3>9
      <3> QED BY <3>2, <3>3, <3>4, <3>8, <3>10 DEF OneSource
    <2> QED BY <1>1, <2>3, <2>4, EarlyFiles
  <1>2. ASSUME ops = 1, NEW f \in Node, NEW g \in Node, f # g, Carried(f, g),
               (Early /\ disk[g] = Absent) \/ Ahead(f, g)
        PROVE  OneSource'
    <2>1. Node = {f, g}
      BY <1>2 DEF TwoPeers
    <2>2. CASE ops' = 2
      BY <2>2 DEF OneSource
    <2>3. CASE ops' = ops
      <3>1. Carried(f, g)'
        BY <1>2, <2>1, <2>3, EarlyIsSafe, StepCarried DEF Ahead
      <3>2. CASE Ahead(f, g)
        <4>1. Ahead(f, g)'
          BY <1>2, <2>1, <3>2, StepAhead
        <4> QED BY <1>2, <2>3, <3>1, <4>1 DEF OneSource
      <3>3. CASE Early /\ disk[g] = Absent
        <4>1. disk' = disk
          <5>1. ASSUME NEW n \in Writers, User(n) PROVE FALSE
            BY <1>types, <2>3, <5>1 DEF User, UserWrite, UserDelete
          <5> QED BY <3>3, <5>1, EarlyFiles
        <4>2. Early' \/ Ahead(f, g)' \/ Ahead(g, f)'
          BY <1>2, <2>1, <3>3, StepEarly
        <4>3. ~Ahead(g, f)'
          BY <3>3, <4>1, ContentAssumption, AbsentAssumption DEF Ahead
        <4> QED BY <1>2, <2>3, <3>1, <3>3, <4>1, <4>2, <4>3 DEF OneSource
      <3> QED BY <1>2, <3>2, <3>3
    <2> QED BY <1>2, <1>ops, <2>2, <2>3
  <1>3. CASE ops > 1
    BY <1>3, <1>ops, <1>types DEF OneSource
  <1> QED BY <1>1, <1>2, <1>3 DEF OneSource

\* The single save, and whom it still has to reach.
SavedInv == Undisturbed => Exchange /\ OneSource

\* While undisturbed, at rest after a single save both copies are what was saved,
\* if nothing is lost: the watcher may announce the truncated file
\* (engine.go:212-221), but within the second nobody asks for it, and the one
\* writer's answers all carry the same content.
THEOREM SaveDelivered ==
    ASSUME TwoPeers, ~Lossy
    PROVE  WSpec => []Delivered
  <1>1. WInit => SavedInv
    <2>1. Init => /\ \A n \in Node : /\ DOMAIN tasks[n] = {} /\ DOMAIN inbox[n] = {}
                                     /\ disk[n] = Absent /\ fileStates[n] = NoState
                  /\ ops = 0
      BY BagDomains DEF Init
    <2>2. Init => Early
      BY <2>1 DEF Early
    <2>3. Init => Exchange
      BY <2>1 DEF Exchange, SomeoneHasIt
    <2> QED BY <2>1, <2>2, <2>3 DEF WInit, SavedInv, OneSource
  <1>2. /\ TypeOK /\ WritesOpenFile /\ blind \in BOOLEAN /\ OrderedInv /\ SavedInv
        /\ [WNext]_wvars
        => SavedInv'
    <2> SUFFICES ASSUME TypeOK, WritesOpenFile, blind \in BOOLEAN, OrderedInv, SavedInv,
                        [WNext]_wvars, Undisturbed'
                 PROVE  (Exchange /\ OneSource)'
      BY DEF SavedInv
    <2>1. CalmStep /\ [Next]_vars /\ Newcomers /\ Timed /\ Exchange /\ OneSource
      BY CalmSteps DEF OrderedInv, SavedInv
    <2>2. ~AllowDelete /\ restarts' = restarts
      BY <2>1 DEF TwoPeers, CalmStep
    <2> QED BY <2>1, <2>2, StepExchange, StepOneSource
  <1>3. ASSUME OneSource, Presence, Idle, ops = 1, NEW m \in Node, NEW n \in Node
        PROVE  disk[m] = disk[n]
    <2>1. PICK f \in Node, g \in Node : f # g /\ Carried(f, g)
      BY <1>3 DEF OneSource
    <2>2. DOMAIN tasks[g] = {}
      BY <1>3, BagDomains DEF Idle
    <2>3. disk[g] # Absent
      BY <1>3, <2>1 DEF Presence, Carried
    <2>4. disk[g] = disk[f]
      BY <2>1, <2>2, <2>3 DEF Carried
    <2>5. Node = {f, g}
      BY <2>1 DEF TwoPeers
    <2> QED BY <2>4, <2>5
  <1>4. SavedInv => Delivered
    BY <1>3, ExchangeEnds DEF SavedInv, Delivered
  <1> QED BY <1>1, <1>2, <1>4, SecondInvariant, WindowSpec, TypeCorrect, PTL DEF WSpec
=============================================================================
