---------------------------- MODULE FileSyncWindow -----------------------------
(***************************************************************************)
(* FileSync with a history variable, which no step reads.  PublishFileEvent *)
(* leaves a window open: it publishes a change (file_sync.go:131) and      *)
(* records it in a later statement (:136), with no lock around the two, and *)
(* until then the node handles messages as if it had no change of its own. *)
(* The variable tells the executions in which a node acts in the window.   *)
(***************************************************************************)
EXTENDS FileSync

VARIABLE blind  \* whether a node has ever decided in the window

wvars == <<disk, modTime, fileStates, tasks, inbox, now, ops, requests,
           restarts, blind>>

WInit == Init /\ blind = FALSE

\* hasConflict finds no entry of the file, although a change of it has been
\* published: node n takes its peer's event for the first news of the file.
DecidesBlind(n) ==
    /\ fileStates[n] = NoState
    /\ \E t \in DOMAIN tasks[n] : t.step = "record"
    /\ \E t \in DOMAIN tasks[n] : DetectConflict(n, t)

WNext == Next /\ blind' = (blind \/ \E n \in Node : DecidesBlind(n))

WSpec == WInit /\ [][WNext]_wvars

WFairSpec == WSpec /\ Fairness

-----------------------------------------------------------------------------
(* What the timestamps protect, as long as they can: in the first second of *)
(* the clock, before any crash, and while no node has decided blindly.      *)
(* These properties say nothing of other executions, and fail in them.      *)

Undisturbed == ~blind /\ now < TicksPerSecond /\ restarts = 0

\* The users done, the cluster comes to rest, unless a node decides blindly:
\* no echo of events (handleFileEvent, file_sync.go:453-479) keeps nodes
\* copying the file to and fro.
ComesToRest == <>[](Idle \/ blind)

\* Between two nodes one change costs at most one request while undisturbed:
\* what a node writes it announces, but is not asked for (file_sync.go:475).
RequestBudget == Undisturbed => requests <= ops * (Cardinality(Node) - 1)

\* Node n has been sent the file and has not written all of it yet.
Receiving(n) ==
    \/ \E m \in DOMAIN inbox[n] : m.type = "file_response"
    \/ \E t \in DOMAIN tasks[n] : t.step = "write"

\* Two nodes, undisturbed: they are never sent the file by each other at the
\* same time, each os.Create (file_sync.go:343) truncating what the other is
\* about to read.
OneWay ==
    Undisturbed => \A m, n \in Node : Receiving(m) /\ Receiving(n) => m = n

\* Two nodes, undisturbed, from the first save on: some node holds what a user
\* saved, whole.  The truncation of handleFileResponse (file_sync.go:343) never
\* hits the last such copy.
SavedCopyLeft ==
    Undisturbed /\ ops > 0 => \E n \in Node : disk[n] \in UserContent

\* Two nodes, undisturbed, and nothing lost: after a single save all copies are
\* the same when nothing is left to do, although the receiver truncates its file
\* before it writes and announces whatever it finds there (engine.go:212-221).
Delivered ==
    Undisturbed /\ Idle /\ ops = 1 => \A m, n \in Node : disk[m] = disk[n]
=============================================================================
