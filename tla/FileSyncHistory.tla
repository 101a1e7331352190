--------------------------- MODULE FileSyncHistory ----------------------------
(***************************************************************************)
(* FileSync with a history variable, which shows where the copies of the   *)
(* file come from: that they implement ReplicatedFile.                     *)
(***************************************************************************)
EXTENDS FileSync

VARIABLE held  \* held[n]: every content node n's copy has ever had

hvars == <<disk, modTime, fileStates, tasks, inbox, now, ops, requests,
           restarts, held>>

HInit == Init /\ held = [n \in Node |-> {}]

HNext == Next /\ held' = [n \in Node |-> held[n] \union ({disk'[n]} \ {Absent})]

HSpec == HInit /\ [][HNext]_hvars

RecordedSum(n) == IF fileStates[n] = NoState THEN NoState ELSE fileStates[n].sum

Replicas == INSTANCE ReplicatedFile
              WITH recorded <- [n \in Node |-> RecordedSum(n)]

\* A copy changes only by its user or by what another node had, and a node
\* records only what it had, through every race, loss and crash: the contents
\* that handleFileResponse installs (file_sync.go:552) and the checksums that
\* updateFileState stores (file_sync.go:373) are never made up on the way.
ImplementsReplicatedFile == Replicas!ASpec
=============================================================================
