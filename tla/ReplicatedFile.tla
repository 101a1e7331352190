---------------------------- MODULE ReplicatedFile ----------------------------
(***************************************************************************)
(* What file synchronisation promises of one file, whatever the schedule:  *)
(* a node's copy changes only by its user or by taking over what another   *)
(* node had at some time, and what a node records of its copy it once had. *)
(* It does not promise that the copies ever agree: the code does not keep  *)
(* such a promise (see the violated runs of FileSync).                     *)
(***************************************************************************)
EXTENDS Sequences, Integers

CONSTANTS Node, Block, UserContent, Absent, NoState

VARIABLES
    disk,     \* the copies
    recorded, \* recorded[n]: the checksum node n believes its copy has
    held      \* held[n]: every content node n's copy has ever had

avars == <<disk, recorded, held>>

Overlay(d, c) == d \o SubSeq(c, Len(d) + 1, Len(c))

AInit ==
    /\ disk = [n \in Node |-> Absent]
    /\ recorded = [n \in Node |-> NoState]
    /\ held = [n \in Node |-> {}]

Becomes(n, c) ==
    /\ disk' = [disk EXCEPT ![n] = c]
    /\ held' = [held EXCEPT ![n] = @ \union {c}]
    /\ UNCHANGED recorded

Save(n) == \E c \in UserContent : Becomes(n, c)

Remove(n) ==
    /\ disk' = [disk EXCEPT ![n] = Absent]
    /\ UNCHANGED <<recorded, held>>

\* A copy is emptied only to be replaced by one that another node had.
Truncate(n) ==
    /\ \E m \in Node \ {n} : held[m] # {}
    /\ Becomes(n, << >>)

Replace(n) ==
    \E m \in Node \ {n} : \E d \in held[m] :
        /\ disk[n] # Absent
        /\ Becomes(n, Overlay(d, disk[n]))

Record(n) ==
    /\ \E c \in held[n] \union {Absent} : recorded' = [recorded EXCEPT ![n] = c]
    /\ UNCHANGED <<disk, held>>

Forget(n) ==
    /\ recorded' = [recorded EXCEPT ![n] = NoState]
    /\ UNCHANGED <<disk, held>>

ANext == \E n \in Node :
    Save(n) \/ Remove(n) \/ Truncate(n) \/ Replace(n) \/ Record(n) \/ Forget(n)

ASpec == AInit /\ [][ANext]_avars
=============================================================================
