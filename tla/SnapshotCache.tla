--------------------------- MODULE SnapshotCache ---------------------------
(***************************************************************************)
(* What an SDK client promises about the snapshot it serves flags from:    *)
(* the API appends snapshots, and in one step the client replaces what it  *)
(* has loaded by a whole snapshot that is stored.  It never serves a       *)
(* mixture of two, and never goes back to none, whatever happens to the    *)
(* polls in between.  SdkGo and SdkJs implement this specification.        *)
(***************************************************************************)
EXTENDS Naturals, Sequences

CONSTANTS
    Usable(_),  \* what a client keeps of the flags of a snapshot
    NoFlags     \* the flags of a client that has loaded nothing

VARIABLES
    stored,     \* the flags of each snapshot of the project, by version
    loaded      \* the snapshot in the client's memory

vars == <<stored, loaded>>

Init ==
    /\ stored = <<>>
    /\ loaded = [version |-> 0, flags |-> NoFlags]

Compile ==
    /\ Len(stored') = Len(stored) + 1
    /\ \A v \in 1 .. Len(stored) : stored'[v] = stored[v]
    /\ UNCHANGED loaded

Load ==
    /\ \E v \in 1 .. Len(stored) :
           loaded' = [version |-> v, flags |-> Usable(stored[v])]
    /\ UNCHANGED stored

Next == Compile \/ Load

Spec == Init /\ [][Next]_vars
=============================================================================
