--------------------------- MODULE StreamDelivery ---------------------------
(***************************************************************************)
(* What a pipeline promises of each stream of a file: it may lose packets, *)
(* but writes what it does write in the order of the file, once, and not   *)
(* before it was read.                                                     *)
(***************************************************************************)
EXTENDS Naturals

CONSTANT Streams

VARIABLES
    read,   \* time stamp of the last packet read from each stream
    out     \* time stamp of the last frame written

Init == read = [s \in Streams |-> 0] /\ out = [s \in Streams |-> 0]

Read(s) ==
    /\ read'[s] > read[s]
    /\ read' = [read EXCEPT ![s] = read'[s]]
    /\ UNCHANGED out

Deliver(s) ==
    /\ out'[s] \in out[s] + 1 .. read[s]
    /\ out' = [out EXCEPT ![s] = out'[s]]
    /\ UNCHANGED read

Next == \E s \in Streams : Read(s) \/ Deliver(s)

Spec == Init /\ [][Next]_<<read, out>>
=============================================================================
