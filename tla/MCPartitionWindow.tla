------------------------- MODULE MCPartitionWindow -------------------------
(* Constants for the TLC run of PartitionWindow: two partitions of three   *)
(* blocks side by side, so that the last page of the first one reaches     *)
(* into the second.                                                        *)
EXTENDS PartitionWindow

CONSTANTS c1, c2, p1, p2, f1, g1, f2

TwoCallers == {c1, c2}
TwoPartitions == {p1, p2}
AllFiles == {f1, g1, f2}

OnPartition == [f \in AllFiles |-> IF f = f2 THEN p2 ELSE p1]
Starts == [h \in TwoPartitions |-> IF h = p1 THEN 1 ELSE 4]
Lengths == [h \in TwoPartitions |-> 3]

\* The callers share a file, a partition or the namespace only.
SharedOrNot == {[c \in TwoCallers |-> IF c = c1 THEN f1 ELSE f] : f \in AllFiles}

\* Unaligned and whole pages, the end of a partition and past it.
MeetingRequests ==
    {[op |-> "write", offset |-> x[1], len |-> x[2]] :
        x \in {<<0, 6>>, <<1, 4>>, <<4, 4>>}}
    \cup {[op |-> "read", offset |-> 1, len |-> 5]}
============================================================================
