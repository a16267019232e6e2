---------------------------- MODULE MCNvmeQueue ----------------------------
(* Constants for the TLC runs of NvmeQueue.                                *)
EXTENDS NvmeQueueService, TLC

CONSTANTS t1, t2, cpu1

OneThread == {t1}
TwoThreads == {t1, t2}
OneCpu == {cpu1}

AllOnOne == [t \in Threads |-> cpu1]
============================================================================
