-------------------------- MODULE MCNvmeNamespace --------------------------
(* Constants for the TLC run of NvmeNamespace: pages of two blocks of two  *)
(* bytes, and block numbers that fit in four bits.                         *)
EXTENDS NvmeNamespace

CONSTANTS c1, h

OneCaller == {c1}
OneHandle == {h}

\* Every range near the start of a namespace of eighteen blocks, and ranges
\* around its end and around the blocks whose number changes sign or wraps.
AllRequests ==
    [op : {"read", "write"}, offset : 0..3 \cup {14, 15, 30, 31, 33, 35},
     len : {0, 1, 3, 4, 5, 8}]
============================================================================
