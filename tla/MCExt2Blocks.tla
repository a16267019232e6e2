--------------------------- MODULE MCExt2Blocks ---------------------------
(* Constants for the TLC runs of Ext2Blocks: blocks of 16 bytes, so tables *)
(* of four block numbers.                                                  *)
EXTENDS Ext2Blocks

\* Blocks 1 to 27 are tables; file block b is in block 100 + b.
Table(f(_)) == [k \in 0..3 |-> f(k)]
FullTables ==
    [b \in 1..27 |->
        CASE b = 1       -> Table(LAMBDA k : 112 + k)
          [] b = 2       -> Table(LAMBDA k : 3 + k)
          [] b \in 3..6  -> Table(LAMBDA k : 116 + 4 * (b - 3) + k)
          [] b = 7       -> Table(LAMBDA k : 8 + k)
          [] b \in 8..11 -> Table(LAMBDA k : 12 + 4 * (b - 8) + k)
          [] OTHER       -> Table(LAMBDA k : 132 + 4 * (b - 12) + k)]
FullNode == [dbp |-> [k \in 0..11 |-> 100 + k], sibp |-> 1, dibp |-> 2,
             tibp |-> 7]

\* A file with every block, one that ends with its last direct block, and
\* one with holes at every level.
Full   == [node |-> FullNode, tables |-> FullTables]
Twelve == [node |-> [FullNode EXCEPT !.sibp = 0, !.dibp = 0, !.tibp = 0],
           tables |-> FullTables]
Sparse == [node |-> [FullNode EXCEPT !.dbp[1] = 0],
           tables |-> [FullTables EXCEPT ![1][2] = 0, ![2][1] = 0,
                                         ![3][3] = 0, ![7][3] = 0]]
ThreeFiles == {Full, Twelve, Sparse}

\* Starts near the places where the traversal changes tables: the direct,
\* singly, doubly and triply indirect ranges begin at file blocks 12, 28
\* and 92 for the code, and 268 is the next entry of the triply table.
Starts == {16 * b + j : b \in {0, 1, 11, 13, 15, 27, 42, 43, 91, 107, 267},
                        j \in {0, 9}}
Edges == [op : {"read", "write"}, offset : Starts, size : {0, 1, 16, 24, 40}]

\* Fewer starts, for the property that a read does not write.
Reads == [op : {"read"}, offset : {0, 186}, size : {1, 24}]
============================================================================
