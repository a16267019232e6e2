---------------------------- MODULE Ext2Blocks ----------------------------
(***************************************************************************)
(* Reading and writing the data of an ext2 inode: ext2_traverse_blocks of  *)
(* sysfs/ext2/util.c with its two data callbacks and the two functions     *)
(* that call it.  One call is in progress at a time.                       *)
(*                                                                         *)
(* The traversal keeps up to three tables of block numbers in memory, one  *)
(* per level of indirection, replaces them as it moves through the file,   *)
(* and writes each one back when it replaces it and when it leaves.  What  *)
(* a data block holds plays no part here: a transfer is recorded as the    *)
(* places of the partition, block and byte, that the bytes of the caller's *)
(* buffer were copied from or to.                                          *)
(*                                                                         *)
(* Creating blocks is not implemented in the code (ext2_create_callback    *)
(* returns 0), so an unmapped block ends a write as it ends a read.        *)
(***************************************************************************)
EXTENDS Integers, Sequences, FiniteSets

CONSTANTS
    BlockSize,    \* state->block_size, in bytes
    Files,        \* inodes and their tables: [node, tables] records
    Requests,     \* calls to explore: [op, offset, size] records
    MaxCalls,     \* bound: calls in one behaviour
    MaxFailures,  \* bound: allocations and transfers that fail
    NoTable       \* a NULL table pointer

\* A block number takes four bytes.
PtrCount == BlockSize \div 4

Wild    == 9999                            \* a block number out of nowhere
Garbage == {[k \in 0..PtrCount-1 |-> 0], [k \in 0..PtrCount-1 |-> Wild]}
Boot    == [k \in 0..PtrCount-1 |-> -1]    \* what block 0 holds

Numbers == [0..PtrCount-1 -> Nat]          \* what a table holds

\* An inode of a consistent file system: where it names a table there is one,
\* and the tables of the upper levels name tables in turn.
Consistent(f) ==
    LET tables == DOMAIN f.tables
        NamesTables(b) == b # 0 => \A k \in 0..PtrCount-1 :
                                      f.tables[b][k] \in tables \cup {0}
    IN  /\ tables \subseteq Nat \ {0, Wild}
        /\ f.tables \in [tables -> Numbers]
        /\ f.node.dbp \in [0..11 -> Nat]
        /\ {f.node.sibp, f.node.dibp, f.node.tibp} \subseteq tables \cup {0}
        /\ NamesTables(f.node.dibp) /\ NamesTables(f.node.tibp)
        /\ f.node.tibp # 0 => \A k \in 0..PtrCount-1 :
                                 NamesTables(f.tables[f.node.tibp][k])

ASSUME BlocksAssumption ==
    /\ BlockSize \in Nat \ {0} /\ BlockSize % 4 = 0
    /\ MaxCalls \in Nat /\ MaxFailures \in Nat
    /\ \A f \in Files : Consistent(f)
    /\ Requests \subseteq [op : {"read", "write"}, offset : Nat, size : Nat]
    /\ NoTable \notin Numbers

VARIABLES
    file,         \* the inode, fixed in a behaviour
    enabled,      \* bit 1 of state->attributes: "Write enabled"
    disk,         \* the tables on the partition: block -> numbers
    pc,
    op, offset, size,               \* the call in progress, or the last one
    traversed,
    sibp, dibp, tibp,               \* tables in memory
    last_doubly, last_triply,       \* where sibp and dibp came from, or 0
    block,                          \* the data block found
    moved,        \* places of the bytes transferred, in buffer order
    calls, failures,
    torn,         \* history: a table in memory was not filled from its block
    wrote         \* history: the call has written to the partition

tableVars == <<sibp, dibp, tibp, last_doubly, last_triply>>
callVars  == <<op, offset, size, traversed, block, moved>>
vars == <<file, enabled, disk, pc, callVars, tableVars, calls, failures, torn,
          wrote>>

node == file.node

\* The tables of a file and the blocks that are no table of any file.
Formatted(f) == [b \in DOMAIN f.tables \cup {0, Wild} |->
                    IF b \in {0, Wild} THEN Boot ELSE f.tables[b]]

Lesser(a, b) == IF a <= b THEN a ELSE b

----------------------------------------------------------------------------
(* Where the traversal looks for byte n of the file.  The differences with *)
(* 1 are taken in 64-bit unsigned arithmetic, and PtrCount is a power of   *)
(* two, so 0 - 1 leaves the last index of the table.                       *)

BaseIdx(n)   == n \div BlockSize
MutJank(n)   == 0               \* mutant: every block from its beginning
Jank(n)      == n % BlockSize
DoublyIdx(n) == (BaseIdx(n) - 12) \div BlockSize
TriplyIdx(n) == DoublyIdx(n) \div BlockSize
SinglyIdx(n) == (BaseIdx(n) - 12) % PtrCount
InDibp(n)    == (DoublyIdx(n) - 1) % PtrCount
InTibp(n)    == (TriplyIdx(n) - 1) % PtrCount

Here == traversed + offset

----------------------------------------------------------------------------
Init ==
    /\ file \in Files
    /\ enabled \in BOOLEAN
    /\ disk = Formatted(file)
    /\ pc = "idle"
    /\ op = "none" /\ offset = 0 /\ size = 0 /\ traversed = 0
    /\ sibp = NoTable /\ dibp = NoTable /\ tibp = NoTable
    /\ last_doubly = 0 /\ last_triply = 0 /\ block = 0
    /\ moved = <<>>
    /\ calls = 0 /\ failures = 0
    /\ torn = FALSE /\ wrote = FALSE

Fails == failures < MaxFailures /\ failures' = failures + 1

\* The entry of ext2_read_inode_data and ext2_write_inode_data.
Call(r) ==
    /\ pc = "idle" /\ calls < MaxCalls
    /\ calls' = calls + 1
    /\ op' = r.op /\ offset' = r.offset /\ size' = r.size
    /\ traversed' = 0 /\ moved' = <<>> /\ block' = 0 /\ wrote' = FALSE
    /\ pc' = IF r.size = 0 \/ (r.op = "write" /\ ~enabled) THEN "idle"
                                                           ELSE "loop"
    /\ UNCHANGED <<file, enabled, disk, tableVars, failures, torn>>

----------------------------------------------------------------------------
(* ext2_load_block and ext2_load_read_block.                               *)

\* A block number that is 0 ends the traversal.
Resolve(b) ==
    /\ block' = b
    /\ pc' = IF b = 0 THEN "exit" ELSE "data"

\* vfs_read of the table in block b over the buffer old: a failed transfer
\* goes unnoticed and leaves what the buffer held.
ReadTable(b, old, new) ==
    \/ /\ new \in IF b \in DOMAIN file.tables THEN {disk[b]} ELSE Garbage
       /\ UNCHANGED <<failures, torn>>
    \/ /\ Fails
       /\ new \in IF old = NoTable THEN Garbage ELSE {old}
       /\ torn' = TRUE

\* The table the inode names in field b, unless it is in memory already.
\* The buffer is allocated before the field is looked at.
LoadTop(b, old, new, next) ==
    \/ /\ old # NoTable /\ new = old /\ pc' = next
       /\ UNCHANGED <<failures, torn>>
    \/ /\ old = NoTable /\ b # 0 /\ ReadTable(b, old, new) /\ pc' = next
    \/ /\ old = NoTable /\ b = 0 /\ new \in Garbage /\ pc' = "exit"
       /\ torn' = TRUE /\ UNCHANGED failures
    \/ /\ old = NoTable /\ Fails /\ new = NoTable /\ pc' = "exit"
       /\ UNCHANGED torn

\* A lower table replaces the one in memory; the results are not looked at.
LoadInner(b, old, new) ==
    \/ ReadTable(b, old, new)
    \/ old = NoTable /\ Fails /\ new = NoTable /\ UNCHANGED torn

\* vfs_write of a table to block b; a failed transfer goes unnoticed.
WriteTable(b, table) ==
    /\ disk' \in {disk, [disk EXCEPT ![b] = table]}
    /\ wrote' = TRUE

NoWrite == UNCHANGED <<disk, wrote>>

----------------------------------------------------------------------------
(* One turn of the loop of ext2_traverse_blocks.                           *)

Turn == pc = "loop" /\ traversed < size

Frame == UNCHANGED <<file, enabled, op, offset, size, calls>>
Kept  == UNCHANGED <<traversed, moved>>

DirectBlock ==
    /\ Turn /\ BaseIdx(Here) < 12
    /\ Resolve(node.dbp[BaseIdx(Here)])
    /\ Frame /\ Kept /\ NoWrite /\ UNCHANGED <<tableVars, failures, torn>>

SinglyTable ==
    /\ Turn /\ BaseIdx(Here) >= 12
    /\ DoublyIdx(Here) = 0 /\ TriplyIdx(Here) = 0
    /\ LoadTop(node.sibp, sibp, sibp', "single")
    /\ Frame /\ Kept /\ NoWrite
    /\ UNCHANGED <<dibp, tibp, last_doubly, last_triply, block>>

TriplyTable ==
    /\ Turn /\ BaseIdx(Here) >= 12
    /\ DoublyIdx(Here) >= PtrCount + 1
    /\ LoadTop(node.tibp, tibp, tibp', "triple")
    /\ Frame /\ Kept /\ NoWrite
    /\ UNCHANGED <<sibp, dibp, last_doubly, last_triply, block>>

DoublyTable ==
    /\ Turn /\ BaseIdx(Here) >= 12
    /\ DoublyIdx(Here) \in 1..PtrCount
    /\ LoadTop(node.dibp, dibp, dibp', "double")
    /\ Frame /\ Kept /\ NoWrite
    /\ UNCHANGED <<sibp, tibp, last_doubly, last_triply, block>>

\* From the triply indirect table to the doubly indirect one.
TriplyStep ==
    /\ pc = "triple"
    /\ LET b == tibp[InTibp(Here)] IN
         \/ b = 0 /\ pc' = "exit" /\ NoWrite
            /\ UNCHANGED <<dibp, last_triply, failures, torn>>
         \/ b # 0 /\ b = last_triply /\ pc' = "double" /\ NoWrite
            /\ UNCHANGED <<dibp, last_triply, failures, torn>>
         \/ /\ b # 0 /\ b # last_triply /\ pc' = "double"
            /\ IF last_triply # 0 THEN WriteTable(last_triply, dibp)
                                  ELSE NoWrite
            /\ LoadInner(b, dibp, dibp')
            /\ last_triply' = b
    /\ Frame /\ Kept /\ UNCHANGED <<sibp, tibp, last_doubly, block>>

\* Mutant: sibp is only read when there is none yet, as at the top level.
MutDoublyStep ==
    /\ pc = "double" /\ dibp # NoTable
    /\ LET b == dibp[InDibp(Here)] IN
         \/ b = 0 /\ pc' = "exit" /\ NoWrite
            /\ UNCHANGED <<sibp, last_doubly, failures, torn>>
         \/ b # 0 /\ sibp # NoTable /\ pc' = "single" /\ NoWrite
            /\ UNCHANGED <<sibp, last_doubly, failures, torn>>
         \/ /\ b # 0 /\ sibp = NoTable /\ pc' = "single" /\ NoWrite
            /\ LoadInner(b, sibp, sibp')
            /\ last_doubly' = b
    /\ Frame /\ Kept /\ UNCHANGED <<dibp, tibp, last_triply, block>>

\* From the doubly indirect table to the singly indirect one.
DoublyStep ==
    /\ pc = "double" /\ dibp # NoTable
    /\ LET b == dibp[InDibp(Here)] IN
         \/ b = 0 /\ pc' = "exit" /\ NoWrite
            /\ UNCHANGED <<sibp, last_doubly, failures, torn>>
         \/ b # 0 /\ b = last_doubly /\ pc' = "single" /\ NoWrite
            /\ UNCHANGED <<sibp, last_doubly, failures, torn>>
         \/ /\ b # 0 /\ b # last_doubly /\ pc' = "single"
            /\ IF last_doubly # 0 THEN WriteTable(last_doubly, sibp)
                                  ELSE NoWrite
            /\ LoadInner(b, sibp, sibp')
            /\ last_doubly' = b
    /\ Frame /\ Kept /\ UNCHANGED <<dibp, tibp, last_triply, block>>

\* From the singly indirect table to the data block.
SinglyStep ==
    /\ pc = "single" /\ sibp # NoTable
    /\ Resolve(sibp[SinglyIdx(Here)])
    /\ Frame /\ Kept /\ NoWrite /\ UNCHANGED <<tableVars, failures, torn>>

\* A table is indexed although its allocation failed.
NullTable ==
    /\ \/ pc = "double" /\ dibp = NoTable
       \/ pc = "single" /\ sibp = NoTable
    /\ pc' = "fault"
    /\ Frame /\ Kept /\ NoWrite /\ UNCHANGED <<tableVars, block, failures, torn>>

----------------------------------------------------------------------------
(* ext2_read_callback and ext2_write_callback.                             *)

\* n bytes move between the buffer and the block, from byte Jank on.
Transfer(n) ==
    /\ moved' = moved \o [k \in 1..n |-> <<block, Jank(Here) + k - 1>>]
    /\ traversed' = traversed + n
    /\ pc' = "loop"
    /\ wrote' = (wrote \/ op = "write")
    /\ Frame /\ UNCHANGED <<disk, tableVars, block, torn>>

\* Mutant: the rest of the block, whatever is left of the request.
MutDataWholeBlock ==
    /\ pc = "data"
    /\ Transfer(BlockSize - Jank(Here)) /\ UNCHANGED failures

\* Mutant: what was transferred is not added up.
MutDataStuck ==
    /\ pc = "data"
    /\ Transfer(0) /\ UNCHANGED failures

\* What vfs_read or vfs_write returns is added to traversed: the rest of
\* the block or of the request, or less when the transfer fails.
Data ==
    /\ pc = "data"
    /\ LET n == Lesser(BlockSize - Jank(Here), size - traversed) IN
         \/ Transfer(n) /\ UNCHANGED failures
         \/ \E k \in 0..n-1 : Transfer(k) /\ Fails

\* Mutant: the loop ends one byte early.
MutLoopEnd ==
    /\ pc = "loop" /\ traversed + 1 >= size
    /\ pc' = "exit"
    /\ Frame /\ Kept /\ NoWrite /\ UNCHANGED <<tableVars, block, failures, torn>>

LoopEnd ==
    /\ pc = "loop" /\ traversed >= size
    /\ pc' = "exit"
    /\ Frame /\ Kept /\ NoWrite /\ UNCHANGED <<tableVars, block, failures, torn>>

----------------------------------------------------------------------------
(* The label exit: every table in memory goes back to the partition, then  *)
(* the call returns traversed.                                             *)

ExitTable(from, to, table, new, b) ==
    /\ pc = from /\ pc' = to
    /\ new = NoTable
    /\ IF table # NoTable THEN WriteTable(b, table) ELSE NoWrite
    /\ Frame /\ Kept /\ UNCHANGED <<block, failures, torn>>

ExitTibp ==
    /\ ExitTable("exit", "exitD", tibp, tibp', node.tibp)
    /\ UNCHANGED <<sibp, dibp, last_doubly, last_triply>>

ExitDibp ==
    /\ ExitTable("exitD", "exitS", dibp, dibp',
                 IF last_triply = 0 THEN node.dibp ELSE last_triply)
    /\ last_triply' = 0
    /\ UNCHANGED <<sibp, tibp, last_doubly>>

\* Mutant: the singly indirect table always goes to the inode's own block.
MutExitSibp ==
    /\ ExitTable("exitS", "idle", sibp, sibp', node.sibp)
    /\ last_doubly' = 0
    /\ UNCHANGED <<dibp, tibp, last_triply>>

ExitSibp ==
    /\ ExitTable("exitS", "idle", sibp, sibp',
                 IF last_doubly = 0 THEN node.sibp ELSE last_doubly)
    /\ last_doubly' = 0
    /\ UNCHANGED <<dibp, tibp, last_triply>>

----------------------------------------------------------------------------
Step ==
    \/ DirectBlock \/ SinglyTable \/ DoublyTable \/ TriplyTable
    \/ TriplyStep \/ DoublyStep \/ SinglyStep \/ NullTable
    \/ Data \/ LoopEnd \/ ExitTibp \/ ExitDibp \/ ExitSibp

\* Every call of the bound has returned, or the kernel has faulted.
Finished ==
    /\ (pc = "idle" /\ calls = MaxCalls) \/ pc = "fault"
    /\ UNCHANGED vars

Next == (\E r \in Requests : Call(r)) \/ Step \/ Finished

Spec == Init /\ [][Next]_vars

\* A call in progress goes on; nobody is obliged to call.
FairSpec == Spec /\ WF_vars(Step)

----------------------------------------------------------------------------
(* Properties.                                                             *)

\* Every variable stays within its type; a call never transfers more than
\* it was asked for.
TypeOK ==
    /\ file \in Files /\ enabled \in BOOLEAN
    /\ pc \in {"idle", "loop", "triple", "double", "single", "data", "exit",
               "exitD", "exitS", "fault"}
    /\ op \in {"none", "read", "write"}
    /\ offset \in Nat /\ size \in Nat /\ traversed \in 0..size
    /\ block \in Nat /\ last_doubly \in Nat /\ last_triply \in Nat
    /\ Len(moved) = traversed
    /\ calls \in 0..MaxCalls /\ failures \in 0..MaxFailures
    /\ torn \in BOOLEAN /\ wrote \in BOOLEAN

\* The block an ext2 file keeps its n-th byte in, for the bytes reached
\* directly or through the singly indirect table.
ExpectedBlock(n) ==
    LET b == n \div BlockSize IN
    IF b < 12 THEN node.dbp[b] ELSE file.tables[node.sibp][b - 12]

\* Every byte of a file's direct and singly indirect blocks is read from,
\* or written to, the place where the file keeps it, however the request is
\* aligned and whatever part of it failed on the way.
RightPlace ==
    ~torn =>
        \A k \in 1..traversed :
            LET n == offset + k - 1 IN
            n \div BlockSize < 12 + PtrCount =>
                moved[k] = <<ExpectedBlock(n), n % BlockSize>>

\* The block the traversal would find for byte n with no table in memory.
UncachedBlock(n) ==
    LET At(b, k) == IF b = 0 THEN 0 ELSE file.tables[b][k]
        Doubly == IF DoublyIdx(n) > PtrCount THEN At(node.tibp, InTibp(n))
                                             ELSE node.dibp
        Singly == IF DoublyIdx(n) = 0 THEN node.sibp
                                      ELSE At(Doubly, InDibp(n))
    IN  IF BaseIdx(n) < 12 THEN node.dbp[BaseIdx(n)]
                           ELSE At(Singly, SinglyIdx(n))

\* The tables kept from one turn to the next never matter: each byte goes
\* where a traversal starting at that byte would have put it, so two calls
\* that meet at a byte agree on its place.
CacheTransparent ==
    ~torn =>
        \A k \in 1..traversed :
            moved[k][1] = UncachedBlock(offset + k - 1)

\* Writing the tables back changes nothing on the partition: every table
\* goes to the block it was read from, on each path to the label exit.
\* The exceptions are a table whose transfer failed, and a table that the
\* inode does not have: its buffer is never filled, and goes to block 0.
TablesIntact == ~torn => disk = Formatted(file)

\* A call returns fewer bytes than asked for only at a block that is not
\* mapped, or when something failed, or when a write is not allowed.
ShortOnlyAtHole ==
    pc = "idle" /\ ~torn /\ traversed < size =>
        \/ UncachedBlock(offset + traversed) = 0
        \/ failures > 0
        \/ op = "write" /\ ~enabled

\* state_defs.h on bit 1 of the attributes: "1: Write enabled".  With the
\* bit clear nothing is written to the partition.
ReadOnlyUntouched == ~enabled => ~wrote

\* Every call returns, as long as the partition does not fail for ever, or
\* faults on a table that could not be allocated.
CallReturns == pc = "loop" ~> pc \in {"idle", "fault"}

============================================================================
